------------------------------- MODULE Config -------------------------------
(***************************************************************************)
(* The persistent configuration (src/config.c on src/fs.c): settings are   *)
(* kept in RAM (config_data) and, one record per setting, in flash (NVS).  *)
(* config_init loads them at boot; the setters, called by the BMC shell    *)
(* and by the Redfish handlers of the HTTP thread, change RAM, apply the   *)
(* setting and save it, in an order of their own and without a lock.       *)
(* Flash operations may fail and the BMC may lose power between any two    *)
(* steps.                                                                  *)
(*                                                                         *)
(* NVS is external: a write is atomic and durable, a write of length 0     *)
(* deletes the record, and nvs_clear leaves the file system unmounted.     *)
(***************************************************************************)
EXTENDS Integers, Sequences, FiniteSetsExt, SequencesExt

CONSTANTS Keys,        \* the settings, in the order config_init loads them (a sequence)
          Strings,     \* non-empty values of a string or address setting
          Cut,         \* for CutKeys: what strlcpy leaves of each string
          Callers,     \* threads that call the setters
          NvsVersions, \* versions the flash may hold at first (NoVersion: a blank flash)
          FlashErrors, \* error codes flash writes may fail with
          AllowEmpty,  \* may a caller set a string to ""?
          MaxErrors,   \* bound: flash errors
          MaxCalls     \* bound: setter calls

FlagKeys == {"use_dhcp4", "use_ntp", "auto_poweron"}
IpKeys == {"ip4", "ip4_nm", "ip4_gw"}
StrKeys == {"hostname", "ntp_server", "password"}
KeySet == ToSet(Keys)

\* The strings that are not checked to fit: a host name longer than MAX_HOSTNAME_LEN,
\* or an NTP server longer than MAX_NTP_SERVER_LEN, is cut.
CutKeys == {"hostname", "ntp_server"}

CFG_CURRENT_VERSION == 3
\* Mutation of FLASH_WRITE_RETRY_COUNT: one retry less.
RetryOneLess == 2

FLASH_WRITE_RETRY_COUNT == 3
NoVersion == 0      \* no version record
Absent == "absent"  \* no record
Empty == ""
Invalid == "invalid"  \* not an address, or longer than MAX_PW_LEN
NoPromise == "none"

ASSUME ConfigAssumption ==
    /\ Keys \in Seq(FlagKeys \cup IpKeys \cup StrKeys)
    /\ Strings \subseteq STRING
    /\ Strings \cap {Absent, Empty, Invalid, NoPromise, "0", "1"} = {}
    /\ Cut \in [CutKeys -> [Strings -> Strings]]
    /\ NvsVersions \subseteq Nat
    /\ FlashErrors \subseteq {"EIO", "ENOSPC"}
    /\ MaxErrors \in Nat /\ MaxCalls \in Nat /\ AllowEmpty \in BOOLEAN

Values(k) ==
    CASE k \in FlagKeys -> {"0", "1"}
      [] k \in IpKeys -> Strings \cup {"0"}
      [] OTHER -> Strings \cup {"default", Empty}

\* What a caller may pass.  A NULL address means 0.
Arguments(k) ==
    CASE k \in FlagKeys -> {"0", "1"}
      [] k \in IpKeys -> Strings \cup {"0", Invalid}
      [] k = "password" -> Strings \cup {Invalid} \cup (IF AllowEmpty THEN {Empty} ELSE {})
      [] OTHER -> Strings \cup (IF AllowEmpty THEN {Empty} ELSE {})

\* What the field of setting k holds after v was copied to it.
Field(k, v) == IF k \in CutKeys /\ v \in Strings THEN Cut[k][v] ELSE v

Default(k) ==
    CASE k \in {"use_dhcp4", "use_ntp"} -> "1"
      [] k \in IpKeys \cup {"auto_poweron"} -> "0"
      [] OTHER -> "default"

VARIABLES config_data, config_use_fs,  \* config.c
          addr,                        \* the static variable of ip4_stoa
          fs_is_enabled,               \* fs.c
          nvs, nvs_version, mounted,   \* the flash
          phase, loaded,               \* how far the boot is
          call,                        \* what each caller is doing
          promised,                    \* per setting, the value a caller was told is set
          wiped,                       \* the flash was cleared and the next boot is not done
          errors, readErrors, calls

ramVars == <<config_data, config_use_fs, fs_is_enabled, addr>>
nvsVars == <<nvs, nvs_version, mounted>>
bootVars == <<phase, loaded>>
ghostVars == <<promised, wiped>>
countVars == <<errors, readErrors, calls>>
vars == <<ramVars, nvsVars, bootVars, call, ghostVars, countVars>>

NoCall == [key |-> "", val |-> "", todo |-> <<>>, tries |-> 0, disturbed |-> FALSE]

\* The flash as an earlier firmware, or nobody, left it.
Init ==
    /\ config_data = [k \in KeySet |-> Default(k)]
    /\ config_use_fs = FALSE /\ fs_is_enabled = FALSE /\ addr = "0"
    /\ nvs_version \in NvsVersions
    /\ nvs = [k \in KeySet |-> IF nvs_version = NoVersion THEN Absent ELSE Default(k)]
    /\ mounted = FALSE
    /\ phase = "off" /\ loaded = 0
    /\ call = [c \in Callers |-> NoCall]
    /\ promised = [k \in KeySet |-> NoPromise] /\ wiped = FALSE
    /\ errors = 0 /\ readErrors = 0 /\ calls = 0

-----------------------------------------------------------------------------
(* fs.c                                                                    *)

\* Mutation of FlashUsable: a cleared file system is used as if it were mounted.
FlashEnabled == fs_is_enabled

FlashUsable == fs_is_enabled /\ mounted
ConfigUsable == config_use_fs /\ FlashUsable
MayFail == errors < MaxErrors
Fail == errors' = errors + 1 /\ UNCHANGED <<readErrors, calls>>

\* What the flash holds after value v was written.
Stored(v) == IF v = Empty THEN Absent ELSE v

nvs_clear ==
    /\ nvs' = [k \in KeySet |-> Absent]
    /\ nvs_version' = NoVersion
    /\ mounted' = FALSE

\* The erase of some sector keeps failing: the records in the others are lost.
ClearFails ==
    /\ MayFail /\ Fail
    /\ nvs_version' \in {nvs_version, NoVersion}
    /\ \E lost \in SUBSET KeySet :
          /\ nvs' = [k \in KeySet |-> IF k \in lost THEN Absent ELSE nvs[k]]
          /\ promised' = [k \in KeySet |-> IF k \in lost THEN NoPromise ELSE promised[k]]
    /\ UNCHANGED <<mounted, wiped>>

mount_fs == fs_is_enabled' = TRUE /\ mounted' = TRUE
umount_fs == fs_is_enabled' = FALSE

\* fs_key_read finds a record.
Readable(k) == ConfigUsable /\ nvs[k] # Absent

fs_init ==
    /\ phase = "off"
    /\ phase' = "version"
    /\ \/ mount_fs /\ UNCHANGED countVars
       \/ MayFail /\ Fail /\ UNCHANGED <<fs_is_enabled, mounted>>
    /\ UNCHANGED <<config_data, config_use_fs, addr, nvs, nvs_version, loaded, call, ghostVars>>

-----------------------------------------------------------------------------
(* config_init                                                             *)

\* A version that cannot be read is created; another version's configuration
\* is cleared first.  Without a version record the flash is not used at all.
CheckVersion ==
    /\ phase = "version"
    /\ \/ /\ ~fs_is_enabled
          /\ phase' = "load"
          /\ UNCHANGED <<config_use_fs, nvsVars, ghostVars, countVars>>
       \/ /\ fs_is_enabled /\ nvs_version = CFG_CURRENT_VERSION
          /\ config_use_fs' = TRUE /\ phase' = "load"
          /\ UNCHANGED <<nvsVars, ghostVars, countVars>>
       \/ /\ fs_is_enabled /\ nvs_version = NoVersion
          /\ config_use_fs' = TRUE /\ phase' = "create"
          /\ UNCHANGED <<nvsVars, ghostVars, countVars>>
       \/ /\ fs_is_enabled /\ nvs_version \notin {NoVersion, CFG_CURRENT_VERSION}
          /\ \/ /\ nvs_clear /\ config_use_fs' = TRUE /\ phase' = "create"
                /\ promised' = [k \in KeySet |-> NoPromise]
                /\ UNCHANGED <<wiped, countVars>>
             \/ ClearFails /\ config_use_fs' = FALSE /\ phase' = "load"
       \/ /\ fs_is_enabled /\ nvs_version # NoVersion   \* but it cannot be read
          /\ errors + readErrors < MaxErrors /\ readErrors' = readErrors + 1
          /\ config_use_fs' = TRUE /\ phase' = "create"
          /\ UNCHANGED <<nvsVars, ghostVars, errors, calls>>
    /\ UNCHANGED <<config_data, fs_is_enabled, addr, loaded, call>>

CreateVersion ==
    /\ phase = "create"
    /\ phase' = "load"
    /\ \/ /\ ConfigUsable /\ nvs_version' = CFG_CURRENT_VERSION
          /\ UNCHANGED <<config_use_fs, countVars>>
       \/ /\ ~ConfigUsable /\ config_use_fs' = FALSE
          /\ UNCHANGED <<nvs_version, countVars>>
       \/ /\ ConfigUsable /\ MayFail /\ Fail /\ config_use_fs' = FALSE
          /\ UNCHANGED nvs_version
    /\ UNCHANGED <<config_data, fs_is_enabled, addr, nvs, mounted, loaded, call, ghostVars>>

\* Mutation of LoadField: the record that was read is not used.
LoadDefault ==
    /\ phase = "load" /\ loaded < Len(Keys)
    /\ loaded' = loaded + 1
    /\ config_data' = [config_data EXCEPT ![Keys[loaded + 1]] = Default(Keys[loaded + 1])]
    /\ UNCHANGED <<config_use_fs, fs_is_enabled, addr, nvsVars, phase, call, ghostVars, countVars>>

\* One field: what cannot be read gets its default, which is written back; the
\* result of that write is not looked at.
LoadField ==
    /\ phase = "load" /\ loaded < Len(Keys)
    /\ loaded' = loaded + 1
    /\ LET k == Keys[loaded + 1] IN
       \/ /\ Readable(k)
          /\ config_data' = [config_data EXCEPT ![k] = nvs[k]]
          /\ UNCHANGED <<nvs, promised, countVars>>
       \/ /\ ~Readable(k)
          /\ config_data' = [config_data EXCEPT ![k] = Default(k)]
          /\ \/ ConfigUsable /\ nvs' = [nvs EXCEPT ![k] = Stored(Default(k))] /\ UNCHANGED countVars
             \/ ~ConfigUsable /\ UNCHANGED <<nvs, countVars>>
             \/ ConfigUsable /\ MayFail /\ Fail /\ UNCHANGED nvs
          /\ UNCHANGED promised
       \/ \* the record is there but cannot be read
          /\ Readable(k) /\ errors + readErrors < MaxErrors
          /\ readErrors' = readErrors + 1 /\ UNCHANGED calls
          /\ config_data' = [config_data EXCEPT ![k] = Default(k)]
          /\ \/ nvs' = [nvs EXCEPT ![k] = Stored(Default(k))] /\ UNCHANGED errors
             \/ errors + readErrors + 1 < MaxErrors /\ errors' = errors + 1 /\ UNCHANGED nvs
          /\ promised' = [promised EXCEPT ![k] = NoPromise]
    /\ UNCHANGED <<config_use_fs, fs_is_enabled, addr, nvs_version, mounted, phase, call, wiped>>

BootFinished ==
    /\ phase = "load" /\ loaded = Len(Keys)
    /\ phase' = "up" /\ wiped' = FALSE
    /\ UNCHANGED <<ramVars, nvsVars, loaded, call, promised, countVars>>

-----------------------------------------------------------------------------
(* The setters, as the sequences of steps they take.                       *)

config_bmc_hostname_set       == <<"apply", "ram", "write">>
config_bmc_default_ip4_set    == <<"parse", "ram", "apply", "write">>
config_bmc_default_ip4_nm_set == <<"parse", "ram", "apply", "write">>
config_bmc_default_ip4_gw_set == <<"parse", "ram", "apply", "write">>
config_bmc_use_dhcp4_set      == <<"same", "ram", "notify", "write">>
config_bmc_use_ntp_set        == <<"same", "ram", "notify", "write">>
config_bmc_ntp_server_set     == <<"ram", "write", "notify">>
config_bmc_password_set       == <<"parse", "ram", "write">>
config_host_auto_poweron_set  == <<"same", "ram", "write">>

Setter ==
    [hostname |-> config_bmc_hostname_set, ip4 |-> config_bmc_default_ip4_set,
     ip4_nm |-> config_bmc_default_ip4_nm_set, ip4_gw |-> config_bmc_default_ip4_gw_set,
     use_dhcp4 |-> config_bmc_use_dhcp4_set, use_ntp |-> config_bmc_use_ntp_set,
     ntp_server |-> config_bmc_ntp_server_set, password |-> config_bmc_password_set,
     auto_poweron |-> config_host_auto_poweron_set]

\* Shell commands wait for the boot to finish; the HTTP server starts after
\* config_init.  Two calls that run at the same time disturb each other if they set
\* the same thing, or two addresses, which share the static variable of ip4_stoa.
Call(c, k, v) ==
    LET rivals == {d \in Callers : call[d].key = k \/ {k, call[d].key} \subseteq IpKeys}
    IN  /\ phase = "up" /\ call[c] = NoCall /\ calls < MaxCalls
        /\ calls' = calls + 1
        /\ call' = [d \in Callers |->
                      IF d = c THEN [key |-> k, val |-> v, todo |-> Setter[k], tries |-> 0,
                                     disturbed |-> rivals # {}]
                      ELSE [call[d] EXCEPT !.disturbed = @ \/ d \in rivals]]
        /\ promised' = [promised EXCEPT ![k] = NoPromise]
        /\ UNCHANGED <<ramVars, nvsVars, bootVars, wiped, errors, readErrors>>

At(c, step) == phase = "up" /\ call[c] # NoCall /\ Head(call[c].todo) = step

\* The setter returned 0: the caller is told that the value is set.  This counts
\* unless the call was disturbed or the configuration cleared meanwhile: then nobody
\* can tell which value the setting has.
Succeed(c) ==
    /\ call' = [call EXCEPT ![c] = NoCall]
    /\ promised' = IF call[c].disturbed THEN promised
                   ELSE [promised EXCEPT ![call[c].key] = call[c].val]

Continue(c) ==
    IF Len(call[c].todo) = 1
    THEN Succeed(c)
    ELSE /\ call' = [call EXCEPT ![c].todo = Tail(@), ![c].tries = 0]
         /\ UNCHANGED promised

Refuse(c) == call' = [call EXCEPT ![c] = NoCall] /\ UNCHANGED promised

\* The length check of the password, or inet_pton of ip4_stoa, whose result is in
\* a static variable until it is copied.  A NULL address is not parsed.
Parse(c) ==
    /\ At(c, "parse")
    /\ IF call[c].val = Invalid THEN Refuse(c) ELSE Continue(c)
    /\ addr' = IF call[c].key \in IpKeys /\ call[c].val \notin {Invalid, "0"}
               THEN call[c].val ELSE addr
    /\ UNCHANGED <<config_data, config_use_fs, fs_is_enabled, nvsVars, bootVars, wiped, countVars>>

\* A flag that already has the value is left alone: return 0.
SameValue(c) ==
    /\ At(c, "same")
    /\ UNCHANGED config_data
    /\ IF config_data[call[c].key] = call[c].val THEN Succeed(c) ELSE Continue(c)
    /\ UNCHANGED <<config_use_fs, fs_is_enabled, addr, nvsVars, bootVars, wiped, countVars>>

SetRam(c) ==
    /\ At(c, "ram")
    /\ config_data' = [config_data EXCEPT ![call[c].key] =
          IF call[c].key \in IpKeys /\ call[c].val # "0" THEN addr
          ELSE Field(call[c].key, call[c].val)]
    /\ Continue(c)
    /\ UNCHANGED <<config_use_fs, fs_is_enabled, addr, nvsVars, bootVars, wiped, countVars>>

\* net_do_set_hostname, net_do_set_default_ip4_from_config.
Apply(c) ==
    /\ At(c, "apply")
    /\ UNCHANGED config_data
    /\ \/ Continue(c) /\ UNCHANGED countVars
       \/ MayFail /\ Fail /\ Refuse(c)
    /\ UNCHANGED <<config_use_fs, fs_is_enabled, addr, nvsVars, bootVars, wiped>>

\* The DHCP client or the NTP work is started, stopped or restarted, which changes
\* nothing here and always succeeds.
Notify(c) ==
    /\ At(c, "notify")
    /\ UNCHANGED config_data
    /\ Continue(c)
    /\ UNCHANGED <<config_use_fs, fs_is_enabled, addr, nvsVars, bootVars, wiped, countVars>>

\* Mutations of Write: an error is not reported; the argument is saved, not what
\* is in RAM.
WriteUnchecked(c) ==
    /\ At(c, "write")
    /\ UNCHANGED config_data
    /\ Continue(c)
    /\ \/ /\ ConfigUsable
          /\ nvs' = [nvs EXCEPT ![call[c].key] = Stored(config_data[call[c].key])]
          /\ UNCHANGED countVars
       \/ MayFail /\ Fail /\ UNCHANGED nvs
    /\ UNCHANGED <<config_use_fs, fs_is_enabled, addr, nvs_version, mounted, bootVars, wiped>>
WriteArgument(c) ==
    /\ At(c, "write") /\ ConfigUsable
    /\ UNCHANGED config_data
    /\ nvs' = [nvs EXCEPT ![call[c].key] = Stored(call[c].val)]
    /\ Continue(c)
    /\ UNCHANGED <<config_use_fs, fs_is_enabled, addr, nvs_version, mounted, bootVars, wiped, countVars>>

\* config_write: what is in RAM now is saved.  EIO is retried.
Write(c) ==
    LET k == call[c].key IN
    /\ At(c, "write")
    /\ UNCHANGED config_data
    /\ \/ /\ ConfigUsable
          /\ nvs' = [nvs EXCEPT ![k] = Stored(config_data[k])]
          /\ Continue(c) /\ UNCHANGED countVars
       \/ /\ ~ConfigUsable
          /\ Refuse(c) /\ UNCHANGED <<nvs, countVars>>
       \/ /\ ConfigUsable /\ MayFail /\ Fail
          /\ \E e \in FlashErrors :
                IF e = "EIO" /\ call[c].tries < FLASH_WRITE_RETRY_COUNT
                THEN call' = [call EXCEPT ![c].tries = @ + 1] /\ UNCHANGED promised
                ELSE Refuse(c)
          /\ UNCHANGED nvs
    /\ UNCHANGED <<config_use_fs, fs_is_enabled, addr, nvs_version, mounted, bootVars, wiped>>

SetterStep(c) == Parse(c) \/ SameValue(c) \/ SetRam(c) \/ Apply(c) \/ Notify(c) \/ Write(c)

-----------------------------------------------------------------------------
(* config_clear by the shell or the button, the reboot that follows it,    *)
(* other reboots and loss of power.                                        *)

CallsCleared ==
    call' = [c \in Callers |-> [call[c] EXCEPT !.disturbed = (call[c] # NoCall)]]

config_clear ==
    /\ phase = "up" /\ FlashUsable
    /\ nvs_clear
    /\ promised' = [k \in KeySet |-> NoPromise]
    /\ wiped' = TRUE
    /\ CallsCleared
    /\ UNCHANGED <<ramVars, bootVars, countVars>>

\* The caller sees an error and there is no reboot.
ConfigClearError ==
    /\ phase = "up" /\ FlashUsable /\ "EIO" \in FlashErrors
    /\ ClearFails
    /\ CallsCleared
    /\ UNCHANGED <<ramVars, bootVars>>

\* bmc_reboot unmounts first, and the other threads still run for a moment.
fs_exit ==
    /\ phase = "up" /\ fs_is_enabled
    /\ umount_fs
    /\ UNCHANGED <<config_data, config_use_fs, addr, nvsVars, bootVars, call, ghostVars, countVars>>

Restart ==
    /\ phase # "off"
    /\ phase' = "off" /\ loaded' = 0
    /\ config_use_fs' = FALSE /\ fs_is_enabled' = FALSE /\ mounted' = FALSE /\ addr' = "0"
    /\ config_data' = [k \in KeySet |-> Default(k)]
    /\ call' = [c \in Callers |-> NoCall]
    /\ UNCHANGED <<nvs, nvs_version, ghostVars, countVars>>

Next ==
    \/ fs_init \/ CheckVersion \/ CreateVersion \/ LoadField \/ BootFinished
    \/ \E c \in Callers :
          \/ \E k \in KeySet : \E v \in Arguments(k) : Call(c, k, v)
          \/ SetterStep(c)
    \/ config_clear \/ ConfigClearError \/ fs_exit \/ Restart

Spec == Init /\ [][Next]_vars

-----------------------------------------------------------------------------
(* Properties.                                                             *)

\* Settings hold values of their kind, in RAM and in flash, where no record is
\* empty; no call retries a write more often than FLASH_WRITE_RETRY_COUNT.
TypeOK ==
    /\ \A k \in KeySet :
          /\ config_data[k] \in Values(k)
          /\ nvs[k] \in (Values(k) \ {Empty}) \cup {Absent}
          /\ promised[k] \in Values(k) \cup {NoPromise}
    /\ {config_use_fs, fs_is_enabled, mounted, wiped} \subseteq BOOLEAN
    /\ addr \in Strings \cup {"0"}
    /\ nvs_version \in NvsVersions \cup {NoVersion, CFG_CURRENT_VERSION}
    /\ phase \in {"off", "version", "create", "load", "up"} /\ loaded \in 0..Len(Keys)
    /\ \A c \in Callers : call[c].tries \in 0..FLASH_WRITE_RETRY_COUNT
    /\ errors \in 0..MaxErrors /\ readErrors \in 0..MaxErrors /\ calls \in 0..MaxCalls

\* The settings that are written whenever they are set.  The setter of a flag
\* returns 0 without writing when RAM already has the value.
Written == KeySet \ FlagKeys

\* A setting whose setter returned 0 is in flash, as far as it fits its field, if
\* nobody set the same one, or a second address, at the same time: whatever failed
\* or was set before and whoever else was setting something else ("Persistent
\* Configuration: Settings stored across reboots", README.md:18; config.c:191-606).
Durable == \A k \in Written : promised[k] # NoPromise => nvs[k] = Field(k, promised[k])

\* RAM and flash agree on every setting nobody is changing, flags included,
\* however the callers interleaved, unless an operation on the flash or the network
\* failed: an address the network refuses stays in RAM (config.c:272-285).
RamMatchesFlash ==
    phase = "up" /\ ConfigUsable /\ errors + readErrors = 0 =>
        \A k \in KeySet :
            (\A c \in Callers : call[c].key # k) => nvs[k] = Stored(config_data[k])

\* A value a setter promised, as far as it fits its field, is what the BMC uses
\* after any number of restarts, as long as the flash can be used (config_init).
Reloaded ==
    phase = "up" /\ config_use_fs =>
        \A k \in Written : promised[k] # NoPromise => config_data[k] = Field(k, promised[k])

\* Once config_clear succeeded no caller can bring an old value back before the
\* next boot ends: that boot finds nothing but defaults (button.c:27-44,
\* config.c:715-751).
ClearedStaysCleared ==
    wiped => \A k \in KeySet : nvs[k] \in {Absent, Default(k)}

\* A setter that ends at its write while the flash can be used has saved what is
\* in RAM: up to three EIO errors are hidden by retries ("Try to work around it
\* by retrying write EIO fails", fs.c:20).
RetryHides ==
    [][\A c \in Callers :
          At(c, "write") /\ ConfigUsable /\ call'[c] = NoCall /\ phase' = "up"
          /\ errors' <= 3
             => nvs'[call[c].key] = Stored(config_data[call[c].key])]_vars

-----------------------------------------------------------------------------
(* What the code does not give; README.md says how each one fails.         *)

\* What was set is in flash as it was given (config.c:199, 536).
DurableExact == \A k \in Written : promised[k] # NoPromise => nvs[k] = promised[k]

\* The address a setter puts in RAM is the one it was asked to set (config.c:252-265).
AddressAsAsked ==
    [][\A c \in Callers :
          /\ At(c, "ram") /\ call[c].key \in IpKeys /\ call'[c].key = call[c].key
          /\ Head(call'[c].todo) = "apply"
             => config_data'[call[c].key] = call[c].val]_vars

\* Durable for the flags too, while the flash works and is not being cleared.
DurableWhileUsable ==
    phase = "up" /\ ConfigUsable =>
        \A k \in KeySet : promised[k] # NoPromise => nvs[k] = Field(k, promised[k])

\* A boot on a healthy flash ends with a configuration that can be saved to,
\* also after a change of version ("creating new config", config.c:771; "allows
\* a flag-day upgrade", config.c:30).
UpgradePersists ==
    phase = "up" /\ fs_is_enabled /\ errors = 0 => config_use_fs

=============================================================================
