---------------------------- MODULE ConfigProofs ----------------------------
(***************************************************************************)
(* Proofs about the persistent configuration, for every set of settings,   *)
(* values and callers and any number of calls, errors and restarts.        *)
(*                                                                         *)
(* TypeInv says where a caller can be in its setter.  BootInv says what    *)
(* each phase of the boot has established about the flash.  On them rest   *)
(* SyncInv (whoever made RAM differ from flash still has its write to do), *)
(* PromiseInv (how far an undisturbed call has brought its value) and      *)
(* TryInv (every retry counts an error).                                   *)
(***************************************************************************)
EXTENDS Config, TLAPS

-----------------------------------------------------------------------------
(* Where a caller can be: what is left to do of its setter.                *)

\* RAM does not have the value yet.
BeforeRam ==
    {<<"apply", "ram", "write">>, <<"parse", "ram", "apply", "write">>,
     <<"parse", "ram", "write">>, <<"same", "ram", "notify", "write">>,
     <<"same", "ram", "write">>, <<"ram", "write", "notify">>,
     <<"ram", "apply", "write">>, <<"ram", "notify", "write">>, <<"ram", "write">>}

\* RAM has it, the flash may not.
BeforeWrite == {<<"apply", "write">>, <<"notify", "write">>, <<"write", "notify">>, <<"write">>}

AfterWrite == {<<"notify">>}

Todos == BeforeRam \cup BeforeWrite \cup AfterWrite

\* The places of an address setter.
AddressTodos ==
    {<<"parse", "ram", "apply", "write">>, <<"ram", "apply", "write">>,
     <<"apply", "write">>, <<"write">>}

Args == Strings \cup {"0", "1", Invalid, Empty}

CallType ==
    [key : KeySet \cup {""}, val : Args \cup {""}, todo : Todos \cup {<<>>},
     tries : 0..FLASH_WRITE_RETRY_COUNT, disturbed : BOOLEAN]

\* An invalid value does not get past the parser; only flags are compared.
Placed(r) ==
    /\ r.key \in KeySet /\ r.val \in Arguments(r.key) /\ r.todo \in Todos
    /\ r.key \in IpKeys => r.todo \in AddressTodos
    /\ r.val = Invalid => Head(r.todo) = "parse"
    /\ Head(r.todo) = "same" => r.key \in FlagKeys

CallsOK ==
    /\ call \in [Callers -> CallType]
    /\ \A c \in Callers : call[c] = NoCall \/ Placed(call[c])

DataOK ==
    /\ DOMAIN config_data = KeySet /\ DOMAIN nvs = KeySet /\ DOMAIN promised = KeySet
    /\ \A k \in KeySet :
          /\ config_data[k] \in Values(k)
          /\ nvs[k] \in (Values(k) \ {Empty}) \cup {Absent}
          /\ promised[k] \in Values(k) \cup {NoPromise}
    /\ addr \in Strings \cup {"0"}

FlagsOK ==
    /\ config_use_fs \in BOOLEAN /\ fs_is_enabled \in BOOLEAN
    /\ mounted \in BOOLEAN /\ wiped \in BOOLEAN

StateOK ==
    /\ nvs_version \in NvsVersions \cup {NoVersion, CFG_CURRENT_VERSION}
    /\ phase \in {"off", "version", "create", "load", "up"} /\ loaded \in 0..Len(Keys)
    /\ errors \in Nat /\ readErrors \in Nat /\ calls \in Nat
    /\ errors <= MaxErrors /\ readErrors <= MaxErrors /\ calls <= MaxCalls

TypeInv == CallsOK /\ DataOK /\ FlagsOK /\ StateOK

-----------------------------------------------------------------------------
(* The boot.                                                               *)

BootInv ==
    /\ phase \in {"off", "version", "create"} => loaded = 0
    /\ phase = "up" => loaded = Len(Keys)
    /\ phase = "off" => ~fs_is_enabled
    /\ phase \in {"off", "version"} => ~config_use_fs
    /\ phase = "version" /\ fs_is_enabled => mounted
    /\ phase = "load" /\ config_use_fs => FlashUsable
    /\ phase # "up" => \A c \in Callers : call[c] = NoCall

\* After config_clear nothing is written until the next boot, which writes only
\* defaults.
WipedInv ==
    /\ ClearedStaysCleared
    /\ wiped /\ phase = "up" => ~mounted

-----------------------------------------------------------------------------
\* Somebody has changed setting k in RAM and not yet written it.
Owed(k) == \E c \in Callers : call[c].key = k /\ call[c].todo \in BeforeWrite

\* The settings config_init has been through.
Loaded == {Keys[i] : i \in 1..loaded}

SyncInv ==
    phase \in {"load", "up"} /\ ConfigUsable /\ errors + readErrors = 0 =>
        \A k \in Loaded : nvs[k] = Stored(config_data[k]) \/ Owed(k)

\* How far a call has brought its value.
Brought(c) ==
    LET k == call[c].key
    IN  /\ k \in IpKeys /\ Head(call[c].todo) = "ram" /\ call[c].val # "0" => addr = call[c].val
        /\ call[c].todo \in BeforeWrite \cup AfterWrite => config_data[k] = Field(k, call[c].val)
        /\ call[c].todo \in AfterWrite => nvs[k] = Stored(Field(k, call[c].val))

\* Calls that set k and l disturb each other.
Rivals(k, l) == k = l \/ (k \in IpKeys /\ l \in IpKeys)

\* Nobody else sets the setting that c sets, nor an address if it is one.
Alone(c) == \A d \in Callers \ {c} : ~Rivals(call[d].key, call[c].key)

\* A promised value is in flash and, once loaded, in RAM, and nobody is changing it.
PromiseOf(k) ==
    /\ \A c \in Callers : call[c].key # k
    /\ nvs[k] = Field(k, promised[k])
    /\ phase \in {"load", "up"} /\ config_use_fs /\ k \in Loaded =>
          config_data[k] = Field(k, promised[k])

\* For the settings of K.
PromiseInv(K) ==
    /\ \A c \in Callers : call[c].key \in K /\ ~call[c].disturbed => Alone(c) /\ Brought(c)
    /\ \A k \in K : promised[k] \notin {NoPromise, Empty} => PromiseOf(k)

TryInv == \A c \in Callers : call[c].tries <= errors

-----------------------------------------------------------------------------
(* The settings and their setters.                                         *)

\* config_init loads every setting, and "" is the name of none.
LEMMA KeyFacts ==
    /\ KeySet \subseteq FlagKeys \cup IpKeys \cup StrKeys
    /\ "" \notin KeySet
    /\ Len(Keys) \in Nat
    /\ \A i \in 1..Len(Keys) : Keys[i] \in KeySet
    /\ \A k \in KeySet : \E i \in 1..Len(Keys) : k = Keys[i]
  <1>1. DOMAIN Keys = 1..Len(Keys) /\ Len(Keys) \in Nat
    BY ConfigAssumption DEF ConfigAssumption
  <1>2. \A i \in 1..Len(Keys) : Keys[i] \in FlagKeys \cup IpKeys \cup StrKeys
    BY ConfigAssumption DEF ConfigAssumption
  <1>3. KeySet = {Keys[i] : i \in 1..Len(Keys)}
    BY <1>1 DEF KeySet, ToSet
  <1> QED
    BY <1>1, <1>2, <1>3 DEF FlagKeys, IpKeys, StrKeys

\* What each step of a setter leaves to do: RAM is changed before the flash, and
\* after the write only ntp_server_set has a step left.
LEMMA TodoFacts ==
    /\ \A t \in BeforeRam :
          /\ Len(t) # 1
          /\ Head(t) \in {"apply", "parse", "same", "ram"}
          /\ Head(t) = "ram" => Tail(t) \in BeforeWrite
          /\ Head(t) # "ram" => Tail(t) \in BeforeRam /\ Head(Tail(t)) = "ram"
    /\ \A t \in BeforeWrite :
          /\ Head(t) \in {"apply", "notify", "write"}
          /\ Len(t) = 1 => Head(t) = "write"
          /\ Len(t) # 1 /\ Head(t) = "write" => Tail(t) \in AfterWrite
          /\ Head(t) # "write" => Tail(t) \in BeforeWrite /\ Head(Tail(t)) = "write"
    /\ \A t \in AfterWrite : Len(t) = 1 /\ Head(t) = "notify"
  BY DEF BeforeRam, BeforeWrite, AfterWrite

\* The steps of an address setter.
LEMMA AddressTodoFacts ==
    \A t \in AddressTodos :
        /\ Len(t) # 1 => Tail(t) \in AddressTodos
        /\ Head(t) \in {"parse", "ram", "apply", "write"}
        /\ Len(t) # 1 /\ Head(Tail(t)) = "ram" => Head(t) = "parse"
  <1>1. <<"parse", "ram", "apply", "write">> \in AddressTodos
        /\ Tail(<<"parse", "ram", "apply", "write">>) = <<"ram", "apply", "write">>
        /\ Head(<<"parse", "ram", "apply", "write">>) = "parse"
    BY DEF AddressTodos
  <1>2. <<"ram", "apply", "write">> \in AddressTodos
        /\ Tail(<<"ram", "apply", "write">>) = <<"apply", "write">>
        /\ Head(<<"ram", "apply", "write">>) = "ram"
    BY DEF AddressTodos
  <1>3. <<"apply", "write">> \in AddressTodos
        /\ Tail(<<"apply", "write">>) = <<"write">>
        /\ Head(<<"apply", "write">>) = "apply"
    BY DEF AddressTodos
  <1>4. <<"write">> \in AddressTodos /\ Len(<<"write">>) = 1 /\ Head(<<"write">>) = "write"
    BY DEF AddressTodos
  <1> QED
    BY <1>1, <1>2, <1>3, <1>4 DEF AddressTodos

\* The places are apart.
LEMMA TodosApart ==
    \A t : /\ ~(t \in BeforeRam /\ t \in BeforeWrite)
           /\ ~(t \in BeforeRam /\ t \in AfterWrite)
           /\ ~(t \in BeforeWrite /\ t \in AfterWrite)
  <1>1. \A t \in BeforeRam : t[1] = "ram" \/ t[2] = "ram"
    BY DEF BeforeRam
  <1>2. \A t \in BeforeWrite : t[1] # "ram" /\ (Len(t) = 1 \/ t[2] # "ram")
    BY DEF BeforeWrite
  <1>3. \A t \in AfterWrite : Len(t) = 1 /\ t[1] = "notify"
    BY DEF AfterWrite
  <1>4. \A t \in BeforeWrite : t[1] = "notify" => Len(t) = 2
    BY DEF BeforeWrite
  <1> QED
    BY <1>1, <1>2, <1>3, <1>4, TodoFacts

\* Where each setter begins.
LEMMA SetterFacts ==
    \A k \in KeySet :
        /\ Setter[k] \in BeforeRam
        /\ k \in IpKeys => Setter[k] \in AddressTodos /\ Head(Setter[k]) = "parse"
        /\ Invalid \in Arguments(k) => Head(Setter[k]) = "parse"
        /\ Head(Setter[k]) = "same" => k \in FlagKeys
  <1>1. Setter.hostname = <<"apply", "ram", "write">>
        /\ Setter.password = <<"parse", "ram", "write">>
        /\ Setter.ntp_server = <<"ram", "write", "notify">>
        /\ Setter.auto_poweron = <<"same", "ram", "write">>
    BY DEF Setter, config_bmc_hostname_set, config_bmc_password_set, config_bmc_ntp_server_set,
           config_host_auto_poweron_set
  <1>2. \A k \in {"use_dhcp4", "use_ntp"} : Setter[k] = <<"same", "ram", "notify", "write">>
    BY DEF Setter, config_bmc_use_dhcp4_set, config_bmc_use_ntp_set
  <1>3. \A k \in IpKeys : Setter[k] = <<"parse", "ram", "apply", "write">>
    BY DEF Setter, IpKeys, config_bmc_default_ip4_set, config_bmc_default_ip4_nm_set,
           config_bmc_default_ip4_gw_set
  <1>4. \A k \in KeySet : Invalid \in Arguments(k) => k \in IpKeys \cup {"password"}
    BY ConfigAssumption, KeyFacts, Zenon
       DEF ConfigAssumption, Arguments, FlagKeys, IpKeys, StrKeys, Absent, NoPromise, Empty, Invalid
  <1>5. \A k \in KeySet :
           \/ k \in IpKeys \cup {"use_dhcp4", "use_ntp"}
           \/ k \in {"hostname", "password", "ntp_server", "auto_poweron"}
    BY KeyFacts DEF FlagKeys, IpKeys, StrKeys
  <1> SUFFICES ASSUME NEW k \in KeySet
               PROVE  /\ Setter[k] \in BeforeRam
                      /\ k \in IpKeys => Setter[k] \in AddressTodos /\ Head(Setter[k]) = "parse"
                      /\ Invalid \in Arguments(k) => Head(Setter[k]) = "parse"
                      /\ Head(Setter[k]) = "same" => k \in FlagKeys
    OBVIOUS
  <1>6. CASE k \in IpKeys
    BY <1>6, <1>3 DEF BeforeRam, AddressTodos
  <1>7. CASE k \in {"use_dhcp4", "use_ntp"}
    BY <1>7, <1>2, <1>4 DEF BeforeRam, IpKeys, FlagKeys
  <1>8. CASE k \in {"hostname", "password", "ntp_server", "auto_poweron"}
    BY <1>8, <1>1, <1>4 DEF BeforeRam, IpKeys, FlagKeys
  <1> QED
    BY <1>5, <1>6, <1>7, <1>8

\* Values and arguments.
LEMMA ValueFacts ==
    \A k \in KeySet :
        /\ Default(k) \in Values(k) /\ Default(k) # Empty
        /\ Absent \notin Values(k) /\ NoPromise \notin Values(k)
        /\ Arguments(k) \subseteq Args
        /\ \A v \in Arguments(k) : v # Invalid => v \in Values(k)
        /\ k \in IpKeys => Strings \cup {"0"} \subseteq Values(k)
  BY ConfigAssumption, KeyFacts
     DEF ConfigAssumption, Default, Values, Arguments, Args, FlagKeys, IpKeys, StrKeys, Absent,
         NoPromise, Empty, Invalid

\* A value that is cut is still one, and not empty; an address is not cut.
LEMMA FieldFacts ==
    ASSUME NEW k \in KeySet, NEW v \in Values(k)
    PROVE  /\ Field(k, v) \in Values(k)
           /\ v # Empty => Field(k, v) # Empty
           /\ k \in IpKeys => Field(k, v) = v
  <1>1. CASE k \in CutKeys /\ v \in Strings
    <2>1. Cut[k][v] \in Strings
      BY <1>1, ConfigAssumption DEF ConfigAssumption
    <2>2. Strings \subseteq Values(k) /\ k \notin IpKeys
      BY <1>1 DEF CutKeys, Values, FlagKeys, IpKeys
    <2>3. Empty \notin Strings
      BY ConfigAssumption DEF ConfigAssumption
    <2> QED
      BY <1>1, <2>1, <2>2, <2>3 DEF Field
  <1>2. CASE ~(k \in CutKeys /\ v \in Strings)
    BY <1>2 DEF Field
  <1> QED
    BY <1>1, <1>2

-----------------------------------------------------------------------------
(* What a step does to the calls.                                          *)

\* Nobody is at NoCall in the middle of a setter.
LEMMA NoCallFacts ==
    /\ NoCall.key = "" /\ NoCall.val = "" /\ NoCall.todo = <<>>
    /\ NoCall.tries = 0 /\ ~NoCall.disturbed
    /\ NoCall \in CallType
    /\ \A r : r.key \in KeySet => r # NoCall
  <1>1. /\ NoCall.key = "" /\ NoCall.val = "" /\ NoCall.todo = <<>>
        /\ NoCall.tries = 0 /\ ~NoCall.disturbed
    BY DEF NoCall
  <1>2. NoCall \in CallType
    BY DEF NoCall, CallType, Args, Empty, FLASH_WRITE_RETRY_COUNT
  <1> QED
    BY <1>1, <1>2, KeyFacts

\* A caller is inside a setter exactly when it has a key.
LEMMA BusyFacts ==
    ASSUME CallsOK, NEW c \in Callers
    PROVE  /\ call[c] \in CallType
           /\ call[c] # NoCall => Placed(call[c])
           /\ call[c].key # "" => Placed(call[c])
           /\ call[c].key \in KeySet <=> call[c] # NoCall
  BY NoCallFacts, KeyFacts DEF CallsOK, Placed

\* The record of a call after one more step of its setter.
Advanced(r) == [r EXCEPT !.todo = Tail(r.todo), !.tries = 0]

\* A call that goes on to the next part of its setter stays a call of that setter.
LEMMA AdvancedFacts ==
    ASSUME NEW r \in CallType, Tail(r.todo) \in Todos
    PROVE  /\ Advanced(r) \in CallType
           /\ Advanced(r).key = r.key /\ Advanced(r).val = r.val
           /\ Advanced(r).todo = Tail(r.todo) /\ Advanced(r).tries = 0
           /\ Advanced(r).disturbed = r.disturbed
  <1>1. ASSUME NEW t \in Todos \cup {<<>>}, NEW n \in 0..FLASH_WRITE_RETRY_COUNT
        PROVE  [r EXCEPT !.todo = t, !.tries = n] \in CallType
    BY Zenon DEF CallType
  <1>2. 0 \in 0..FLASH_WRITE_RETRY_COUNT
    BY DEF FLASH_WRITE_RETRY_COUNT
  <1>3. Advanced(r) \in CallType
    BY <1>1, <1>2 DEF Advanced
  <1>4. /\ Advanced(r).key = r.key /\ Advanced(r).val = r.val
        /\ Advanced(r).todo = Tail(r.todo) /\ Advanced(r).tries = 0
    BY DEF CallType, Advanced
  <1>5. Advanced(r).disturbed = r.disturbed
    BY DEF CallType, Advanced
  <1> QED
    BY <1>3, <1>4, <1>5

\* Continue is about one caller; the last step of a setter is a promise.
LEMMA ContinueFacts ==
    ASSUME CallsOK, NEW c \in Callers, call[c] # NoCall, Continue(c)
    PROVE  /\ call' = [call EXCEPT ![c] = IF Len(call[c].todo) = 1 THEN NoCall
                                          ELSE Advanced(call[c])]
           /\ Len(call[c].todo) # 1 => UNCHANGED promised
           /\ Len(call[c].todo) = 1 => Succeed(c)
  <1>1. CASE Len(call[c].todo) = 1
    BY <1>1 DEF Continue, Succeed
  <1>2. CASE Len(call[c].todo) # 1
    <2>1. call[c] \in CallType
      BY BusyFacts
    <2>2. [[call[c] EXCEPT !.todo = Tail(@)] EXCEPT !.tries = 0] = Advanced(call[c])
      BY DEF Advanced
    <2>3. call' = [call EXCEPT ![c].todo = Tail(@), ![c].tries = 0]
      BY <1>2 DEF Continue
    <2> QED
      BY <1>2, <2>2, <2>3 DEF Continue, CallsOK
  <1> QED
    BY <1>1, <1>2

\* A step of a setter leaves its caller at a place of that setter.
LEMMA AdvancedPlaced ==
    ASSUME CallsOK, NEW c \in Callers, call[c] # NoCall, Len(call[c].todo) # 1,
           Head(call[c].todo) = "parse" => call[c].val # Invalid
    PROVE  Advanced(call[c]) \in CallType /\ Placed(Advanced(call[c]))
  <1> DEFINE r == call[c]
  <1>1. r \in CallType /\ Placed(r)
    BY BusyFacts
  <1>2. Tail(r.todo) \in Todos
    BY <1>1, TodoFacts DEF Placed, Todos
  <1>3. r.key \in IpKeys => Tail(r.todo) \in AddressTodos
    BY <1>1, AddressTodoFacts DEF Placed
  <1>4. Head(Tail(r.todo)) # "same"
    BY <1>1, TodoFacts DEF Placed, Todos
  <1>5. r.val # Invalid
    BY <1>1 DEF Placed
  <1> QED
    BY <1>1, <1>2, <1>3, <1>4, <1>5, AdvancedFacts DEF Placed

\* One caller's record changes to one of its setter.
LEMMA CallsOKStep ==
    ASSUME CallsOK, NEW c \in Callers, NEW r, call' = [call EXCEPT ![c] = r],
           r = NoCall \/ (r \in CallType /\ Placed(r))
    PROVE  CallsOK'
  BY NoCallFacts DEF CallsOK, Placed

\* A part of a setter that succeeds leaves every caller at a place of its setter.
LEMMA ContinueCallsOK ==
    ASSUME CallsOK, NEW c \in Callers, call[c] # NoCall, Continue(c),
           Head(call[c].todo) = "parse" => call[c].val # Invalid
    PROVE  CallsOK'
  BY ContinueFacts, AdvancedPlaced, CallsOKStep

\* A call that another one, or a clear, gets in the way of.
LEMMA MarkedFacts ==
    ASSUME NEW r \in CallType, NEW b \in BOOLEAN
    PROVE  /\ [r EXCEPT !.disturbed = b] \in CallType
           /\ [r EXCEPT !.disturbed = b].key = r.key /\ [r EXCEPT !.disturbed = b].val = r.val
           /\ [r EXCEPT !.disturbed = b].todo = r.todo
           /\ [r EXCEPT !.disturbed = b].tries = r.tries
           /\ [r EXCEPT !.disturbed = b].disturbed = b
           /\ Placed(r) => Placed([r EXCEPT !.disturbed = b])
  <1>1. [r EXCEPT !.disturbed = b] \in CallType
    BY Zenon DEF CallType
  <1>2. /\ [r EXCEPT !.disturbed = b].key = r.key /\ [r EXCEPT !.disturbed = b].val = r.val
        /\ [r EXCEPT !.disturbed = b].todo = r.todo
        /\ [r EXCEPT !.disturbed = b].tries = r.tries
    BY DEF CallType
  <1>3. [r EXCEPT !.disturbed = b].disturbed = b
    BY DEF CallType
  <1>4. Placed(r) => Placed([r EXCEPT !.disturbed = b])
    BY <1>2 DEF Placed
  <1> QED
    BY <1>1, <1>2, <1>3, <1>4

\* Marking a thread that is in no setter as undisturbed changes nothing.
LEMMA NoCallMarked == [NoCall EXCEPT !.disturbed = FALSE] = NoCall
  <1> DEFINE Fields == {"key", "val", "todo", "tries", "disturbed"}
  <1>1. NoCall.disturbed = FALSE
    BY Zenon DEF NoCall
  <1>2. NoCall = [x \in Fields |-> NoCall[x]]
    BY Zenon DEF NoCall
  <1>3. ASSUME NEW S, NEW f, f = [x \in S |-> f[x]], NEW y \in S
        PROVE  [f EXCEPT ![y] = f[y]] = f
    BY <1>3
  <1> QED
    BY <1>1, <1>2, <1>3

\* The record of a new call.
Fresh(k, v, b) == [key |-> k, val |-> v, todo |-> Setter[k], tries |-> 0, disturbed |-> b]

\* A call starts at the beginning of its setter with the value it was given.
LEMMA FreshFacts ==
    ASSUME NEW k \in KeySet, NEW v \in Arguments(k), NEW b \in BOOLEAN
    PROVE  /\ Fresh(k, v, b) \in CallType /\ Placed(Fresh(k, v, b))
           /\ Fresh(k, v, b).key = k /\ Fresh(k, v, b).val = v
           /\ Fresh(k, v, b).todo = Setter[k] /\ Fresh(k, v, b).tries = 0
           /\ Fresh(k, v, b).disturbed = b
  <1>1. k \in KeySet \cup {""} /\ v \in Args \cup {""} /\ Setter[k] \in Todos \cup {<<>>}
    BY SetterFacts, ValueFacts DEF Todos
  <1>2. 0 \in 0..FLASH_WRITE_RETRY_COUNT
    BY DEF FLASH_WRITE_RETRY_COUNT
  <1>3. Fresh(k, v, b) \in CallType
    BY <1>1, <1>2, Zenon DEF CallType, Fresh
  <1>4. /\ Fresh(k, v, b).key = k /\ Fresh(k, v, b).val = v
        /\ Fresh(k, v, b).todo = Setter[k] /\ Fresh(k, v, b).tries = 0
    BY DEF Fresh
  <1>5. Fresh(k, v, b).disturbed = b
    BY Zenon DEF Fresh
  <1>6. Placed(Fresh(k, v, b))
    BY <1>4, SetterFacts DEF Placed, Todos
  <1> QED
    BY <1>3, <1>4, <1>5, <1>6

\* A new call disturbs, and is disturbed by, the calls for the same setting or for
\* another address, and leaves the others alone.
LEMMA CallFacts ==
    ASSUME CallsOK, NEW c \in Callers, NEW k \in KeySet, NEW v \in Arguments(k), Call(c, k, v)
    PROVE  /\ CallsOK'
           /\ \E b \in BOOLEAN : /\ call'[c] = Fresh(k, v, b)
                                 /\ ~b => \A d \in Callers : ~Rivals(call[d].key, k)
           /\ \A d \in Callers \ {c} :
                 /\ call'[d].key = call[d].key /\ call'[d].val = call[d].val
                 /\ call'[d].todo = call[d].todo /\ call'[d].tries = call[d].tries
                 /\ ~call'[d].disturbed => ~call[d].disturbed
                 /\ Rivals(call[d].key, k) => call'[d].disturbed
                 /\ call[d] = NoCall => call'[d] = NoCall
  <1> DEFINE rivals == {d \in Callers : call[d].key = k \/ {k, call[d].key} \subseteq IpKeys}
             b == rivals # {}
  <1>1. b \in BOOLEAN
    OBVIOUS
  <1>2. call'[c] = Fresh(k, v, b)
    BY DEF Call, Fresh
  <1>3. ~b => \A d \in Callers : ~Rivals(call[d].key, k)
    BY DEF Rivals
  <1>4. ASSUME NEW d \in Callers, d # c
        PROVE  /\ call'[d] \in CallType /\ (call'[d] = NoCall \/ Placed(call'[d]))
               /\ call'[d].key = call[d].key /\ call'[d].val = call[d].val
               /\ call'[d].todo = call[d].todo /\ call'[d].tries = call[d].tries
               /\ ~call'[d].disturbed => ~call[d].disturbed
               /\ Rivals(call[d].key, k) => call'[d].disturbed
               /\ call[d] = NoCall => call'[d] = NoCall
    <2> DEFINE m == call[d].disturbed \/ d \in rivals
    <2>1. call[d] \in CallType /\ (call[d] # NoCall => Placed(call[d]))
      BY BusyFacts
    <2>2. call'[d] = [call[d] EXCEPT !.disturbed = m]
      BY <1>4 DEF Call
    <2>3. m \in BOOLEAN
      OBVIOUS
    <2>4. call[d] = NoCall => m = FALSE
      BY NoCallFacts, KeyFacts DEF IpKeys
    <2>5. call[d] = NoCall => call'[d] = NoCall
      BY <2>2, <2>4, NoCallMarked
    <2>6. Rivals(call[d].key, k) => m
      BY DEF Rivals
    <2>7. ~m => ~call[d].disturbed
      OBVIOUS
    <2> HIDE DEF m
    <2>8. /\ call'[d] \in CallType
          /\ call'[d].key = call[d].key /\ call'[d].val = call[d].val
          /\ call'[d].todo = call[d].todo /\ call'[d].tries = call[d].tries
          /\ Placed(call[d]) => Placed(call'[d])
      BY <2>1, <2>2, <2>3, MarkedFacts
    <2>9. call'[d].disturbed = m
      BY <2>1, <2>2, <2>3, MarkedFacts
    <2> QED
      BY <2>1, <2>5, <2>6, <2>7, <2>8, <2>9
  <1>5. call'[c] \in CallType /\ Placed(call'[c])
    <2> HIDE DEF b
    <2> QED
      BY <1>1, <1>2, FreshFacts
  <1>6. CallsOK'
    <2>1. \A d \in Callers : call'[d] \in CallType /\ (call'[d] = NoCall \/ Placed(call'[d]))
      BY <1>4, <1>5
    <2>2. call' = [d \in Callers |-> call'[d]]
      BY DEF Call
    <2>3. call' \in [Callers -> CallType]
      BY <2>1, <2>2
    <2> QED
      BY <2>1, <2>3 DEF CallsOK, Placed, NoCall, CallType
  <1> QED
    BY <1>1, <1>2, <1>3, <1>4, <1>6

\* Clearing the configuration disturbs every call.
LEMMA ClearedFacts ==
    ASSUME CallsOK, CallsCleared
    PROVE  /\ CallsOK'
           /\ \A d \in Callers :
                 /\ call'[d].key = call[d].key /\ call'[d].val = call[d].val
                 /\ call'[d].todo = call[d].todo /\ call'[d].tries = call[d].tries
                 /\ call[d].key \in KeySet => call'[d].disturbed
                 /\ call[d] = NoCall => call'[d] = NoCall
  <1>1. ASSUME NEW d \in Callers
        PROVE  /\ call'[d] \in CallType /\ (call'[d] = NoCall \/ Placed(call'[d]))
               /\ call'[d].key = call[d].key /\ call'[d].val = call[d].val
               /\ call'[d].todo = call[d].todo /\ call'[d].tries = call[d].tries
               /\ call[d].key \in KeySet => call'[d].disturbed
               /\ call[d] = NoCall => call'[d] = NoCall
    <2> DEFINE m == call[d] # NoCall
    <2>1. call[d] \in CallType /\ (call[d] # NoCall => Placed(call[d]))
      BY BusyFacts
    <2>2. call'[d] = [call[d] EXCEPT !.disturbed = m]
      BY DEF CallsCleared
    <2>3. m \in BOOLEAN /\ (call[d].key \in KeySet => m)
      BY BusyFacts
    <2>4. call[d] = NoCall => m = FALSE
      OBVIOUS
    <2>5. call[d] = NoCall => call'[d] = NoCall
      BY <2>2, <2>4, NoCallMarked
    <2> HIDE DEF m
    <2>8. /\ call'[d] \in CallType
          /\ call'[d].key = call[d].key /\ call'[d].val = call[d].val
          /\ call'[d].todo = call[d].todo /\ call'[d].tries = call[d].tries
          /\ Placed(call[d]) => Placed(call'[d])
      BY <2>1, <2>2, <2>3, MarkedFacts
    <2>9. call'[d].disturbed = m
      BY <2>1, <2>2, <2>3, MarkedFacts
    <2> QED
      BY <2>1, <2>3, <2>5, <2>8, <2>9
  <1>2. call' = [d \in Callers |-> call'[d]]
    BY DEF CallsCleared
  <1>3. call' \in [Callers -> CallType]
    BY <1>1, <1>2
  <1> QED
    BY <1>1, <1>3 DEF CallsOK, Placed, NoCall, CallType

\* The record of a call whose write failed and is tried again.
Retried(r) == [r EXCEPT !.tries = r.tries + 1]

\* A write that failed with EIO is tried again, with one try more (fs.c:147-151).
LEMMA RetriedFacts ==
    ASSUME NEW r \in CallType, Placed(r), r.tries < FLASH_WRITE_RETRY_COUNT
    PROVE  /\ Retried(r) \in CallType /\ Placed(Retried(r))
           /\ Retried(r).key = r.key /\ Retried(r).val = r.val /\ Retried(r).todo = r.todo
           /\ Retried(r).tries = r.tries + 1 /\ Retried(r).disturbed = r.disturbed
  <1>1. r.tries \in 0..FLASH_WRITE_RETRY_COUNT
    BY DEF CallType
  <1>2. r.tries + 1 \in 0..FLASH_WRITE_RETRY_COUNT
    BY <1>1 DEF FLASH_WRITE_RETRY_COUNT
  <1>3. ASSUME NEW n \in 0..FLASH_WRITE_RETRY_COUNT
        PROVE  [r EXCEPT !.tries = n] \in CallType
    BY Zenon DEF CallType
  <1>4. Retried(r) \in CallType
    BY <1>2, <1>3 DEF Retried
  <1>5. /\ Retried(r).key = r.key /\ Retried(r).val = r.val /\ Retried(r).todo = r.todo
        /\ Retried(r).tries = r.tries + 1
    BY DEF CallType, Retried
  <1>6. Retried(r).disturbed = r.disturbed
    BY DEF CallType, Retried
  <1> QED
    BY <1>4, <1>5, <1>6 DEF Placed

\* A step of a setter ends the call, advances it or tries its write again.
LEMMA SetterCalls ==
    ASSUME CallsOK, NEW c \in Callers, SetterStep(c)
    PROVE  /\ CallsOK'
           /\ phase = "up" /\ call[c] # NoCall /\ Placed(call[c]) /\ call[c] \in CallType
           /\ \A d \in Callers \ {c} : call'[d] = call[d]
           /\ \/ call'[c] = NoCall
              \/ /\ call'[c] = Advanced(call[c]) /\ Tail(call[c].todo) \in Todos
                 /\ Len(call[c].todo) # 1
              \/ /\ call'[c] = Retried(call[c]) /\ call[c].tries < FLASH_WRITE_RETRY_COUNT
                 /\ Head(call[c].todo) = "write" /\ errors' = errors + 1
                 /\ UNCHANGED <<config_data, nvs, promised>>
  <1>1. /\ phase = "up" /\ call[c] # NoCall
        /\ \/ Continue(c) /\ (Head(call[c].todo) = "parse" => call[c].val # Invalid)
           \/ Refuse(c) \/ Succeed(c)
           \/ /\ call' = [call EXCEPT ![c].tries = @ + 1]
              /\ call[c].tries < FLASH_WRITE_RETRY_COUNT /\ errors' = errors + 1
              /\ Head(call[c].todo) = "write" /\ UNCHANGED <<config_data, nvs, promised>>
    <2>1. CASE Parse(c)
      BY <2>1 DEF Parse, At
    <2>2. CASE SameValue(c)
      BY <2>2 DEF SameValue, At
    <2>3. CASE SetRam(c)
      BY <2>3 DEF SetRam, At
    <2>4. CASE Apply(c)
      BY <2>4 DEF Apply, At
    <2>5. CASE Notify(c)
      BY <2>5 DEF Notify, At
    <2>6. CASE Write(c)
      BY <2>6 DEF Write, At, Fail
    <2> QED
      BY <2>1, <2>2, <2>3, <2>4, <2>5, <2>6 DEF SetterStep
  <1>2. Placed(call[c]) /\ call[c] \in CallType
    BY <1>1, BusyFacts
  <1>3. CASE Continue(c) /\ (Head(call[c].todo) = "parse" => call[c].val # Invalid)
    <2>1. CallsOK'
      BY <1>1, <1>3, ContinueCallsOK
    <2>2. Len(call[c].todo) # 1 => Tail(call[c].todo) \in Todos
      BY <1>2, TodoFacts DEF Placed, Todos
    <2> QED
      BY <1>1, <1>2, <1>3, <2>1, <2>2, ContinueFacts DEF CallsOK
  <1>4. CASE Refuse(c) \/ Succeed(c)
    <2>1. call' = [call EXCEPT ![c] = NoCall]
      BY <1>4 DEF Refuse, Succeed
    <2>2. CallsOK'
      BY <2>1, CallsOKStep
    <2> QED
      BY <1>1, <1>2, <2>1, <2>2 DEF CallsOK
  <1>5. CASE /\ call' = [call EXCEPT ![c].tries = @ + 1]
             /\ call[c].tries < FLASH_WRITE_RETRY_COUNT /\ errors' = errors + 1
             /\ Head(call[c].todo) = "write" /\ UNCHANGED <<config_data, nvs, promised>>
    <2>1. call' = [call EXCEPT ![c] = Retried(call[c])]
      BY <1>5 DEF Retried
    <2>2. CallsOK'
      BY <1>2, <1>5, <2>1, CallsOKStep, RetriedFacts
    <2> QED
      BY <1>1, <1>2, <1>5, <2>1, <2>2 DEF CallsOK
  <1> QED
    BY <1>1, <1>3, <1>4, <1>5

\* What a setter has promised once it returns: its value, or nothing new.
LEMMA SucceedFacts ==
    ASSUME CallsOK, DataOK, NEW c \in Callers, call[c] # NoCall, call[c].val # Invalid, Succeed(c)
    PROVE  /\ DOMAIN promised' = KeySet
           /\ \A k \in KeySet : promised'[k] \in Values(k) \cup {NoPromise}
           /\ \A k \in KeySet \ {call[c].key} : promised'[k] = promised[k]
           /\ call[c].disturbed => promised' = promised
           /\ ~call[c].disturbed => promised'[call[c].key] = call[c].val
  <1>1. Placed(call[c])
    BY BusyFacts
  <1>2. call[c].key \in KeySet /\ call[c].val \in Values(call[c].key)
    BY <1>1, ValueFacts DEF Placed
  <1> QED
    BY <1>2 DEF Succeed, DataOK

\* The end of a setter promises its own value, and nothing about other settings.
LEMMA ContinueData ==
    ASSUME CallsOK, DataOK, NEW c \in Callers, call[c] # NoCall, call[c].val # Invalid, Continue(c)
    PROVE  /\ DOMAIN promised' = KeySet
           /\ \A k \in KeySet : promised'[k] \in Values(k) \cup {NoPromise}
           /\ \A k \in KeySet \ {call[c].key} : promised'[k] = promised[k]
  BY ContinueFacts, SucceedFacts DEF DataOK

\* Every part of a setter leaves values of their kind in RAM and in flash.
LEMMA SetterDataOK ==
    ASSUME CallsOK, DataOK, NEW c \in Callers, SetterStep(c)
    PROVE  DataOK'
  <1> DEFINE k == call[c].key
  <1>1. /\ phase = "up" /\ call[c] # NoCall /\ Placed(call[c])
    BY SetterCalls
  <1>2. k \in KeySet /\ (call[c].val # Invalid => call[c].val \in Values(k))
    BY <1>1, ValueFacts DEF Placed
  <1>3. Head(call[c].todo) # "parse" => call[c].val # Invalid
    BY <1>1 DEF Placed
  <1>4. CASE Parse(c)
    <2>1. call[c].val # Invalid => Continue(c)
      BY <1>4 DEF Parse
    <2>2. call[c].val = Invalid => UNCHANGED promised
      BY <1>4 DEF Parse, Refuse
    <2>3. /\ DOMAIN promised' = KeySet
          /\ \A j \in KeySet : promised'[j] \in Values(j) \cup {NoPromise}
      BY <1>1, <2>1, <2>2, ContinueData DEF DataOK
    <2>4. UNCHANGED <<config_data, nvs>>
      BY <1>4 DEF Parse, nvsVars
    <2>5. k \in IpKeys /\ call[c].val \notin {Invalid, "0"} => call[c].val \in Strings \cup {"0"}
      BY <1>1, ConfigAssumption, Zenon
         DEF Placed, Arguments, IpKeys, FlagKeys, ConfigAssumption, Invalid
    <2>6. addr' \in Strings \cup {"0"}
      BY <1>4, <2>5 DEF Parse, DataOK
    <2> QED
      BY <2>3, <2>4, <2>6 DEF DataOK
  <1>5. CASE SameValue(c)
    <2>1. /\ DOMAIN promised' = KeySet
          /\ \A j \in KeySet : promised'[j] \in Values(j) \cup {NoPromise}
      BY <1>1, <1>3, <1>5, ContinueData, SucceedFacts DEF SameValue, At
    <2> QED
      BY <1>5, <2>1 DEF DataOK, SameValue, nvsVars
  <1>6. CASE SetRam(c)
    <2>1. /\ DOMAIN promised' = KeySet
          /\ \A j \in KeySet : promised'[j] \in Values(j) \cup {NoPromise}
      BY <1>1, <1>3, <1>6, ContinueData DEF SetRam, At
    <2>2. k \in IpKeys => addr \in Values(k)
      BY <1>2, ValueFacts DEF DataOK
    <2>3. /\ DOMAIN config_data' = KeySet
          /\ \A j \in KeySet : config_data'[j] \in Values(j)
      <3>1. Field(k, call[c].val) \in Values(k)
        BY <1>2, <1>3, <1>6, FieldFacts DEF SetRam, At
      <3> QED
        BY <1>2, <1>6, <2>2, <3>1 DEF SetRam, DataOK
    <2>4. UNCHANGED <<nvs, addr>>
      BY <1>6 DEF SetRam, nvsVars
    <2> QED
      BY <2>1, <2>3, <2>4 DEF DataOK
  <1>7. CASE Apply(c)
    <2>1. /\ DOMAIN promised' = KeySet
          /\ \A j \in KeySet : promised'[j] \in Values(j) \cup {NoPromise}
      BY <1>1, <1>3, <1>7, ContinueData DEF Apply, At, Refuse, DataOK
    <2> QED
      BY <1>7, <2>1 DEF DataOK, Apply, nvsVars
  <1>8. CASE Notify(c)
    <2>1. /\ DOMAIN promised' = KeySet
          /\ \A j \in KeySet : promised'[j] \in Values(j) \cup {NoPromise}
      BY <1>1, <1>3, <1>8, ContinueData DEF Notify, At
    <2> QED
      BY <1>8, <2>1 DEF DataOK, Notify, nvsVars
  <1>9. CASE Write(c)
    <2>1. /\ DOMAIN promised' = KeySet
          /\ \A j \in KeySet : promised'[j] \in Values(j) \cup {NoPromise}
      BY <1>1, <1>3, <1>9, ContinueData DEF Write, At, Refuse, DataOK
    <2>2. nvs' = nvs \/ nvs' = [nvs EXCEPT ![k] = Stored(config_data[k])]
      BY <1>9 DEF Write
    <2>3. Stored(config_data[k]) \in (Values(k) \ {Empty}) \cup {Absent}
      BY <1>2 DEF Stored, DataOK
    <2>4. /\ DOMAIN nvs' = KeySet
          /\ \A j \in KeySet : nvs'[j] \in (Values(j) \ {Empty}) \cup {Absent}
      BY <1>2, <2>2, <2>3 DEF DataOK
    <2> QED
      BY <1>9, <2>1, <2>4 DEF DataOK, Write
  <1> QED
    BY <1>4, <1>5, <1>6, <1>7, <1>8, <1>9 DEF SetterStep

\* Setters run between boots and leave the boot's state alone.
LEMMA SetterFrame ==
    ASSUME NEW c \in Callers, SetterStep(c)
    PROVE  /\ UNCHANGED <<config_use_fs, fs_is_enabled, nvs_version, mounted, bootVars, wiped,
                          readErrors, calls>>
           /\ errors' = errors \/ (errors < MaxErrors /\ errors' = errors + 1)
  <1>1. CASE Parse(c)
    BY <1>1 DEF Parse, nvsVars, countVars, bootVars
  <1>2. CASE SameValue(c)
    BY <1>2 DEF SameValue, nvsVars, countVars, bootVars
  <1>3. CASE SetRam(c)
    BY <1>3 DEF SetRam, nvsVars, countVars, bootVars
  <1>4. CASE Apply(c)
    BY <1>4 DEF Apply, nvsVars, countVars, bootVars, MayFail, Fail
  <1>5. CASE Notify(c)
    BY <1>5 DEF Notify, nvsVars, countVars, bootVars
  <1>6. CASE Write(c)
    BY <1>6 DEF Write, nvsVars, countVars, bootVars, MayFail, Fail
  <1> QED
    BY <1>1, <1>2, <1>3, <1>4, <1>5, <1>6 DEF SetterStep

-----------------------------------------------------------------------------
(* Types.                                                                  *)

\* The types hold before the first boot.
LEMMA InitType == Init => TypeInv
  <1> SUFFICES ASSUME Init PROVE TypeInv
    OBVIOUS
  <1>1. CallsOK
    BY NoCallFacts DEF Init, CallsOK
  <1>2. \A k \in KeySet : nvs[k] \in (Values(k) \ {Empty}) \cup {Absent}
    BY ValueFacts DEF Init
  <1>3. DataOK
    BY <1>2, ValueFacts DEF Init, DataOK
  <1>b. MaxErrors \in Nat /\ MaxCalls \in Nat /\ Len(Keys) \in Nat
    BY ConfigAssumption, KeyFacts DEF ConfigAssumption
  <1>4. StateOK
    <2>1. nvs_version \in NvsVersions /\ phase = "off" /\ loaded = 0
          /\ errors = 0 /\ readErrors = 0 /\ calls = 0
      BY DEF Init
    <2> QED
      BY <1>b, <2>1 DEF StateOK
  <1>5. FlagsOK
    BY Zenon DEF Init, FlagsOK
  <1> QED
    BY <1>1, <1>3, <1>4, <1>5 DEF TypeInv

\* A failed clear loses records, and the promises about them.
LEMMA ClearFailsData ==
    ASSUME DataOK, ClearFails
    PROVE  /\ DOMAIN nvs' = KeySet /\ DOMAIN promised' = KeySet
           /\ \A k \in KeySet :
                 \/ nvs'[k] = Absent /\ promised'[k] = NoPromise
                 \/ nvs'[k] = nvs[k] /\ promised'[k] = promised[k]
           /\ nvs_version' \in {nvs_version, NoVersion}
           /\ errors' = errors + 1 /\ errors < MaxErrors
           /\ UNCHANGED <<readErrors, calls, mounted, wiped>>
  BY DEF ClearFails, Fail, MayFail

\* config_init loads a setting of its list.
LEMMA LoadKey ==
    ASSUME StateOK, LoadField
    PROVE  /\ Keys[loaded + 1] \in KeySet
           /\ loaded + 1 \in 1..Len(Keys) /\ loaded + 1 \in 0..Len(Keys)
           /\ loaded \in Nat /\ loaded' = loaded + 1
  <1>1. loaded \in 0..Len(Keys) /\ loaded < Len(Keys) /\ loaded' = loaded + 1
    BY DEF LoadField, StateOK
  <1>2. Len(Keys) \in Nat
    BY KeyFacts
  <1>3. loaded + 1 \in 1..Len(Keys) /\ loaded + 1 \in 0..Len(Keys) /\ loaded \in Nat
    BY <1>1, <1>2
  <1>4. Keys[loaded + 1] \in KeySet
    BY <1>3, KeyFacts
  <1> QED
    BY <1>1, <1>3, <1>4

\* Every step of the boot, a caller, the clear and a restart keeps the types.
LEMMA TypeStep == TypeInv /\ [Next]_vars => TypeInv'
  <1> SUFFICES ASSUME TypeInv, [Next]_vars PROVE TypeInv'
    OBVIOUS
  <1> USE DEF TypeInv
  <1>a. CallsOK /\ DataOK /\ FlagsOK /\ StateOK
    OBVIOUS
  <1>b. MaxErrors \in Nat /\ MaxCalls \in Nat /\ Len(Keys) \in Nat
    BY ConfigAssumption, KeyFacts DEF ConfigAssumption
  <1>c. FlagsOK'
    <2>1. CASE fs_init
      BY <1>a, <2>1 DEF fs_init, FlagsOK, mount_fs, ghostVars
    <2>2. CASE CheckVersion
      BY <1>a, <2>2 DEF CheckVersion, FlagsOK, nvs_clear, ClearFails, ghostVars, nvsVars
    <2>3. CASE CreateVersion
      BY <1>a, <2>3 DEF CreateVersion, FlagsOK, ghostVars
    <2>4. CASE LoadField \/ BootFinished
      BY <1>a, <2>4 DEF LoadField, BootFinished, FlagsOK, ramVars, nvsVars
    <2>5. ASSUME NEW c \in Callers, NEW k \in KeySet, NEW v \in Arguments(k), Call(c, k, v)
          PROVE  FlagsOK'
      BY <1>a, <2>5 DEF Call, FlagsOK, ramVars, nvsVars
    <2>6. ASSUME NEW c \in Callers, SetterStep(c)
          PROVE  FlagsOK'
      BY <1>a, <2>6, SetterFrame DEF FlagsOK
    <2>7. CASE config_clear
      BY <1>a, <2>7 DEF config_clear, nvs_clear, FlagsOK, ramVars
    <2>8. CASE ConfigClearError
      BY <1>a, <2>8 DEF ConfigClearError, ClearFails, FlagsOK, ramVars
    <2>9. CASE fs_exit
      BY <1>a, <2>9 DEF fs_exit, umount_fs, FlagsOK, nvsVars, ghostVars
    <2>10. CASE Restart
      BY <1>a, <2>10 DEF Restart, FlagsOK, ghostVars
    <2>11. CASE UNCHANGED vars
      BY <1>a, <2>11 DEF vars, ramVars, nvsVars, ghostVars, FlagsOK
    <2> QED
      BY <2>1, <2>2, <2>3, <2>4, <2>5, <2>6, <2>7, <2>8, <2>9, <2>10, <2>11 DEF Next
  <1> USE <1>c
  <1>1. CASE fs_init
    <2>1. CallsOK' /\ DataOK'
      BY <1>1 DEF fs_init, CallsOK, DataOK, ghostVars
    <2>2. StateOK'
      BY <1>1, <1>b DEF fs_init, StateOK, ghostVars, mount_fs, MayFail, Fail, countVars
    <2> QED
      BY <2>1, <2>2
  <1>2. CASE CheckVersion
    <2>1. CallsOK'
      BY <1>2 DEF CheckVersion, CallsOK
    <2>2. UNCHANGED <<config_data, fs_is_enabled, addr, loaded>>
      BY <1>2 DEF CheckVersion
    <2>3. CASE UNCHANGED <<nvs, promised, wiped, mounted, errors, calls, nvs_version>>
      <3>1. /\ config_use_fs' \in BOOLEAN /\ phase' \in {"load", "create"}
            /\ readErrors' = readErrors \/ (errors + readErrors < MaxErrors /\ readErrors' = readErrors + 1)
        BY <1>2, <2>3, <1>a
           DEF CheckVersion, FlagsOK, nvsVars, ghostVars, countVars, nvs_clear, ClearFails, Fail
      <3>2. StateOK'
        BY <1>b, <2>2, <2>3, <3>1 DEF StateOK
      <3> QED
        BY <2>1, <2>2, <2>3, <3>2 DEF DataOK
    <2>4. CASE /\ nvs_clear /\ config_use_fs' = TRUE /\ phase' = "create"
               /\ promised' = [k \in KeySet |-> NoPromise]
               /\ UNCHANGED <<wiped, countVars>>
      <3>1. DataOK'
        BY <2>2, <2>4 DEF DataOK, nvs_clear
      <3>2. StateOK'
        BY <2>2, <2>4 DEF StateOK, nvs_clear, countVars
      <3> QED
        BY <2>1, <3>1, <3>2
    <2>5. CASE ClearFails /\ config_use_fs' = FALSE /\ phase' = "load"
      <3>1. DataOK'
        BY <2>2, <2>5, ClearFailsData DEF DataOK
      <3>2. StateOK'
        BY <1>b, <2>2, <2>5, ClearFailsData DEF StateOK
      <3> QED
        BY <2>1, <3>1, <3>2
    <2> QED
      BY <1>2, <2>3, <2>4, <2>5 DEF CheckVersion, nvsVars, ghostVars, countVars
  <1>3. CASE CreateVersion
    <2>1. CallsOK' /\ DataOK'
      BY <1>3 DEF CreateVersion, CallsOK, DataOK, ghostVars
    <2>2. StateOK'
      BY <1>3, <1>b DEF CreateVersion, StateOK, ghostVars, MayFail, Fail, countVars
    <2> QED
      BY <2>1, <2>2
  <1>4. CASE LoadField
    <2> DEFINE k == Keys[loaded + 1]
    <2>1. k \in KeySet /\ loaded + 1 \in 0..Len(Keys)
      BY <1>4, LoadKey
    <2>2. CallsOK'
      BY <1>4 DEF LoadField, CallsOK
    <2>3. /\ \/ config_data' = [config_data EXCEPT ![k] = nvs[k]] /\ nvs[k] # Absent
             \/ config_data' = [config_data EXCEPT ![k] = Default(k)]
          /\ nvs' = nvs \/ nvs' = [nvs EXCEPT ![k] = Stored(Default(k))]
          /\ promised' = promised \/ promised' = [promised EXCEPT ![k] = NoPromise]
          /\ UNCHANGED addr
      BY <1>4 DEF LoadField, Readable
    <2>4. DataOK'
      BY <2>1, <2>3, ValueFacts DEF DataOK, Stored
    <2>5. /\ errors' = errors \/ (errors < MaxErrors /\ errors' = errors + 1)
          /\ readErrors' = readErrors \/ (readErrors < MaxErrors /\ readErrors' = readErrors + 1)
          /\ UNCHANGED calls
      BY <1>4, <1>b DEF LoadField, MayFail, Fail, countVars, StateOK
    <2>6. StateOK'
      BY <1>4, <1>b, <2>1, <2>5 DEF LoadField, StateOK
    <2> QED
      BY <2>2, <2>4, <2>6
  <1>5. CASE BootFinished
    <2>1. CallsOK' /\ DataOK'
      BY <1>5 DEF BootFinished, CallsOK, DataOK, ramVars, nvsVars
    <2>2. StateOK'
      BY <1>5 DEF BootFinished, StateOK, ramVars, nvsVars, countVars
    <2> QED
      BY <2>1, <2>2
  <1>6. ASSUME NEW c \in Callers, NEW k \in KeySet, NEW v \in Arguments(k), Call(c, k, v)
        PROVE  TypeInv'
    <2>1. CallsOK'
      BY <1>6, CallFacts
    <2>2. DataOK'
      BY <1>6 DEF Call, DataOK, ramVars, nvsVars
    <2>3. StateOK'
      BY <1>6, <1>b DEF Call, StateOK, ramVars, nvsVars, bootVars
    <2> QED
      BY <2>1, <2>2, <2>3
  <1>7. ASSUME NEW c \in Callers, SetterStep(c)
        PROVE  TypeInv'
    <2>1. CallsOK' /\ DataOK'
      BY <1>7, SetterCalls, SetterDataOK
    <2>2. StateOK'
      BY <1>7, <1>b, SetterFrame DEF StateOK, bootVars
    <2> QED
      BY <2>1, <2>2
  <1>8. CASE config_clear
    <2>1. CallsOK'
      BY <1>8, ClearedFacts DEF config_clear
    <2>2. DataOK'
      BY <1>8 DEF config_clear, DataOK, ramVars, nvs_clear
    <2>3. StateOK'
      BY <1>8 DEF config_clear, StateOK, ramVars, nvs_clear, bootVars, countVars
    <2> QED
      BY <2>1, <2>2, <2>3
  <1>9. CASE ConfigClearError
    <2>1. CallsOK'
      BY <1>9, ClearedFacts DEF ConfigClearError
    <2>2. ClearFails /\ UNCHANGED <<ramVars, bootVars>>
      BY <1>9 DEF ConfigClearError
    <2>3. DataOK'
      BY <2>2, ClearFailsData DEF DataOK, ramVars
    <2>4. StateOK'
      BY <2>2, <1>b, ClearFailsData DEF StateOK, ramVars, bootVars
    <2> QED
      BY <2>1, <2>3, <2>4
  <1>10. CASE fs_exit
    <2>1. CallsOK' /\ DataOK'
      BY <1>10 DEF fs_exit, CallsOK, DataOK, nvsVars, ghostVars
    <2>2. StateOK'
      BY <1>10 DEF fs_exit, umount_fs, StateOK, nvsVars, bootVars, ghostVars, countVars
    <2> QED
      BY <2>1, <2>2
  <1>11. CASE Restart
    <2>1. CallsOK'
      BY <1>11, NoCallFacts DEF Restart, CallsOK
    <2>2. DataOK'
      BY <1>11, ValueFacts DEF Restart, DataOK, ghostVars
    <2>3. StateOK'
      BY <1>11, <1>b DEF Restart, StateOK, ghostVars, countVars
    <2> QED
      BY <2>1, <2>2, <2>3
  <1>12. CASE UNCHANGED vars
    BY <1>12 DEF vars, ramVars, nvsVars, bootVars, ghostVars, countVars, CallsOK, DataOK, StateOK
  <1> QED
    BY <1>1, <1>2, <1>3, <1>4, <1>5, <1>6, <1>7, <1>8, <1>9, <1>10, <1>11, <1>12 DEF Next

\* Whatever fails and whoever calls, RAM and flash hold values of their setting's
\* kind, a record in flash is never empty, and no write is retried more often than
\* FLASH_WRITE_RETRY_COUNT (config.c:92-128, fs.c:93-162).
THEOREM ConfigTypes == Spec => []TypeOK
  <1>1. TypeInv => TypeOK
    <2> SUFFICES ASSUME TypeInv PROVE TypeOK
      OBVIOUS
    <2>1. {config_use_fs, fs_is_enabled, mounted, wiped} \subseteq BOOLEAN
      BY Zenon DEF TypeInv, FlagsOK
    <2>2. \A c \in Callers : call[c].tries \in 0..FLASH_WRITE_RETRY_COUNT
      BY DEF TypeInv, CallsOK, CallType
    <2>3. errors \in 0..MaxErrors /\ readErrors \in 0..MaxErrors /\ calls \in 0..MaxCalls
      BY ConfigAssumption DEF TypeInv, StateOK, ConfigAssumption
    <2>4. StateOK /\ DataOK
      BY DEF TypeInv
    <2> QED
      BY <2>1, <2>2, <2>3, <2>4 DEF TypeOK, StateOK, DataOK
  <1> QED
    BY <1>1, InitType, TypeStep, PTL DEF Spec

-----------------------------------------------------------------------------
(* The boot, and what config_clear leaves behind.                          *)

\* The boot goes through its phases in order (config_init, config.c:753-851).
LEMMA BootStep == TypeInv /\ BootInv /\ [Next]_vars => BootInv'
  <1> SUFFICES ASSUME TypeInv, BootInv, [Next]_vars PROVE BootInv'
    OBVIOUS
  <1>a. CallsOK /\ DataOK /\ StateOK
    BY DEF TypeInv
  <1>1. CASE fs_init
    BY <1>1 DEF fs_init, BootInv, mount_fs, FlashUsable
  <1>2. CASE CheckVersion
    BY <1>2 DEF CheckVersion, BootInv, FlashUsable, nvs_clear, ClearFails, nvsVars
  <1>3. CASE CreateVersion
    BY <1>3 DEF CreateVersion, BootInv, FlashUsable, ConfigUsable
  <1>4. CASE LoadField
    BY <1>4 DEF LoadField, BootInv, FlashUsable
  <1>5. CASE BootFinished
    BY <1>5 DEF BootFinished, BootInv, FlashUsable
  <1>6. ASSUME NEW c \in Callers, NEW k \in KeySet, NEW v \in Arguments(k), Call(c, k, v)
        PROVE  BootInv'
    BY <1>6 DEF Call, BootInv, FlashUsable, bootVars, ramVars, nvsVars
  <1>7. ASSUME NEW c \in Callers, SetterStep(c)
        PROVE  BootInv'
    BY <1>7, <1>a, SetterFrame, SetterCalls DEF BootInv, FlashUsable, bootVars
  <1>8. CASE config_clear
    BY <1>8 DEF config_clear, BootInv, FlashUsable, bootVars, ramVars
  <1>9. CASE ConfigClearError
    BY <1>9 DEF ConfigClearError, BootInv, FlashUsable, bootVars, ramVars
  <1>10. CASE fs_exit
    BY <1>10 DEF fs_exit, umount_fs, BootInv, FlashUsable, bootVars
  <1>11. CASE Restart
    BY <1>11 DEF Restart, BootInv, FlashUsable
  <1>12. CASE UNCHANGED vars
    BY <1>12 DEF vars, ramVars, nvsVars, bootVars, BootInv, FlashUsable
  <1> QED
    BY <1>1, <1>2, <1>3, <1>4, <1>5, <1>6, <1>7, <1>8, <1>9, <1>10, <1>11, <1>12 DEF Next

\* No step writes an old value to a flash that was cleared.
LEMMA WipedStep == TypeInv /\ WipedInv /\ [Next]_vars => WipedInv'
  <1> SUFFICES ASSUME TypeInv, WipedInv, [Next]_vars PROVE WipedInv'
    OBVIOUS
  <1> USE DEF WipedInv, ClearedStaysCleared
  <1>a. CallsOK /\ DataOK /\ StateOK
    BY DEF TypeInv
  <1>1. CASE fs_init
    BY <1>1 DEF fs_init, ghostVars
  <1>2. CASE CheckVersion
    <2>1. CASE UNCHANGED <<nvs, wiped>>
      BY <1>2, <2>1 DEF CheckVersion
    <2>2. CASE nvs_clear
      BY <1>2, <2>2 DEF CheckVersion, nvs_clear
    <2>3. CASE ClearFails
      BY <1>2, <2>3, <1>a, ClearFailsData DEF CheckVersion
    <2> QED
      BY <1>2, <2>1, <2>2, <2>3 DEF CheckVersion, nvsVars, ghostVars
  <1>3. CASE CreateVersion
    BY <1>3 DEF CreateVersion, ghostVars
  <1>4. CASE LoadField
    <2> DEFINE k == Keys[loaded + 1]
    <2>1. k \in KeySet
      BY <1>4, <1>a, LoadKey
    <2>2. /\ nvs' = nvs \/ nvs' = [nvs EXCEPT ![k] = Stored(Default(k))]
          /\ UNCHANGED <<wiped, phase, mounted>>
      BY <1>4 DEF LoadField
    <2>3. Stored(Default(k)) \in {Absent, Default(k)}
      BY DEF Stored
    <2> QED
      BY <1>a, <2>1, <2>2, <2>3 DEF DataOK
  <1>5. CASE BootFinished
    BY <1>5 DEF BootFinished
  <1>6. ASSUME NEW c \in Callers, NEW k \in KeySet, NEW v \in Arguments(k), Call(c, k, v)
        PROVE  WipedInv'
    BY <1>6 DEF Call, bootVars, nvsVars
  <1>7. ASSUME NEW c \in Callers, SetterStep(c)
        PROVE  WipedInv'
    <2>1. phase = "up" /\ UNCHANGED <<wiped, phase, mounted>>
      BY <1>7, <1>a, SetterFrame, SetterCalls DEF bootVars
    <2>2. ~mounted => UNCHANGED nvs
      <3>1. CASE Write(c)
        BY <3>1 DEF Write, ConfigUsable, FlashUsable
      <3>2. CASE Parse(c) \/ SameValue(c) \/ SetRam(c) \/ Apply(c) \/ Notify(c)
        BY <3>2 DEF Parse, SameValue, SetRam, Apply, Notify, nvsVars
      <3> QED
        BY <1>7, <3>1, <3>2 DEF SetterStep
    <2> QED
      BY <2>1, <2>2
  <1>8. CASE config_clear
    BY <1>8 DEF config_clear, nvs_clear
  <1>9. CASE ConfigClearError
    BY <1>9, <1>a, ClearFailsData DEF ConfigClearError, bootVars
  <1>10. CASE fs_exit
    BY <1>10 DEF fs_exit, bootVars, nvsVars, ghostVars
  <1>11. CASE Restart
    BY <1>11 DEF Restart, ghostVars
  <1>12. CASE UNCHANGED vars
    BY <1>12 DEF vars, nvsVars, bootVars, ghostVars
  <1> QED
    BY <1>1, <1>2, <1>3, <1>4, <1>5, <1>6, <1>7, <1>8, <1>9, <1>10, <1>11, <1>12 DEF Next

\* The three invariants hold of every state.
LEMMA ConfigInductive == Spec => [](TypeInv /\ BootInv /\ WipedInv)
  <1>1. Init => BootInv /\ WipedInv
    BY DEF Init, BootInv, WipedInv, ClearedStaysCleared
  <1> QED
    BY <1>1, InitType, TypeStep, BootStep, WipedStep, PTL DEF Spec

\* Once config_clear has succeeded, no setter that was still running, no reboot and
\* no failure brings an old value back into the flash before the next boot is done
\* (config.c:715-751, fs.c:93-113): the clear unmounts, so that the writes of the
\* running threads are refused, and the boot writes only defaults.
THEOREM ClearedSafe == Spec => []ClearedStaysCleared
  BY ConfigInductive, PTL DEF WipedInv

-----------------------------------------------------------------------------
(* RAM and flash.                                                          *)

\* An advanced call.
LEMMA AdvanceFacts ==
    ASSUME CallsOK, NEW c \in Callers, call[c] # NoCall, Continue(c)
    PROVE  /\ Len(call[c].todo) = 1 => call'[c] = NoCall
           /\ Len(call[c].todo) # 1 =>
                 /\ call'[c].key = call[c].key /\ call'[c].val = call[c].val
                 /\ call'[c].todo = Tail(call[c].todo)
                 /\ call'[c].disturbed = call[c].disturbed
  <1>1. call[c] \in CallType /\ Placed(call[c])
    BY BusyFacts
  <1>2. Len(call[c].todo) # 1 => Tail(call[c].todo) \in Todos
    BY <1>1, TodoFacts DEF Placed, Todos
  <1>3. call'[c] = IF Len(call[c].todo) = 1 THEN NoCall ELSE Advanced(call[c])
    BY ContinueFacts DEF CallsOK
  <1> QED
    BY <1>1, <1>2, <1>3, AdvancedFacts

\* Until it writes, a caller that changed RAM still owes its write.
LEMMA SetterOwed ==
    ASSUME CallsOK, NEW c \in Callers, SetterStep(c), NEW k \in KeySet,
           \/ call[c].key # k
           \/ call[c].todo \notin BeforeWrite
           \/ call'[c].key = k /\ call'[c].todo \in BeforeWrite,
           Owed(k)
    PROVE  Owed(k)'
  <1>1. PICK d \in Callers : call[d].key = k /\ call[d].todo \in BeforeWrite
    BY DEF Owed
  <1>2. \A e \in Callers \ {c} : call'[e] = call[e]
    BY SetterCalls
  <1>3. CASE d = c
    BY <1>1, <1>3 DEF Owed
  <1>4. CASE d # c
    BY <1>1, <1>2, <1>4 DEF Owed
  <1> QED
    BY <1>3, <1>4

\* What one step of a setter does to its setting in RAM and in flash, if no
\* operation fails.
LEMMA SetterSync ==
    ASSUME TypeInv, NEW c \in Callers, SetterStep(c), ConfigUsable, errors' = errors
    PROVE  LET k == call[c].key
           IN  /\ \A j \in KeySet \ {k} : nvs'[j] = nvs[j] /\ config_data'[j] = config_data[j]
               /\ \/ nvs'[k] = Stored(config_data'[k])
                  \/ call'[c].key = k /\ call'[c].todo \in BeforeWrite
                  \/ /\ call[c].todo \notin BeforeWrite
                     /\ nvs'[k] = nvs[k] /\ config_data'[k] = config_data[k]
  <1> DEFINE k == call[c].key
  <1>a. CallsOK /\ DataOK /\ StateOK
    BY DEF TypeInv
  <1>b. call[c] # NoCall /\ Placed(call[c]) /\ k \in KeySet
    BY <1>a, SetterCalls DEF Placed
  <1>c. errors \in Nat
    BY <1>a DEF StateOK
  <1>d. call[c].todo \in BeforeWrite => Head(call[c].todo) \in {"apply", "notify", "write"}
    BY TodoFacts
  <1>e. ASSUME call[c].todo \in BeforeWrite, Head(call[c].todo) # "write", Continue(c)
        PROVE  call'[c].key = k /\ call'[c].todo \in BeforeWrite
    BY <1>a, <1>b, <1>e, AdvanceFacts, TodoFacts
  <1>1. CASE Parse(c)
    BY <1>1, <1>d DEF Parse, At, nvsVars
  <1>2. CASE SameValue(c)
    BY <1>2, <1>d DEF SameValue, At, nvsVars
  <1>3. CASE SetRam(c)
    <2>1. call[c].todo \in BeforeRam
      BY <1>3, <1>b, TodoFacts DEF Placed, Todos, SetRam, At
    <2>2. call'[c].key = k /\ call'[c].todo \in BeforeWrite
      BY <1>3, <1>a, <1>b, <2>1, AdvanceFacts, TodoFacts DEF SetRam, At
    <2> QED
      BY <1>3, <1>a, <1>b, <2>2 DEF SetRam, nvsVars, DataOK
  <1>4. CASE Apply(c)
    <2>1. Continue(c) /\ UNCHANGED <<nvs, config_data>> /\ Head(call[c].todo) = "apply"
      BY <1>4, <1>c DEF Apply, At, nvsVars, Fail
    <2> QED
      BY <2>1, <1>e
  <1>5. CASE Notify(c)
    <2>1. Continue(c) /\ UNCHANGED <<nvs, config_data>> /\ Head(call[c].todo) = "notify"
      BY <1>5 DEF Notify, At, nvsVars
    <2> QED
      BY <2>1, <1>e
  <1>6. CASE Write(c)
    <2>1. UNCHANGED config_data /\ nvs' = [nvs EXCEPT ![k] = Stored(config_data[k])]
      BY <1>6, <1>c DEF Write, Fail
    <2> QED
      BY <2>1, <1>a, <1>b DEF DataOK
  <1> QED
    BY <1>1, <1>2, <1>3, <1>4, <1>5, <1>6 DEF SetterStep

\* A boot that has loaded nothing yet.
LEMMA LoadedEmpty == loaded = 0 => Loaded = {}
  BY DEF Loaded

\* config_init adds one setting at a time to what it has loaded.
LEMMA LoadedGrows ==
    ASSUME StateOK, LoadField
    PROVE  Loaded' = Loaded \cup {Keys[loaded + 1]}
  <1>1. loaded \in Nat /\ loaded' = loaded + 1
    BY LoadKey
  <1>2. 1..(loaded + 1) = (1..loaded) \cup {loaded + 1}
    BY <1>1
  <1> QED
    BY <1>1, <1>2 DEF Loaded

\* What has been loaded are settings, and in the end all of them.
LEMMA LoadedKeys ==
    ASSUME StateOK
    PROVE  /\ Loaded \subseteq KeySet
           /\ loaded = Len(Keys) => Loaded = KeySet
  <1>1. loaded \in 0..Len(Keys) /\ Len(Keys) \in Nat
    BY KeyFacts DEF StateOK
  <1>2. \A i \in 1..loaded : i \in 1..Len(Keys)
    BY <1>1
  <1>3. \A i \in 1..loaded : Keys[i] \in KeySet
    BY <1>2, KeyFacts
  <1>4. Loaded \subseteq KeySet
    BY <1>3 DEF Loaded
  <1>5. loaded = Len(Keys) => KeySet \subseteq Loaded
    BY KeyFacts DEF Loaded
  <1> QED
    BY <1>4, <1>5

\* Every step keeps the account of who still has a write to do: a setter that changes
\* RAM is before its write, and a write makes the flash what RAM is at that moment.
LEMMA SyncStep == TypeInv /\ BootInv /\ SyncInv /\ [Next]_vars => SyncInv'
  <1> SUFFICES ASSUME TypeInv, BootInv, SyncInv, [Next]_vars,
                      (phase \in {"load", "up"} /\ ConfigUsable)', (errors + readErrors = 0)',
                      NEW k \in Loaded'
               PROVE  (nvs[k] = Stored(config_data[k]) \/ Owed(k))'
    BY DEF SyncInv
  <1>a. CallsOK /\ DataOK /\ StateOK
    BY DEF TypeInv
  <1>b. errors \in Nat /\ readErrors \in Nat
    BY <1>a DEF StateOK
  <1>1. CASE fs_init
    BY <1>1 DEF fs_init
  <1>2. CASE CheckVersion \/ CreateVersion
    <2>1. loaded' = 0
      BY <1>2 DEF CheckVersion, CreateVersion, BootInv
    <2>2. Loaded' = {}
      BY <2>1, LoadedEmpty DEF Loaded
    <2> QED
      BY <2>2
  <1>3. CASE LoadField
    <2> DEFINE j == Keys[loaded + 1]
    <2>1. j \in KeySet /\ Loaded' = Loaded \cup {j}
      BY <1>3, <1>a, LoadKey, LoadedGrows
    <2>2. ConfigUsable /\ phase = "load" /\ UNCHANGED call
      BY <1>3 DEF LoadField, ConfigUsable, FlashUsable
    <2>3. UNCHANGED <<errors, readErrors>> /\ errors + readErrors = 0
      BY <1>3, <1>b DEF LoadField, Fail, countVars
    <2>4. \/ nvs[j] # Absent /\ config_data' = [config_data EXCEPT ![j] = nvs[j]] /\ UNCHANGED nvs
          \/ /\ config_data' = [config_data EXCEPT ![j] = Default(j)]
             /\ nvs' = [nvs EXCEPT ![j] = Stored(Default(j))]
      BY <1>3, <1>b, <2>2, <2>3 DEF LoadField, Fail, Readable
    <2>5. CASE k = j
      BY <1>a, <2>1, <2>4, <2>5 DEF DataOK, Stored
    <2>6. CASE k # j
      <3>1. k \in Loaded
        BY <2>1, <2>6
      <3>2. nvs[k] = Stored(config_data[k]) \/ Owed(k)
        BY <2>2, <2>3, <3>1 DEF SyncInv
      <3>3. Owed(k) => Owed(k)'
        BY <2>2 DEF Owed
      <3>4. nvs'[k] = nvs[k] /\ config_data'[k] = config_data[k]
        <4>1. k \in KeySet
          BY <1>a, <3>1, LoadedKeys
        <4> QED
          BY <1>a, <2>1, <2>4, <2>6, <4>1 DEF DataOK
      <3> QED
        BY <3>2, <3>3, <3>4 DEF Stored
    <2> QED
      BY <2>5, <2>6
  <1>4. CASE BootFinished
    <2>1. UNCHANGED <<nvs, config_data, call, Loaded, errors, readErrors, ConfigUsable>> /\ phase = "load"
      BY <1>4
         DEF BootFinished, ramVars, nvsVars, countVars, Loaded, ConfigUsable, FlashUsable
    <2> QED
      BY <2>1 DEF SyncInv, Owed, Stored
  <1>5. ASSUME NEW c \in Callers, NEW j \in KeySet, NEW v \in Arguments(j), Call(c, j, v)
        PROVE  (nvs[k] = Stored(config_data[k]) \/ Owed(k))'
    <2>1. /\ UNCHANGED <<nvs, config_data, Loaded, errors, readErrors>>
          /\ ConfigUsable /\ phase = "up" /\ call[c] = NoCall
      BY <1>5 DEF Call, ramVars, nvsVars, bootVars, Loaded, ConfigUsable, FlashUsable
    <2>2. nvs[k] = Stored(config_data[k]) \/ Owed(k)
      BY <2>1 DEF SyncInv
    <2>3. Owed(k) => Owed(k)'
      <3>1. k # ""
        BY <1>a, <2>1, LoadedKeys, KeyFacts
      <3>2. \A d \in Callers : call[d].key = k => d # c
        BY <2>1, <3>1, NoCallFacts
      <3> QED
        BY <3>2, <1>a, <1>5, CallFacts DEF Owed
    <2> QED
      BY <2>1, <2>2, <2>3 DEF Stored
  <1>6. ASSUME NEW c \in Callers, SetterStep(c)
        PROVE  (nvs[k] = Stored(config_data[k]) \/ Owed(k))'
    <2>1. UNCHANGED <<Loaded, readErrors>> /\ ConfigUsable /\ phase = "up"
      BY <1>6, <1>a, SetterFrame, SetterCalls DEF Loaded, bootVars, ConfigUsable, FlashUsable
    <2>2. errors' = errors /\ errors + readErrors = 0
      BY <1>6, <1>b, <2>1, SetterFrame
    <2>3. nvs[k] = Stored(config_data[k]) \/ Owed(k)
      BY <2>1, <2>2 DEF SyncInv
    <2>4. k \in KeySet
      BY <1>a, <2>1, LoadedKeys
    <2>5. CASE k # call[c].key
      <3>1. nvs'[k] = nvs[k] /\ config_data'[k] = config_data[k]
        BY <1>6, <2>1, <2>2, <2>4, <2>5, SetterSync
      <3>2. Owed(k) => Owed(k)'
        BY <1>6, <1>a, <2>4, <2>5, SetterOwed
      <3> QED
        BY <2>3, <3>1, <3>2 DEF Stored
    <2>6. CASE k = call[c].key
      <3>1. \/ nvs'[k] = Stored(config_data'[k])
            \/ call'[c].key = k /\ call'[c].todo \in BeforeWrite
            \/ /\ call[c].todo \notin BeforeWrite
               /\ nvs'[k] = nvs[k] /\ config_data'[k] = config_data[k]
        BY <1>6, <2>1, <2>2, <2>6, SetterSync
      <3>2. CASE nvs'[k] = Stored(config_data'[k])
        BY <3>2 DEF Stored
      <3>3. CASE call'[c].key = k /\ call'[c].todo \in BeforeWrite
        BY <3>3 DEF Owed
      <3>4. CASE /\ call[c].todo \notin BeforeWrite
                 /\ nvs'[k] = nvs[k] /\ config_data'[k] = config_data[k]
        <4>1. Owed(k) => Owed(k)'
          BY <1>6, <1>a, <2>4, <3>4, SetterOwed
        <4> QED
          BY <2>3, <3>4, <4>1 DEF Stored
      <3> QED
        BY <3>1, <3>2, <3>3, <3>4
    <2> QED
      BY <2>5, <2>6
  <1>7. CASE config_clear
    BY <1>7 DEF config_clear, nvs_clear, ConfigUsable, FlashUsable
  <1>8. CASE ConfigClearError
    <2>1. errors' = errors + 1 /\ readErrors' = readErrors
      BY <1>8 DEF ConfigClearError, ClearFails, Fail
    <2> QED
      BY <2>1, <1>b
  <1>9. CASE fs_exit
    BY <1>9 DEF fs_exit, umount_fs, ConfigUsable, FlashUsable
  <1>10. CASE Restart
    BY <1>10 DEF Restart
  <1>11. CASE UNCHANGED vars
    <2>1. UNCHANGED <<nvs, config_data, call, Loaded, errors, readErrors, ConfigUsable, phase>>
      BY <1>11 DEF vars, ramVars, nvsVars, bootVars, countVars, Loaded, ConfigUsable, FlashUsable
    <2> QED
      BY <2>1 DEF SyncInv, Owed, Stored
  <1> QED
    BY <1>1, <1>2, <1>3, <1>4, <1>5, <1>6, <1>7, <1>8, <1>9, <1>10, <1>11 DEF Next

\* However the setters of any number of threads interleave, a setting nobody is
\* changing is the same in RAM and in flash while the flash is in use and none of
\* its operations failed (the setters, config.c:191-666): each setter writes what is
\* in RAM when it writes, so whoever changes RAM last also writes last or leaves
\* somebody who will.
THEOREM RamFlashSafe == Spec => []RamMatchesFlash
  <1>1. Init => SyncInv
    BY DEF Init, SyncInv
  <1>2. TypeInv /\ BootInv /\ SyncInv => RamMatchesFlash
    <2> SUFFICES ASSUME TypeInv, BootInv, SyncInv, phase = "up", ConfigUsable,
                        errors + readErrors = 0, NEW k \in KeySet,
                        \A c \in Callers : call[c].key # k
                 PROVE  nvs[k] = Stored(config_data[k])
      BY DEF RamMatchesFlash
    <2>1. k \in Loaded
      BY LoadedKeys DEF BootInv, TypeInv
    <2> QED
      BY <2>1 DEF SyncInv, Owed
  <1> QED
    BY <1>1, <1>2, ConfigInductive, SyncStep, PTL DEF Spec

-----------------------------------------------------------------------------
(* Promises.                                                               *)

\* A setter changes nothing of another setting but the shared address.
LEMMA SetterOthers ==
    ASSUME TypeInv, NEW c \in Callers, SetterStep(c), NEW j \in KeySet, j # call[c].key
    PROVE  nvs'[j] = nvs[j] /\ config_data'[j] = config_data[j] /\ promised'[j] = promised[j]
  <1>a. CallsOK /\ DataOK /\ call[c] # NoCall /\ Placed(call[c])
    BY SetterCalls DEF TypeInv
  <1>b. Head(call[c].todo) # "parse" => call[c].val # Invalid
    BY <1>a DEF Placed
  <1>c. Continue(c) /\ call[c].val # Invalid => promised'[j] = promised[j]
    BY <1>a, ContinueData
  <1>d. Refuse(c) => promised'[j] = promised[j]
    BY DEF Refuse
  <1>1. CASE Parse(c)
    BY <1>1, <1>c, <1>d DEF Parse, nvsVars
  <1>2. CASE SameValue(c)
    BY <1>2, <1>a, <1>b, <1>c, SucceedFacts DEF SameValue, nvsVars, At
  <1>3. CASE SetRam(c)
    BY <1>3, <1>a, <1>b, <1>c DEF SetRam, nvsVars, At, DataOK
  <1>4. CASE Apply(c)
    BY <1>4, <1>b, <1>c, <1>d DEF Apply, nvsVars, At
  <1>5. CASE Notify(c)
    BY <1>5, <1>b, <1>c DEF Notify, nvsVars, At
  <1>6. CASE Write(c)
    <2>1. UNCHANGED config_data /\ nvs'[j] = nvs[j]
      BY <1>6, <1>a DEF Write, DataOK
    <2>2. promised'[j] = promised[j]
      BY <1>6, <1>b, <1>c, <1>d DEF Write, At
    <2> QED
      BY <2>1, <2>2
  <1> QED
    BY <1>1, <1>2, <1>3, <1>4, <1>5, <1>6 DEF SetterStep

\* A setter that keeps its promise.
Kept(c) ==
    /\ call'[c] = NoCall
    /\ promised'[call[c].key] = call[c].val
    /\ nvs'[call[c].key] = Stored(Field(call[c].key, call[c].val))
    /\ config_data'[call[c].key] = Field(call[c].key, call[c].val)

\* An undisturbed call of a setter that always writes brings its value one step
\* further, or ends: without a promise, or with a promise that is kept.
LEMMA SetterBrings ==
    ASSUME TypeInv, NEW c \in Callers, SetterStep(c), call[c].key \notin FlagKeys,
           ~call[c].disturbed, Brought(c)
    PROVE  /\ call'[c] = NoCall \/ Brought(c)'
           /\ Kept(c) \/ promised'[call[c].key] = promised[call[c].key]
  <1> DEFINE r == call[c]
             k == r.key
             t == r.todo
  <1>a. CallsOK /\ DataOK /\ r # NoCall /\ Placed(r) /\ r \in CallType
    BY SetterCalls DEF TypeInv
  <1>b. Head(t) # "parse" => r.val # Invalid
    BY <1>a DEF Placed
  <1>c. k \in KeySet /\ t \in Todos /\ (k \in IpKeys => t \in AddressTodos)
    BY <1>a DEF Placed
  <1>d. ASSUME Continue(c), Len(t) # 1
        PROVE  /\ call'[c].key = k /\ call'[c].val = r.val /\ call'[c].todo = Tail(t)
               /\ promised' = promised
    BY <1>a, <1>d, AdvanceFacts, ContinueFacts
  <1>1. CASE Parse(c)
    <2>1. t \in BeforeRam
      BY <1>1, <1>c, TodoFacts DEF Parse, At, Todos
    <2>2. Len(t) # 1 /\ Tail(t) \in BeforeRam
      BY <1>1, <2>1, TodoFacts DEF Parse, At
    <2>3. CASE r.val = Invalid
      BY <1>1, <1>a, <2>3 DEF Parse, Refuse, CallsOK
    <2>4. CASE r.val # Invalid
      <3>1. Continue(c)
        BY <1>1, <2>4 DEF Parse
      <3>2. k \in IpKeys /\ r.val # "0" => addr' = r.val
        BY <1>1, <2>4 DEF Parse
      <3> QED
        BY <3>1, <3>2, <2>2, <1>d, TodosApart DEF Brought
    <2> QED
      BY <2>3, <2>4
  <1>2. CASE SameValue(c)
    BY <1>2, <1>a DEF SameValue, At, Placed
  <1>3. CASE SetRam(c)
    <2>1. t \in BeforeRam
      BY <1>3, <1>c, TodoFacts DEF SetRam, At, Todos
    <2>2. Len(t) # 1 /\ Tail(t) \in BeforeWrite
      BY <1>3, <2>1, TodoFacts DEF SetRam, At
    <2>3. Continue(c) /\ Head(t) = "ram"
      BY <1>3 DEF SetRam, At
    <2>4. config_data'[k] = Field(k, r.val)
      <3>1. r.val \in Values(k)
        BY <1>a, <1>b, <1>c, <2>3, ValueFacts DEF Placed
      <3> QED
        BY <1>3, <1>a, <1>c, <2>3, <3>1, FieldFacts DEF SetRam, Brought, DataOK
    <2>5. Head(Tail(t)) # "ram" /\ Tail(t) \notin AfterWrite
      BY <2>2, TodoFacts, TodosApart
    <2> QED
      BY <2>2, <2>3, <2>4, <2>5, <1>d DEF Brought
  <1>4. CASE Apply(c)
    <2>1. UNCHANGED <<config_data, nvs, addr>> /\ Head(t) = "apply"
      BY <1>4 DEF Apply, At, nvsVars
    <2>2. CASE Refuse(c)
      BY <2>2, <1>a DEF Refuse, CallsOK
    <2>3. CASE Continue(c)
      <3>1. Len(t) # 1 /\ Tail(t) \notin AfterWrite
        BY <1>c, <2>1, TodoFacts, TodosApart DEF Todos
      <3>2. Tail(t) \in BeforeWrite => t \in BeforeWrite
        BY <1>c, <2>1, TodoFacts, TodosApart DEF Todos
      <3>3. k \in IpKeys => Head(Tail(t)) # "ram"
        BY <1>c, <2>1, <3>1, AddressTodoFacts
      <3> QED
        BY <2>1, <2>3, <3>1, <3>2, <3>3, <1>d DEF Brought
    <2> QED
      BY <1>4, <2>2, <2>3 DEF Apply
  <1>5. CASE Notify(c)
    <2>1. UNCHANGED <<config_data, nvs, addr>> /\ Head(t) = "notify" /\ Continue(c)
      BY <1>5 DEF Notify, At, nvsVars
    <2>2. t \notin BeforeRam
      BY <2>1, TodoFacts
    <2>3. CASE t \in BeforeWrite
      <3>1. Len(t) # 1 /\ Tail(t) \in BeforeWrite /\ Head(Tail(t)) = "write"
        BY <2>1, <2>3, TodoFacts
      <3> QED
        BY <2>1, <2>3, <3>1, <1>d, TodosApart DEF Brought
    <2>4. CASE t \in AfterWrite
      <3>1. Len(t) = 1
        BY <2>4, TodoFacts
      <3>2. call'[c] = NoCall /\ promised'[k] = r.val
        BY <1>a, <1>b, <2>1, <3>1, ContinueFacts, AdvanceFacts, SucceedFacts
      <3> QED
        BY <2>1, <2>4, <3>2 DEF Brought, Kept
    <2> QED
      BY <1>c, <2>2, <2>3, <2>4 DEF Todos
  <1>6. CASE Write(c)
    <2>1. UNCHANGED <<config_data, addr>> /\ Head(t) = "write"
      BY <1>6 DEF Write, At
    <2>2. t \in BeforeWrite
      BY <1>c, <2>1, TodoFacts DEF Todos
    <2>3. CASE Refuse(c)
      BY <2>3, <1>a DEF Refuse, CallsOK
    <2>4. CASE nvs' = [nvs EXCEPT ![k] = Stored(config_data[k])] /\ Continue(c)
      <3>1. config_data[k] = Field(k, r.val) /\ nvs'[k] = Stored(Field(k, r.val))
        BY <1>a, <1>c, <2>2, <2>4 DEF Brought, DataOK
      <3>2. CASE Len(t) = 1
        <4>1. call'[c] = NoCall /\ promised'[k] = r.val
          BY <1>a, <1>b, <2>1, <2>4, <3>2, ContinueFacts, AdvanceFacts, SucceedFacts
        <4> QED
          BY <2>1, <3>1, <4>1 DEF Kept
      <3>3. CASE Len(t) # 1
        <4>1. Tail(t) \in AfterWrite /\ Head(Tail(t)) = "notify"
          BY <2>1, <2>2, <3>3, TodoFacts
        <4> QED
          BY <2>1, <2>4, <3>1, <3>3, <4>1, <1>d DEF Brought
      <3> QED
        BY <3>2, <3>3
    <2>5. CASE /\ call' = [call EXCEPT ![c].tries = @ + 1] /\ UNCHANGED <<promised, nvs>>
               /\ r.tries < FLASH_WRITE_RETRY_COUNT
      <3>1. call'[c] = Retried(r)
        BY <1>a, <2>5 DEF Retried, CallsOK
      <3>2. call'[c].key = k /\ call'[c].val = r.val /\ call'[c].todo = t
        BY <1>a, <2>5, <3>1, RetriedFacts
      <3> QED
        BY <2>1, <2>5, <3>2 DEF Brought
    <2> QED
      BY <1>6, <2>3, <2>4, <2>5 DEF Write
  <1> QED
    BY <1>1, <1>2, <1>3, <1>4, <1>5, <1>6 DEF SetterStep

\* Between boots there is no call.
LEMMA QuietCalls ==
    ASSUME NEW K, K \subseteq KeySet, \A c \in Callers : call'[c] = NoCall
    PROVE  /\ \A c \in Callers : call'[c].key \notin K
           /\ \A k \in K : \A c \in Callers : call'[c].key # k
  BY NoCallFacts, KeyFacts

\* Every step keeps what is known of the calls nobody disturbed and of the promises.
LEMMA PromiseStep ==
    ASSUME NEW K, K \subseteq Written,
           TypeInv, BootInv, PromiseInv(K), [Next]_vars
    PROVE  PromiseInv(K)'
  <1>a. CallsOK /\ DataOK /\ StateOK
    BY DEF TypeInv
  <1>b. K \subseteq KeySet /\ \A k \in K : k \notin FlagKeys
    BY DEF Written
  <1>c. \A k \in K : promised[k] \notin {NoPromise, Empty} => PromiseOf(k)
    BY DEF PromiseInv
  \* Steps of the boot, and a restart: nobody is calling.
  <1>1. ASSUME \A c \in Callers : call'[c] = NoCall,
               \A k \in K : promised'[k] \notin {NoPromise, Empty} =>
                  /\ promised'[k] = promised[k] /\ nvs'[k] = nvs[k]
                  /\ phase' \in {"load", "up"} /\ config_use_fs' /\ k \in Loaded' =>
                        config_data'[k] = Field(k, promised[k])
        PROVE  PromiseInv(K)'
    <2>1. \A k \in K : promised'[k] \notin {NoPromise, Empty} =>
             /\ nvs'[k] = Field(k, promised'[k])
             /\ phase' \in {"load", "up"} /\ config_use_fs' /\ k \in Loaded' =>
                        config_data'[k] = Field(k, promised'[k])
      BY <1>1, <1>c DEF PromiseOf
    <2>2. /\ \A c \in Callers : call'[c].key \notin K
          /\ \A k \in K : \A c \in Callers : call'[c].key # k
      BY <1>1, <1>b, QuietCalls
    <2> QED
      BY <2>1, <2>2 DEF PromiseInv, PromiseOf
  <1>2. CASE fs_init
    <2>1. \A c \in Callers : call'[c] = NoCall
      BY <1>2 DEF fs_init, BootInv
    <2> QED
      BY <1>1, <1>2, <2>1 DEF fs_init, ghostVars
  <1>3. CASE CheckVersion \/ CreateVersion
    <2>1. (\A c \in Callers : call'[c] = NoCall) /\ loaded' = 0
      BY <1>3 DEF CheckVersion, CreateVersion, BootInv
    <2>2. Loaded' = {}
      BY <2>1 DEF Loaded
    <2>3. \/ UNCHANGED <<nvs, promised>>
          \/ promised' = [k \in KeySet |-> NoPromise]
          \/ ClearFails
      BY <1>3 DEF CheckVersion, CreateVersion, nvsVars, ghostVars
    <2>4. \A k \in K : promised'[k] \notin {NoPromise, Empty} =>
             promised'[k] = promised[k] /\ nvs'[k] = nvs[k]
      <3>1. CASE UNCHANGED <<nvs, promised>>
        BY <3>1
      <3>2. CASE promised' = [k \in KeySet |-> NoPromise]
        BY <3>2, <1>b
      <3>3. CASE ClearFails
        BY <3>3, <1>a, <1>b, ClearFailsData
      <3> QED
        BY <2>3, <3>1, <3>2, <3>3
    <2> QED
      BY <1>1, <2>1, <2>2, <2>4
  <1>4. CASE LoadField
    <2> DEFINE j == Keys[loaded + 1]
    <2>1. j \in KeySet /\ Loaded' = Loaded \cup {j}
      BY <1>4, <1>a, LoadKey, LoadedGrows
    <2>2. /\ \A c \in Callers : call'[c] = NoCall
          /\ phase = "load" /\ UNCHANGED <<phase, config_use_fs>>
      BY <1>4 DEF LoadField, BootInv
    <2>3. \A k \in KeySet \ {j} :
             nvs'[k] = nvs[k] /\ config_data'[k] = config_data[k] /\ promised'[k] = promised[k]
      BY <1>4, <1>a, <2>1 DEF LoadField, DataOK
    <2>4. ASSUME j \in K, promised'[j] \notin {NoPromise, Empty}
          PROVE  /\ promised'[j] = promised[j] /\ nvs'[j] = nvs[j]
                 /\ config_use_fs' => config_data'[j] = Field(j, promised[j])
      <3>1. promised'[j] = promised[j]
        BY <1>4, <1>a, <2>1, <2>4 DEF LoadField, DataOK
      <3>2. nvs[j] = Field(j, promised[j]) /\ nvs[j] # Absent
        <4>1. promised[j] \in Values(j) /\ nvs[j] = Field(j, promised[j])
          BY <2>1, <2>4, <3>1, <1>a, <1>c DEF PromiseOf, DataOK
        <4> QED
          BY <2>1, <4>1, FieldFacts, ValueFacts
      <3>3. CASE Readable(j)
        <4>1. config_data' = [config_data EXCEPT ![j] = nvs[j]] /\ UNCHANGED nvs
          BY <1>4, <1>a, <2>1, <2>4, <3>3 DEF LoadField, DataOK
        <4> QED
          BY <1>a, <2>1, <3>1, <3>2, <4>1 DEF DataOK
      <3>4. CASE ~Readable(j)
        <4>1. ~ConfigUsable
          BY <3>2, <3>4 DEF Readable
        <4>2. UNCHANGED nvs /\ ~config_use_fs
          BY <1>4, <2>2, <3>4, <4>1 DEF LoadField, BootInv, ConfigUsable
        <4> QED
          BY <2>2, <3>1, <4>2
      <3> QED
        BY <3>3, <3>4
    <2>5. ASSUME NEW k \in K, promised'[k] \notin {NoPromise, Empty}
          PROVE  /\ promised'[k] = promised[k] /\ nvs'[k] = nvs[k]
                 /\ config_use_fs' /\ k \in Loaded' => config_data'[k] = Field(k, promised[k])
      <3>1. CASE k = j
        BY <2>4, <2>5, <3>1
      <3>2. CASE k # j
        BY <1>b, <1>c, <2>1, <2>2, <2>3, <2>5, <3>2 DEF PromiseOf
      <3> QED
        BY <3>1, <3>2
    <2> QED
      BY <1>1, <2>2, <2>5
  <1>5. CASE BootFinished
    <2>1. /\ \A c \in Callers : call'[c] = NoCall
          /\ UNCHANGED <<nvs, promised, config_data, config_use_fs, Loaded>> /\ phase = "load"
      BY <1>5 DEF BootFinished, BootInv, ramVars, nvsVars, Loaded
    <2> QED
      BY <1>1, <1>c, <2>1 DEF PromiseOf
  <1>6. CASE Restart
    <2>1. (\A c \in Callers : call'[c] = NoCall) /\ phase' = "off" /\ UNCHANGED <<nvs, promised>>
      BY <1>6 DEF Restart, ghostVars
    <2> QED
      BY <1>1, <2>1
  \* Steps between boots.
  <1>7. ASSUME NEW c \in Callers, NEW j \in KeySet, NEW v \in Arguments(j), Call(c, j, v)
        PROVE  PromiseInv(K)'
    <2>1. UNCHANGED <<nvs, config_data, addr, phase, config_use_fs, Loaded>>
      BY <1>7 DEF Call, ramVars, nvsVars, bootVars, Loaded
    <2>2. /\ promised'[j] = NoPromise
          /\ \A k \in KeySet \ {j} : promised'[k] = promised[k]
      BY <1>7, <1>a DEF Call, DataOK
    <2>3. PICK b \in BOOLEAN : /\ call'[c] = Fresh(j, v, b)
                               /\ ~b => \A d \in Callers : ~Rivals(call[d].key, j)
      BY <1>7, <1>a, CallFacts
    <2>4. \A d \in Callers \ {c} :
             /\ call'[d].key = call[d].key /\ call'[d].val = call[d].val
             /\ call'[d].todo = call[d].todo
             /\ ~call'[d].disturbed => ~call[d].disturbed
             /\ Rivals(call[d].key, j) => call'[d].disturbed
      BY <1>7, <1>a, CallFacts
    <2>5. call'[c].key = j /\ call'[c].val = v /\ call'[c].todo = Setter[j]
      BY <2>3, FreshFacts
    <2>6. call'[c].disturbed = b
      BY <2>3, FreshFacts
    <2>7. ASSUME NEW d \in Callers, call'[d].key \in K, ~call'[d].disturbed
          PROVE  (Alone(d) /\ Brought(d))'
      <3>1. CASE d = c
        <4>1. \A e \in Callers \ {d} : ~Rivals(call'[e].key, call'[d].key)
          BY <2>3, <2>4, <2>5, <2>6, <2>7, <3>1
        <4>2. /\ Setter[j] \in BeforeRam
              /\ j \in IpKeys => Head(Setter[j]) = "parse"
          BY SetterFacts
        <4> QED
          BY <2>5, <3>1, <4>1, <4>2, TodosApart DEF Alone, Brought
      <3>2. CASE d # c
        <4>1. Alone(d) /\ Brought(d) /\ ~Rivals(call[d].key, j)
          BY <2>4, <2>7, <3>2 DEF PromiseInv
        <4>2. \A e \in Callers \ {d} : ~Rivals(call'[e].key, call'[d].key)
          BY <2>4, <2>5, <3>2, <4>1 DEF Alone, Rivals
        <4> QED
          BY <2>1, <2>4, <3>2, <4>1, <4>2 DEF Alone, Brought
      <3> QED
        BY <3>1, <3>2
    <2>8. ASSUME NEW k \in K, promised'[k] \notin {NoPromise, Empty}
          PROVE  PromiseOf(k)'
      <3>1. k # j /\ promised'[k] = promised[k]
        BY <1>b, <2>2, <2>8
      <3>2. PromiseOf(k)
        BY <1>c, <2>8, <3>1
      <3>3. \A d \in Callers : call'[d].key # k
        BY <2>4, <2>5, <3>1, <3>2 DEF PromiseOf
      <3> QED
        BY <2>1, <3>1, <3>2, <3>3 DEF PromiseOf
    <2> QED
      BY <2>7, <2>8 DEF PromiseInv
  <1>8. ASSUME NEW c \in Callers, SetterStep(c)
        PROVE  PromiseInv(K)'
    <2> DEFINE j == call[c].key
    <2>1. UNCHANGED <<phase, config_use_fs, Loaded>>
      BY <1>8, SetterFrame DEF bootVars, Loaded
    <2>2. /\ \A d \in Callers \ {c} : call'[d] = call[d]
          /\ call[c] # NoCall /\ Placed(call[c]) /\ call[c] \in CallType
          /\ j \in KeySet
      BY <1>8, <1>a, SetterCalls DEF Placed
    <2>3. call'[c] = NoCall \/ (call'[c].key = j /\ call'[c].disturbed = call[c].disturbed)
      <3>1. \/ call'[c] = NoCall
            \/ call'[c] = Advanced(call[c]) /\ Tail(call[c].todo) \in Todos
            \/ call'[c] = Retried(call[c]) /\ call[c].tries < FLASH_WRITE_RETRY_COUNT
        BY <1>8, <1>a, SetterCalls
      <3> QED
        BY <2>2, <3>1, AdvancedFacts, RetriedFacts
    <2>4. \A k \in KeySet \ {j} :
             nvs'[k] = nvs[k] /\ config_data'[k] = config_data[k] /\ promised'[k] = promised[k]
      BY <1>8, SetterOthers
    <2>5. addr' = addr \/ j \in IpKeys
      <3>1. CASE Parse(c)
        BY <3>1 DEF Parse
      <3>2. CASE SameValue(c) \/ SetRam(c) \/ Apply(c) \/ Notify(c) \/ Write(c)
        BY <3>2 DEF SameValue, SetRam, Apply, Notify, Write
      <3> QED
        BY <1>8, <3>1, <3>2 DEF SetterStep
    <2>6. ASSUME j \in K, ~call[c].disturbed
          PROVE  /\ Alone(c)
                 /\ call'[c] = NoCall \/ Brought(c)'
                 /\ Kept(c) \/ promised'[j] = promised[j]
      <3>1. Alone(c) /\ Brought(c) /\ j \notin FlagKeys
        BY <1>b, <2>6 DEF PromiseInv
      <3> QED
        BY <1>8, <2>6, <3>1, SetterBrings
    <2>7. ASSUME j \in K, call[c].disturbed
          PROVE  promised'[j] = promised[j]
      <3>1. Refuse(c) \/ Succeed(c) \/ Continue(c) \/ UNCHANGED promised
        BY <1>8 DEF SetterStep, Parse, SameValue, SetRam, Apply, Notify, Write
      <3>2. Continue(c) => UNCHANGED promised \/ Succeed(c)
        BY <1>a, <2>2, ContinueFacts
      <3> QED
        BY <2>7, <3>1, <3>2 DEF Refuse, Succeed
    <2>8. ASSUME NEW d \in Callers, call'[d].key \in K, ~call'[d].disturbed
          PROVE  (Alone(d) /\ Brought(d))'
      <3>1. CASE d = c
        <4>1. call'[c] # NoCall
          BY <1>b, <2>8, <3>1, NoCallFacts, KeyFacts
        <4>2. j \in K /\ ~call[c].disturbed /\ call'[c].key = j
          BY <2>3, <2>8, <3>1, <4>1
        <4>3. Alone(c) /\ Brought(c)'
          BY <2>6, <4>1, <4>2
        <4> QED
          BY <2>2, <3>1, <4>2, <4>3 DEF Alone
      <3>2. CASE d # c
        <4>1. call'[d] = call[d] /\ Alone(d) /\ Brought(d)
          BY <2>2, <2>8, <3>2 DEF PromiseInv
        <4>2. ~Rivals(j, call[d].key)
          BY <3>2, <4>1 DEF Alone
        <4>3. \A e \in Callers \ {d} : ~Rivals(call'[e].key, call'[d].key)
          <5>1. call'[c].key \in {"", j} /\ "" \notin IpKeys /\ call[d].key # ""
            BY <1>b, <2>3, <2>8, <4>1, NoCallFacts, KeyFacts DEF IpKeys
          <5>2. ~Rivals(call'[c].key, call[d].key)
            BY <4>2, <5>1 DEF Rivals
          <5> QED
            BY <2>2, <4>1, <5>2 DEF Alone
        <4>4. call[d].key \in IpKeys => addr' = addr
          BY <2>5, <4>2 DEF Rivals
        <4>5. call[d].key \in KeySet \ {j}
          BY <1>b, <2>8, <4>1, <4>2 DEF Rivals
        <4> QED
          BY <2>4, <4>1, <4>3, <4>4, <4>5 DEF Alone, Brought
      <3> QED
        BY <3>1, <3>2
    <2>9. ASSUME NEW k \in K, promised'[k] \notin {NoPromise, Empty}
          PROVE  PromiseOf(k)'
      <3>1. CASE promised'[k] = promised[k]
        <4>1. PromiseOf(k)
          BY <1>c, <2>9, <3>1
        <4>2. k # j /\ k \in KeySet /\ k # ""
          BY <1>b, <4>1, KeyFacts DEF PromiseOf
        <4>3. \A d \in Callers : call'[d].key # k
          BY <2>2, <2>3, <4>1, <4>2, NoCallFacts DEF PromiseOf
        <4> QED
          BY <2>1, <2>4, <3>1, <4>1, <4>2, <4>3 DEF PromiseOf
      <3>2. CASE promised'[k] # promised[k]
        <4>1. k = j
          BY <1>b, <2>4, <3>2
        <4>2. Alone(c) /\ Kept(c)
          BY <2>6, <2>7, <3>2, <4>1
        <4>3. \A d \in Callers : call'[d].key # k
          <5>1. call'[c].key = "" /\ k # ""
            BY <1>b, <4>2, NoCallFacts, KeyFacts DEF Kept
          <5>2. \A d \in Callers \ {c} : call'[d].key # k
            BY <2>2, <4>1, <4>2 DEF Alone, Rivals
          <5> QED
            BY <5>1, <5>2
        <4>4. nvs'[k] = Field(k, promised'[k]) /\ config_data'[k] = Field(k, promised'[k])
          <5>1. /\ promised'[k] = call[c].val
                /\ nvs'[k] = Stored(Field(k, promised'[k]))
                /\ config_data'[k] = Field(k, promised'[k])
            BY <4>1, <4>2 DEF Kept
          <5>2. promised'[k] \in Values(k)
            BY <1>8, <1>a, <1>b, <2>9, SetterDataOK DEF DataOK
          <5>3. Field(k, promised'[k]) # Empty
            BY <1>b, <2>9, <5>2, FieldFacts
          <5> QED
            BY <5>1, <5>3 DEF Stored
        <4> QED
          BY <4>3, <4>4 DEF PromiseOf
      <3> QED
        BY <3>1, <3>2
    <2> QED
      BY <2>8, <2>9 DEF PromiseInv
  <1>9. CASE config_clear \/ ConfigClearError
    <2>1. CallsCleared /\ UNCHANGED <<config_data, config_use_fs, phase, Loaded>>
      BY <1>9 DEF config_clear, ConfigClearError, ramVars, bootVars, Loaded
    <2>2. \A d \in Callers :
             call'[d].key = call[d].key /\ (call[d].key \in KeySet => call'[d].disturbed)
      BY <1>a, <2>1, ClearedFacts
    <2>3. \A k \in K : promised'[k] \notin {NoPromise, Empty} =>
             promised'[k] = promised[k] /\ nvs'[k] = nvs[k]
      <3>1. CASE config_clear
        BY <3>1, <1>b DEF config_clear
      <3>2. CASE ConfigClearError
        BY <3>2, <1>a, <1>b, ClearFailsData DEF ConfigClearError
      <3> QED
        BY <1>9, <3>1, <3>2
    <2>4. \A d \in Callers : call'[d].key \in K => call'[d].disturbed
      BY <1>b, <2>2
    <2>5. ASSUME NEW k \in K, promised'[k] \notin {NoPromise, Empty}
          PROVE  PromiseOf(k)'
      BY <1>c, <2>1, <2>2, <2>3, <2>5 DEF PromiseOf
    <2> QED
      BY <2>4, <2>5 DEF PromiseInv
  <1>10. CASE fs_exit \/ UNCHANGED vars
    <2>1. UNCHANGED <<config_data, config_use_fs, addr, nvs, promised, call, phase, Loaded>>
      BY <1>10 DEF fs_exit, vars, ramVars, nvsVars, bootVars, ghostVars, Loaded
    <2> QED
      BY <2>1 DEF PromiseInv, PromiseOf, Alone, Brought
  <1> QED
    BY <1>2, <1>3, <1>4, <1>5, <1>6, <1>7, <1>8, <1>9, <1>10 DEF Next

\* Nothing is promised at first.
LEMMA PromiseInit == \A K \in SUBSET KeySet : Init => PromiseInv(K)
  <1> SUFFICES ASSUME NEW K \in SUBSET KeySet, Init PROVE PromiseInv(K)
    OBVIOUS
  <1>1. \A c \in Callers : call[c].key \notin K
    BY NoCallFacts, KeyFacts DEF Init
  <1>2. \A k \in K : promised[k] = NoPromise
    BY DEF Init
  <1> QED
    BY <1>1, <1>2 DEF PromiseInv

\* A promise, but for an empty string, which deletes the record.
Promised(k) == promised[k] \notin {NoPromise, Empty}

\* A setting whose setter returned 0 is in flash, and in RAM after any number of
\* restarts, as far as it fits its field.
KeptFor(K) ==
    \A k \in K : Promised(k) =>
        /\ nvs[k] = Field(k, promised[k])
        /\ phase = "up" /\ config_use_fs => config_data[k] = Field(k, promised[k])

\* What the invariant says of a promise is what the properties ask of it.
LEMMA PromiseKept ==
    ASSUME NEW K \in SUBSET KeySet, TypeInv, BootInv, PromiseInv(K)
    PROVE  KeptFor(K)
  <1>1. phase = "up" => Loaded = KeySet
    BY LoadedKeys DEF BootInv, TypeInv
  <1> QED
    BY <1>1 DEF PromiseInv, PromiseOf, KeptFor, Promised

\* Whichever strings, empty ones too, the callers pass: an address, host name, NTP
\* server or password that is not empty and whose setter returned 0 while no other
\* thread was setting the same one, or a second address, is in flash, and is what the
\* BMC uses after any number of restarts, cut to the length of its field (strlcpy,
\* config.c:199, 536), whatever failed and whatever else was set at the same time
\* (config.c:191-606, 753-851).
THEOREM SettingsKept == Spec => []KeptFor(Written)
  <1> DEFINE P == PromiseInv(Written)
  <1>0. Written \in SUBSET KeySet
    BY DEF Written
  <1>1. Init => P
    BY <1>0, PromiseInit
  <1>2. TypeInv /\ BootInv /\ P /\ [Next]_vars => P'
    BY PromiseStep
  <1>3. TypeInv /\ BootInv /\ P => KeptFor(Written)
    BY <1>0, PromiseKept
  <1> QED
    BY <1>1, <1>2, <1>3, ConfigInductive, PTL DEF Spec

\* Without empty strings nothing empty is promised.
LEMMA NonEmptyStep ==
    ASSUME AllowEmpty = FALSE
    PROVE  TypeInv /\ (\A k \in KeySet : promised[k] # Empty) /\ [Next]_vars
              => (\A k \in KeySet : promised[k] # Empty)'
  <1> SUFFICES ASSUME TypeInv, \A k \in KeySet : promised[k] # Empty, [Next]_vars,
                      NEW k \in KeySet
               PROVE  promised'[k] # Empty
    OBVIOUS
  <1>a. CallsOK /\ DataOK /\ StateOK
    BY DEF TypeInv
  <1>b. NoPromise # Empty
    BY DEF NoPromise, Empty
  <1>1. CASE fs_init \/ CreateVersion \/ BootFinished \/ fs_exit \/ Restart \/ UNCHANGED vars
    BY <1>1 DEF fs_init, CreateVersion, BootFinished, fs_exit, Restart, vars, ghostVars
  <1>2. CASE CheckVersion
    <2>1. \/ UNCHANGED promised
          \/ promised' = [j \in KeySet |-> NoPromise]
          \/ ClearFails
      BY <1>2 DEF CheckVersion, ghostVars
    <2> QED
      BY <1>a, <1>b, <2>1, ClearFailsData
  <1>3. CASE LoadField
    <2>1. promised' = promised \/ promised' = [promised EXCEPT ![Keys[loaded + 1]] = NoPromise]
      BY <1>3 DEF LoadField
    <2> QED
      BY <1>a, <1>b, <2>1 DEF DataOK
  <1>4. ASSUME NEW c \in Callers, NEW j \in KeySet, NEW v \in Arguments(j), Call(c, j, v)
        PROVE  promised'[k] # Empty
    BY <1>4, <1>a, <1>b DEF Call, DataOK
  <1>5. ASSUME NEW c \in Callers, SetterStep(c)
        PROVE  promised'[k] # Empty
    <2>1. call[c] # NoCall /\ Placed(call[c]) /\ call[c].key \in KeySet
      BY <1>5, <1>a, SetterCalls DEF Placed
    <2>2. call[c].val # Empty
      <3>1. \A j \in KeySet : Empty \notin Arguments(j)
        BY ConfigAssumption, KeyFacts, Zenon
           DEF ConfigAssumption, Arguments, FlagKeys, IpKeys, StrKeys, Absent, NoPromise, Empty,
               Invalid
      <3> QED
        BY <2>1, <3>1 DEF Placed
    <2>3. Refuse(c) \/ Succeed(c) \/ Continue(c) \/ UNCHANGED promised
      BY <1>5 DEF SetterStep, Parse, SameValue, SetRam, Apply, Notify, Write
    <2>4. Continue(c) => UNCHANGED promised \/ Succeed(c)
      BY <1>a, <2>1, ContinueFacts
    <2>5. Succeed(c) => promised' = promised \/ promised' = [promised EXCEPT ![call[c].key] = call[c].val]
      BY DEF Succeed
    <2> QED
      BY <1>a, <2>2, <2>3, <2>4, <2>5 DEF Refuse, DataOK
  <1>6. CASE config_clear \/ ConfigClearError
    <2>1. promised' = [j \in KeySet |-> NoPromise] \/ ClearFails
      BY <1>6 DEF config_clear, ConfigClearError
    <2> QED
      BY <1>a, <1>b, <2>1, ClearFailsData
  <1> QED
    BY <1>1, <1>2, <1>3, <1>4, <1>5, <1>6 DEF Next

\* Without empty strings no promise is empty.
LEMMA NonEmpty ==
    ASSUME AllowEmpty = FALSE
    PROVE  Spec => [](\A k \in KeySet : promised[k] # Empty)
  <1>1. Init => \A k \in KeySet : promised[k] # Empty
    BY DEF Init, NoPromise, Empty
  <1> QED
    BY <1>1, NonEmptyStep, ConfigInductive, PTL DEF Spec

\* Every setting a setter that writes returned 0 for, and that nobody disturbed, is in
\* flash as far as it fits its field, whatever failed and whoever else was setting
\* something ("Persistent Configuration: Settings stored across reboots",
\* README.md:18), if no caller passes an empty string: config_write_str then deletes
\* the record (config.c:125-128).
THEOREM DurableSafe ==
    ASSUME AllowEmpty = FALSE
    PROVE  Spec => []Durable
  <1>1. KeptFor(Written) /\ (\A k \in KeySet : promised[k] # Empty) => Durable
    BY DEF KeptFor, Promised, Durable, Written
  <1> QED
    BY <1>1, SettingsKept, NonEmpty, PTL

\* Under the same assumption the BMC uses the promised value, as far as it fits its
\* field, after any number of restarts, as long as the flash can be used
\* (config_init, config.c:753-851).
THEOREM ReloadedSafe ==
    ASSUME AllowEmpty = FALSE
    PROVE  Spec => []Reloaded
  <1>1. KeptFor(Written) /\ (\A k \in KeySet : promised[k] # Empty) => Reloaded
    BY DEF KeptFor, Promised, Reloaded, Written
  <1> QED
    BY <1>1, SettingsKept, NonEmpty, PTL

-----------------------------------------------------------------------------
(* Retries.                                                                *)

\* The number of tries is a number.
LEMMA TriesType == ASSUME NEW r \in CallType PROVE r.tries \in Nat
  <1>1. r.tries \in 0..FLASH_WRITE_RETRY_COUNT
    BY Zenon DEF CallType
  <1> QED
    BY <1>1 DEF FLASH_WRITE_RETRY_COUNT

\* A write is retried only after an error of its own (fs.c:147-151).
LEMMA TryStep == TypeInv /\ TryInv /\ [Next]_vars => TryInv'
  <1> SUFFICES ASSUME TypeInv, TryInv, [Next]_vars, NEW d \in Callers
               PROVE  call'[d].tries <= errors'
    BY DEF TryInv
  <1>a. CallsOK /\ DataOK /\ StateOK /\ errors \in Nat
    BY DEF TypeInv, StateOK
  <1>b. call[d].tries \in Nat /\ call[d].tries <= errors
    BY <1>a, BusyFacts, TriesType DEF TryInv
  <1>c. errors' = errors \/ errors' = errors + 1
    <2>1. ASSUME NEW c \in Callers, SetterStep(c)
          PROVE  errors' = errors \/ errors' = errors + 1
      BY <2>1, SetterFrame
    <2>2. CASE \/ fs_init \/ CheckVersion \/ CreateVersion \/ LoadField \/ BootFinished
               \/ config_clear \/ ConfigClearError \/ fs_exit \/ Restart
      BY <2>2
         DEF fs_init, CheckVersion, CreateVersion, LoadField, BootFinished, config_clear,
             ConfigClearError, ClearFails, Fail, fs_exit, Restart, countVars
    <2>3. ASSUME NEW c \in Callers, NEW k \in KeySet, NEW v \in Arguments(k), Call(c, k, v)
          PROVE  errors' = errors
      BY <2>3 DEF Call
    <2>4. CASE UNCHANGED vars
      BY <2>4 DEF vars, countVars
    <2> QED
      BY <2>1, <2>2, <2>3, <2>4 DEF Next
  <1>1. CASE call'[d].tries \in {0, call[d].tries}
    BY <1>1, <1>a, <1>b, <1>c
  <1>2. ASSUME NEW c \in Callers, SetterStep(c)
        PROVE  call'[d].tries <= errors'
    <2>1. CASE d # c
      BY <1>1, <1>2, <1>a, <2>1, SetterCalls
    <2>2. CASE d = c
      <3>1. call[c] \in CallType /\ Placed(call[c])
        BY <1>2, <1>a, SetterCalls
      <3>2. CASE call'[c] = NoCall
        BY <1>1, <2>2, <3>2, NoCallFacts
      <3>3. CASE call'[c] = Advanced(call[c]) /\ Tail(call[c].todo) \in Todos
        BY <1>1, <2>2, <3>1, <3>3, AdvancedFacts
      <3>4. CASE /\ call'[c] = Retried(call[c]) /\ call[c].tries < FLASH_WRITE_RETRY_COUNT
                 /\ errors' = errors + 1
        <4>1. call'[c].tries = call[c].tries + 1
          BY <3>1, <3>4, RetriedFacts
        <4> QED
          BY <1>a, <1>b, <2>2, <3>4, <4>1
      <3> QED
        BY <1>2, <1>a, <3>2, <3>3, <3>4, SetterCalls
    <2> QED
      BY <2>1, <2>2
  <1>3. ASSUME NEW c \in Callers, NEW k \in KeySet, NEW v \in Arguments(k), Call(c, k, v)
        PROVE  call'[d].tries <= errors'
    <2>1. call'[d].tries \in {0, call[d].tries}
      <3>1. CASE d # c
        BY <1>3, <1>a, <3>1, CallFacts
      <3>2. CASE d = c
        BY <1>3, <1>a, <3>2, CallFacts, FreshFacts
      <3> QED
        BY <3>1, <3>2
    <2> QED
      BY <1>1, <2>1
  <1>4. CASE config_clear \/ ConfigClearError
    BY <1>1, <1>4, <1>a, ClearedFacts DEF config_clear, ConfigClearError
  <1>5. CASE Restart
    BY <1>1, <1>5, NoCallFacts DEF Restart
  <1>6. CASE \/ fs_init \/ CheckVersion \/ CreateVersion \/ LoadField \/ BootFinished
             \/ fs_exit \/ UNCHANGED vars
    BY <1>1, <1>6
       DEF fs_init, CheckVersion, CreateVersion, LoadField, BootFinished, fs_exit, vars
  <1> QED
    BY <1>2, <1>3, <1>4, <1>5, <1>6 DEF Next

\* If the flash fails with EIO only, a setter that ends at its write while the flash
\* can be used has saved what is in RAM, unless there were more errors than
\* FLASH_WRITE_RETRY_COUNT since power-up ("Try to work around it by retrying write
\* EIO fails", fs.c:20): whoever gives up has counted three errors of its own before
\* the last one, and no step of another thread can end its call.
THEOREM RetryHidesSafe ==
    ASSUME FlashErrors \subseteq {"EIO"}
    PROVE  Spec => RetryHides
  <1> DEFINE Saved(c) == At(c, "write") /\ ConfigUsable /\ call'[c] = NoCall /\ phase' = "up"
                         /\ errors' <= 3
                         => nvs'[call[c].key] = Stored(config_data[call[c].key])
  <1>1. Init => TryInv
    <2> SUFFICES ASSUME Init, NEW c \in Callers PROVE call[c].tries <= errors
      BY DEF TryInv
    <2>1. call[c].tries = 0 /\ errors = 0
      BY NoCallFacts DEF Init
    <2> QED
      BY <2>1
  <1>2. TypeInv /\ TryInv /\ [Next]_vars => [\A c \in Callers : Saved(c)]_vars
    <2> SUFFICES ASSUME TypeInv, TryInv, Next, NEW c \in Callers, At(c, "write"), ConfigUsable,
                        call'[c] = NoCall, phase' = "up", errors' <= 3
                 PROVE  nvs'[call[c].key] = Stored(config_data[call[c].key])
      OBVIOUS
    <2>a. CallsOK /\ DataOK /\ StateOK /\ errors \in Nat
      BY DEF TypeInv, StateOK
    <2>b. phase = "up" /\ call[c] # NoCall /\ Placed(call[c]) /\ call[c].key \in KeySet
      BY <2>a, BusyFacts DEF At, Placed
    <2>c. call'[c] # call[c] /\ call'[c].key # call[c].key
      BY <2>b, NoCallFacts, KeyFacts
    <2>d. call[c].tries \in Nat /\ call[c].tries <= errors
      BY <2>a, BusyFacts, TriesType DEF TryInv
    <2>1. CASE SetterStep(c)
      <3>1. Write(c)
        BY <2>1 DEF SetterStep, Parse, SameValue, SetRam, Apply, Notify, At
      <3>2. CASE nvs' = [nvs EXCEPT ![call[c].key] = Stored(config_data[call[c].key])]
        BY <2>a, <2>b, <3>2 DEF DataOK
      <3>3. CASE /\ errors' = errors + 1
                 /\ \E e \in FlashErrors :
                      IF e = "EIO" /\ call[c].tries < FLASH_WRITE_RETRY_COUNT
                      THEN call' = [call EXCEPT ![c].tries = @ + 1] /\ UNCHANGED promised
                      ELSE Refuse(c)
        <4>1. call[c].tries < FLASH_WRITE_RETRY_COUNT => call' = [call EXCEPT ![c].tries = @ + 1]
          BY <3>3
        <4>2. call[c].tries < FLASH_WRITE_RETRY_COUNT => call'[c] = Retried(call[c])
          BY <2>a, <4>1 DEF Retried, CallsOK
        <4>3. ~(call[c].tries < FLASH_WRITE_RETRY_COUNT)
          BY <2>a, <2>b, <2>c, <4>2, RetriedFacts, BusyFacts
        <4> QED
          BY <2>a, <2>d, <3>3, <4>3 DEF FLASH_WRITE_RETRY_COUNT
      <3> QED
        BY <3>1, <3>2, <3>3 DEF Write, Fail
    <2>2. ASSUME NEW d \in Callers, d # c, SetterStep(d)
          PROVE  FALSE
      BY <2>2, <2>a, <2>c, SetterCalls
    <2>3. ASSUME NEW d \in Callers, NEW k \in KeySet, NEW v \in Arguments(k), Call(d, k, v)
          PROVE  FALSE
      <3>1. d # c
        BY <2>3, <2>b DEF Call
      <3> QED
        BY <2>3, <2>a, <2>c, <3>1, CallFacts
    <2>4. CASE config_clear \/ ConfigClearError
      BY <2>4, <2>a, <2>c, ClearedFacts DEF config_clear, ConfigClearError
    <2>5. CASE \/ fs_init \/ CheckVersion \/ CreateVersion \/ LoadField \/ BootFinished
               \/ fs_exit \/ Restart
      BY <2>5, <2>c
         DEF fs_init, CheckVersion, CreateVersion, LoadField, BootFinished, fs_exit, Restart
    <2> QED
      BY <2>1, <2>2, <2>3, <2>4, <2>5 DEF Next
  <1> QED
    BY <1>1, <1>2, TryStep, ConfigInductive, PTL DEF Spec, RetryHides

=============================================================================
