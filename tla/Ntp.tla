-------------------------------- MODULE Ntp ---------------------------------
(***************************************************************************)
(* Clock synchronisation (src/ntp.c) and the setters that act on it:       *)
(* whether to use NTP, and the server.  ntp_sync_work asks the server and  *)
(* schedules itself again; start_ntp and stop_ntp schedule and cancel it.  *)
(* The handler runs on the system work queue, the setters in the shell and *)
(* in the HTTP thread.                                                     *)
(*                                                                         *)
(* The delayable work item belongs to the kernel.  Cancelling it waits for *)
(* a running handler, and while it waits scheduling the item is refused.   *)
(* Initialising an item that is scheduled or running destroys the kernel's *)
(* list of timeouts (corrupt); nothing is said of what happens then.       *)
(***************************************************************************)
EXTENDS Clock

VARIABLES ntp_synced, ntp_started, ntp_interval_sec,
          work,      \* ntp_sync_work: "idle", "scheduled" or "running"
          asked,     \* the server name the running handler has read
          corrupt

ntpVars == <<ntp_synced, ntp_started, ntp_interval_sec, work, asked, corrupt>>

NtpInit ==
    /\ ntp_synced = FALSE /\ ntp_started = FALSE
    /\ ntp_interval_sec = 20
    /\ work = "idle" /\ asked = "none"
    /\ corrupt = FALSE

Canceling == \E t \in Threads : Busy(t) /\ pc[t] = "wait"

\* Scheduling an item that is being cancelled is refused, and one that waits for
\* its time stays as it is.
k_work_schedule == work' = IF Canceling THEN "idle" ELSE "scheduled"

-----------------------------------------------------------------------------
(* ntp_sync_work_handler: the interval is set before the query, which may  *)
(* take seconds.                                                           *)

SyncBegin ==
    /\ work = "scheduled"
    /\ work' = "running"
    /\ ntp_interval_sec' = 60
    /\ asked' = config_data.ntp_server
    /\ UNCHANGED <<ntp_synced, ntp_started, corrupt, clockVars, settingVars>>

\* do_sntp succeeds, up to the clocks.
SyncAnswered ==
    /\ work = "running" /\ sync = "none"
    /\ SntpSetClock
    /\ UNCHANGED <<ntpVars, settingVars>>

\* Mutation of SyncFailed: a failed attempt is not repeated.
SyncGivesUp ==
    /\ work = "running" /\ sync = "none"
    /\ work' = "idle" /\ asked' = "none"
    /\ UNCHANGED <<ntp_synced, ntp_started, ntp_interval_sec, corrupt, clockVars,
                    settingVars>>

SyncFailed ==
    /\ work = "running" /\ sync = "none"
    /\ k_work_schedule /\ asked' = "none"
    /\ UNCHANGED <<ntp_synced, ntp_started, ntp_interval_sec, corrupt, clockVars,
                    settingVars>>

\* Only the first answer lengthens the interval.
SyncEnd ==
    /\ sync = "done" /\ sync' = "none"
    /\ ntp_synced' = TRUE
    /\ ntp_interval_sec' = IF ntp_synced THEN ntp_interval_sec ELSE 6 * 60 * 60
    /\ k_work_schedule /\ asked' = "none"
    /\ UNCHANGED <<ntp_started, corrupt, has_rtc, sys_clock, rtc, tm, apart,
                    settingVars>>

ntp_sync_work_handler ==
    \/ SyncBegin \/ SyncAnswered \/ SyncFailed \/ SyncEnd
    \/ rtc_set_from_clock /\ UNCHANGED ntpVars

-----------------------------------------------------------------------------
(* start_ntp and stop_ntp, in any thread.                                  *)

AfterStart(t) == IF Cur(t).set = "use_ntp" THEN Goto(t, "write") ELSE Return(t, TRUE)
AfterStop(t) == Goto(t, IF Cur(t).set = "use_ntp" THEN "write" ELSE "start")

StartCheck(t) ==
    /\ Busy(t) /\ pc[t] = "start"
    /\ IF ntp_started THEN AfterStart(t) ELSE Goto(t, "init")
    /\ UNCHANGED <<ntpVars, clockVars, config_data, errors>>

\* k_work_init_delayable and k_work_schedule.
StartWork(t) ==
    /\ Busy(t) /\ pc[t] = "init"
    /\ corrupt' = (work # "idle" \/ Canceling)
    /\ k_work_schedule
    /\ Goto(t, "started")
    /\ UNCHANGED <<ntp_synced, ntp_started, ntp_interval_sec, asked, clockVars,
                    config_data, errors>>

StartEnd(t) ==
    /\ Busy(t) /\ pc[t] = "started"
    /\ ntp_started' = TRUE
    /\ AfterStart(t)
    /\ UNCHANGED <<ntp_synced, ntp_interval_sec, work, asked, corrupt, clockVars,
                    config_data, errors>>

start_ntp(t) == StartCheck(t) \/ StartWork(t) \/ StartEnd(t)

StopCheck(t) ==
    /\ Busy(t) /\ pc[t] = "stop"
    /\ IF ntp_started THEN Goto(t, "cancel") ELSE AfterStop(t)
    /\ UNCHANGED <<ntpVars, clockVars, config_data, errors>>

\* k_work_cancel_delayable_sync: a scheduled item is dropped, a running one
\* waited for.
Cancel(t) ==
    /\ Busy(t) /\ pc[t] = "cancel"
    /\ work' = IF work = "scheduled" THEN "idle" ELSE work
    /\ Goto(t, "wait")
    /\ UNCHANGED <<ntp_synced, ntp_started, ntp_interval_sec, asked, corrupt,
                    clockVars, config_data, errors>>

\* Mutation of Cancelled: a running handler is not waited for.
CancelNoWait(t) ==
    /\ Busy(t) /\ pc[t] = "wait"
    /\ Goto(t, "stopped")
    /\ UNCHANGED <<ntpVars, clockVars, config_data, errors>>

\* Mutation of Cancelled: the wait is for a synchronisation that succeeded.
CancelAfterSync(t) ==
    /\ Busy(t) /\ pc[t] = "wait" /\ work # "running" /\ ntp_synced
    /\ Goto(t, "stopped")
    /\ UNCHANGED <<ntpVars, clockVars, config_data, errors>>

Cancelled(t) ==
    /\ Busy(t) /\ pc[t] = "wait" /\ work # "running"
    /\ Goto(t, "stopped")
    /\ UNCHANGED <<ntpVars, clockVars, config_data, errors>>

StopEnd(t) ==
    /\ Busy(t) /\ pc[t] = "stopped"
    /\ ntp_interval_sec' = 1
    /\ ntp_started' = FALSE
    /\ AfterStop(t)
    /\ UNCHANGED <<ntp_synced, work, asked, corrupt, clockVars, config_data, errors>>

stop_ntp(t) == StopCheck(t) \/ Cancel(t) \/ Cancelled(t) \/ StopEnd(t)

-----------------------------------------------------------------------------
(* ntp_init and the setters.                                               *)

ntp_init ==
    /\ At("main", {"ntp_init"}, "begin")
    /\ IF config_data.use_ntp THEN Goto("main", "start") ELSE Return("main", TRUE)
    /\ UNCHANGED <<ntpVars, clockVars, config_data, errors>>

config_bmc_use_ntp_set(t) ==
    /\ At(t, {"use_ntp"}, "begin")
    /\ IF config_data.use_ntp = Cur(t).val
       THEN Return(t, TRUE) /\ UNCHANGED config_data
       ELSE /\ config_data' = [config_data EXCEPT !.use_ntp = Cur(t).val]
            /\ Goto(t, IF Cur(t).val THEN "start" ELSE "stop")
    /\ UNCHANGED <<ntpVars, clockVars, errors>>

\* strlcpy is not atomic: a handler that begins meanwhile reads a mixture.
CopyServer(t) ==
    /\ At(t, {"ntp_server"}, "begin")
    /\ config_data' = [config_data EXCEPT !.ntp_server = "mixture"]
    /\ Goto(t, "copied")
    /\ UNCHANGED <<ntpVars, clockVars, errors>>

CopyServerEnd(t) ==
    /\ At(t, {"ntp_server"}, "copied")
    /\ config_data' = [config_data EXCEPT !.ntp_server = Cur(t).val]
    /\ Goto(t, "write")
    /\ UNCHANGED <<ntpVars, clockVars, errors>>

\* Mutation of RestartNtp: NTP is started even if it is not in use.
RestartAlways(t) ==
    /\ At(t, {"ntp_server"}, "restart")
    /\ Goto(t, "stop")
    /\ UNCHANGED <<ntpVars, clockVars, config_data, errors>>

\* Mutation of RestartNtp: the handler is left to find out.
NoRestart(t) ==
    /\ At(t, {"ntp_server"}, "restart")
    /\ Return(t, TRUE)
    /\ UNCHANGED <<ntpVars, clockVars, config_data, errors>>

\* Once the name is written, NTP is stopped and started if it is in use.
RestartNtp(t) ==
    /\ At(t, {"ntp_server"}, "restart")
    /\ IF config_data.use_ntp THEN Goto(t, "stop") ELSE Return(t, TRUE)
    /\ UNCHANGED <<ntpVars, clockVars, config_data, errors>>

config_bmc_ntp_server_set(t) == CopyServer(t) \/ CopyServerEnd(t) \/ RestartNtp(t)

TimeSteps(t) ==
    \/ start_ntp(t) \/ stop_ntp(t)
    \/ config_bmc_use_ntp_set(t) \/ config_bmc_ntp_server_set(t)
    \/ time_set_from_iso_str(t) /\ UNCHANGED ntpVars

TimeNext ==
    \/ ntp_sync_work_handler
    \/ rtc_init /\ UNCHANGED ntpVars
    \/ ntp_init
    \/ \E t \in Threads : TimeSteps(t)

-----------------------------------------------------------------------------
(* Properties.                                                             *)

\* If no two calls overlapped: once no call is running NTP is started exactly if
\* the setting says so, whatever failed, and if it is not no synchronisation runs
\* or is due, even if the handler was in the middle of a query and about to
\* schedule itself again; nor has that handler overwritten "Wait 1 second if we
\* start again" (config.c:480-503, ntp.c:152-180).
NtpFollowsSetting ==
    Quiet /\ ~overlapped =>
        /\ ntp_started = config_data.use_ntp
        /\ ~ntp_started => work = "idle" /\ ntp_interval_sec \in {1, 20}

\* The work item is initialised only while it is neither scheduled nor running,
\* unless two calls overlapped (ntp.c:157).
InitOnlyIdle == corrupt => overlapped

\* Once a call that sets the server has returned, no handler waits for an answer
\* of the old server or of a half-copied name, unless writing the name failed or
\* two calls overlapped (config.c:532-555).
AsksCurrentServer ==
    Quiet /\ errors = 0 /\ ~overlapped /\ work = "running" => asked = config_data.ntp_server

\* While NTP is started, synchronisation is attempted again and again, unless two
\* calls overlapped (ntp.c:127-145).
KeepsSyncing == []<>(work = "running" \/ ~ntp_started \/ overlapped)

-----------------------------------------------------------------------------
(* What the code does not give; README.md says how each one fails.         *)

\* The same whoever calls when.
NtpAlwaysFollowsSetting == Quiet /\ ~corrupt => ntp_started = config_data.use_ntp

\* "1 minute sync until synced", "Upgrade to 6 hour resync" (ntp.c:129, 133):
\* while the clock is synchronised the next attempt is six hours off.
ResyncsEverySixHours ==
    ntp_synced /\ work = "scheduled" => ntp_interval_sec \in {1, 21600}

=============================================================================
