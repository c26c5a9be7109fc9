------------------------------- MODULE Clock --------------------------------
(***************************************************************************)
(* The system clock and the real-time clock (src/rtc.c).  They are set at  *)
(* boot, by the PATCH of a manager's DateTime in the HTTP thread, and by   *)
(* NTP on the system work queue; rtc_set_from_timespec keeps the broken-up *)
(* time in a static variable that the last two share.                      *)
(*                                                                         *)
(* A time is named by its milliseconds.  tm and rtc are pairs: the time    *)
(* whose date and seconds they have, and the one whose nanoseconds.        *)
(***************************************************************************)
EXTENDS Settings

Unset == -1                  \* an RTC without a time (-ENODATA)
BootTime == 0                \* what an RTC kept, or 1 January 2026
NtpTime == 7                 \* what the NTP server says

\* DateTimes of a PATCH: the digits of the fraction, none if there is no
\* fraction; "%3d" also takes a sign.
DateTimes == {<<>>, <<1, 2>>, <<0, 5>>, <<-5>>}

VARIABLES has_rtc, sys_clock, rtc,
          tm,      \* the static tm: the date and time, and tm_nsec
          sync,    \* where sntp_set_clocks is, "none" outside of it
          apart    \* history: was the last setting disturbed, or did it fail?

clockVars == <<has_rtc, sys_clock, rtc, tm, sync, apart>>

ClockInit ==
    /\ has_rtc \in BOOLEAN
    /\ sys_clock = Unset
    /\ rtc \in {<<Unset, Unset>>} \cup (IF has_rtc THEN {<<BootTime, BootTime>>} ELSE {})
    /\ tm = <<Unset, Unset>>
    /\ sync = "none" /\ apart = FALSE

Setting(t) == At(t, {"date_time"}, "nsec") \/ At(t, {"date_time"}, "rtc")
                \/ At(t, {"date_time"}, "clock")
Disturbed == sync # "none" \/ \E t \in Callers : Setting(t)

-----------------------------------------------------------------------------
\* rtc_init: an RTC that has no time starts at 1 January 2026; the system clock
\* gets the RTC's time.  An RTC that cannot be read or set ends the boot.
rtc_init ==
    /\ At("main", {"rtc_init"}, "begin")
    /\ \/ ~has_rtc /\ Return("main", TRUE) /\ UNCHANGED <<rtc, sys_clock, errors>>
       \/ /\ has_rtc
          /\ rtc' = IF rtc[1] = Unset THEN <<BootTime, BootTime>> ELSE rtc
          /\ sys_clock' = rtc'[1]
          /\ Return("main", TRUE) /\ UNCHANGED errors
       \/ has_rtc /\ MayFail /\ Fail /\ Return("main", FALSE) /\ UNCHANGED <<rtc, sys_clock>>
    /\ UNCHANGED <<has_rtc, tm, sync, apart, config_data>>

-----------------------------------------------------------------------------
(* time_set_from_iso_str: the RTC first, then the system clock.            *)

\* The number "%3d" reads.
Frac(digits) == IF Len(digits) = 1 THEN digits[1] ELSE 10 * digits[1] + digits[2]

time_iso_to_ts(digits) ==
    IF Frac(digits) < 10 THEN Frac(digits) * 100
    ELSE IF Frac(digits) < 100 THEN Frac(digits) * 10
    ELSE Frac(digits)

\* A DateTime without a fraction is refused (ret != 7), and so is any without an
\* RTC.
RefuseDateTime(t) ==
    /\ At(t, {"date_time"}, "begin")
    /\ Cur(t).val = <<>> \/ ~has_rtc
    /\ Return(t, FALSE)
    /\ UNCHANGED <<clockVars, config_data, errors>>

Asked(t) == time_iso_to_ts(Cur(t).val)

\* gmtime_r fills in the date and time.
FillTm(t) ==
    /\ At(t, {"date_time"}, "begin")
    /\ Cur(t).val # <<>> /\ has_rtc
    /\ tm' = <<Asked(t), tm[2]>>
    /\ apart' = Disturbed
    /\ Goto(t, "nsec")
    /\ UNCHANGED <<has_rtc, sys_clock, rtc, sync, config_data, errors>>

FillNsec(t) ==
    /\ At(t, {"date_time"}, "nsec")
    /\ tm' = <<tm[1], Asked(t)>>
    /\ Goto(t, "rtc")
    /\ UNCHANGED <<has_rtc, sys_clock, rtc, sync, apart, config_data, errors>>

rtc_set_time(t) ==
    /\ At(t, {"date_time"}, "rtc")
    /\ \/ rtc' = tm /\ Goto(t, "clock") /\ UNCHANGED <<apart, errors>>
       \/ MayFail /\ Fail /\ Return(t, FALSE) /\ apart' = TRUE /\ UNCHANGED rtc
    /\ UNCHANGED <<has_rtc, sys_clock, tm, sync, config_data>>

\* Mutation of sys_clock_settime: only the RTC is set.
SettimeForgotten(t) ==
    /\ At(t, {"date_time"}, "clock")
    /\ Return(t, TRUE)
    /\ UNCHANGED <<clockVars, config_data, errors>>

\* It refuses a tv_nsec below zero; the RTC has been set by then.
sys_clock_settime(t) ==
    /\ At(t, {"date_time"}, "clock")
    /\ \/ Asked(t) >= 0 /\ sys_clock' = Asked(t) /\ Return(t, TRUE) /\ UNCHANGED apart
       \/ Asked(t) < 0 /\ apart' = TRUE /\ Return(t, FALSE) /\ UNCHANGED sys_clock
    /\ UNCHANGED <<has_rtc, rtc, tm, sync, config_data, errors>>

time_set_from_iso_str(t) ==
    RefuseDateTime(t) \/ FillTm(t) \/ FillNsec(t) \/ rtc_set_time(t) \/ sys_clock_settime(t)

-----------------------------------------------------------------------------
(* sntp_set_clocks, on the work queue: the system clock first, then the    *)
(* RTC from it (rtc_set_from_clock).  The work queue's thread is           *)
(* cooperative, so that the HTTP thread gets in between only when the      *)
(* RTC's driver waits.  A failure to set the RTC is ignored.               *)

SntpSetClock ==
    /\ sys_clock' = NtpTime
    /\ IF has_rtc THEN sync' = "rtc" /\ tm' = <<NtpTime, NtpTime>>
                  ELSE sync' = "done" /\ UNCHANGED tm
    /\ apart' = Disturbed
    /\ UNCHANGED <<has_rtc, rtc>>

rtc_set_from_clock ==
    /\ sync = "rtc" /\ sync' = "done"
    /\ \/ rtc' = tm /\ UNCHANGED <<apart, errors>>
       \/ MayFail /\ Fail /\ apart' = TRUE /\ UNCHANGED rtc
    /\ UNCHANGED <<has_rtc, sys_clock, tm, config_data, callVars>>

-----------------------------------------------------------------------------
(* Properties.                                                             *)

\* Between settings the RTC has the time of the system clock, to the
\* millisecond and not a mixture of two times, if the last PATCH or
\* synchronisation was not disturbed by another and did not fail: whichever
\* sets them next brings them together again (rtc.c:16-63, 107-131).
RtcMatchesClock ==
    boot_finished /\ has_rtc /\ ~apart /\ ~Disturbed => rtc = <<sys_clock, sys_clock>>

-----------------------------------------------------------------------------
(* What the code does not give; README.md says how each one fails.         *)

\* The same when a PATCH and a synchronisation meet.
RtcAlwaysMatchesClock ==
    boot_finished /\ has_rtc /\ errors = 0 /\ ~Disturbed => rtc = <<sys_clock, sys_clock>>

\* The fraction as milliseconds: its digits count from the left.
Exact(digits) == IF Len(digits) = 1 THEN 100 * digits[1] ELSE 100 * digits[1] + 10 * digits[2]

\* A PATCH sets the clock to the DateTime it was given.
PatchIsExact ==
    \A t \in Callers :
        At(t, {"date_time"}, "clock") /\ Cur(t).val[1] >= 0 => Asked(t) = Exact(Cur(t).val)

=============================================================================
