-------------------------------- MODULE Pacing --------------------------------
(***************************************************************************)
(* How client_handler (server/main.c) keeps to the delay between datagrams *)
(* that RateControl sets.  The loop measures the time from turn to turn,   *)
(* corrects its sleep by it, and sleeps longer after a terminating block.  *)
(* Time is counted in whole units.  The scheduler is the environment: a    *)
(* turn takes its sleep and some more.                                     *)
(***************************************************************************)
EXTENDS Integers

CONSTANTS
    Delays,          \* the values xfer->ipd_current may have
    PausesAtEnd,     \* 10: how many times its longest delay the server sleeps
                     \* after a terminating block
    LongestStall,    \* bound: what a turn takes without its sleep
    MaxFailures      \* bound: sends that fail in a row

ASSUME PacingAssumption ==
    /\ Delays \subseteq Nat /\ Delays # {}
    /\ PausesAtEnd \in Nat /\ LongestStall \in Nat /\ MaxFailures \in Nat

VARIABLES
    ipd_current,  \* xfer->ipd_current
    ipd_time,     \* the delay to be slept; negative when the loop is behind
    ipd_time_max,
    slept,        \* what the turn before has slept
    failures,     \* sends that have just failed in a row
    burst,        \* history: how far some stretch of turns, up to the last one,
                  \* is ahead of the delays it should have kept to
    longest       \* history: the longest turn

vars == <<ipd_current, ipd_time, ipd_time_max, slept, failures, burst, longest>>

Higher(a, b) == IF a > b THEN a ELSE b

Init ==
    /\ ipd_current \in Delays
    /\ ipd_time = 0 /\ ipd_time_max = 0
    /\ slept = 0 /\ failures = 0
    /\ burst = 0 /\ longest = 0

(* The top of the loop.  A turn that has taken less than its delay counts, *)
(* and so does one after a delay; any other lateness is forgiven.          *)
DelayAfterWrong(elapsed) == ipd_time + (ipd_current - elapsed)
DelayAfter(elapsed) ==
    IF ipd_current - elapsed > 0 \/ ipd_time > 0
    THEN ipd_time + (ipd_current - elapsed)
    ELSE ipd_time

Pace(elapsed) ==
    /\ ipd_time' = DelayAfter(elapsed)
    /\ ipd_time_max' = Higher(ipd_time', ipd_time_max)
    /\ burst' = Higher(0, burst + ipd_current - elapsed)
    /\ longest' = Higher(longest, elapsed)

(* The end of the loop.  A delay that is negative is not slept.            *)
SleepWrong(more) ==
    /\ slept' = more + ipd_time'
    /\ failures' = 0
Sleep(more) ==
    /\ slept' = more + Higher(0, ipd_time')
    /\ failures' = 0

(* A request is read; it may be a report that changes the delay.           *)
Read ==
    /\ ipd_current' \in Delays
    /\ Sleep(0)

(* A block is sent; a report that a heartbeat is missed may follow.        *)
SendOriginal  == ipd_current' \in Delays /\ Sleep(0)
SendTerminate == ipd_current' \in Delays /\ Sleep(PausesAtEnd * ipd_time_max')

(* sendto fails, or the heartbeat is found late once more within half a    *)
(* second: the turn ends without sleep.                                    *)
SkipSleep ==
    /\ failures < MaxFailures
    /\ failures' = failures + 1
    /\ slept' = 0
    /\ UNCHANGED ipd_current

Turn ==
    /\ \E stall \in 0 .. LongestStall : Pace(slept + stall)
    /\ Read \/ SendOriginal \/ SendTerminate \/ SkipSleep

Next == Turn

Spec == Init /\ [][Next]_vars

-------------------------------------------------------------------------------
(* Properties.                                                             *)

(* Every variable has its type.                                            *)
TypeOK ==
    /\ ipd_current \in Delays
    /\ ipd_time \in Int /\ ipd_time_max \in Nat
    /\ slept \in Nat /\ failures \in 0 .. MaxFailures
    /\ burst \in Nat /\ longest \in Nat

(* The loop keeps to its delays: no stretch of turns is ahead of them by   *)
(* more than is about to be slept and what the longest turn has taken.     *)
(* (The long sleep after a terminating block is such a turn: the blocks of *)
(* a restart that follows it may come in a burst.)                         *)
BurstBounded == burst <= ipd_time + longest
===============================================================================
