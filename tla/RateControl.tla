----------------------------- MODULE RateControl -----------------------------
(***************************************************************************)
(* How fast the server sends.  The client reports a smoothed error rate    *)
(* (ttp_update_stats, client/protocol.c), and the server turns it into the *)
(* delay between datagrams that its loop is to keep                        *)
(* (ttp_accept_retransmit, server/protocol.c); how it does is in Pacing.   *)
(*                                                                         *)
(* The code computes in floating point; here a report is rounded down, as  *)
(* the message is, and a delay away from the one before, so that what      *)
(* changes a delay there changes it here.  One variable is the environment:*)
(* what the network and the client's disk are going through.               *)
(***************************************************************************)
EXTENDS Integers, Sequences

CONSTANTS
    Targets,         \* the values param->ipd_time may have
    HighestDelay,    \* 10000: microseconds
    FullLoss,        \* 100000: all datagrams lost (% x 1000)
    Threshold,       \* param->error_rate
    SlowerNum, SlowerDen, FasterNum, FasterDen,  \* as in param
    History,         \* parameter->history, in percent
    Losses,          \* retransmits_fraction x FullLoss/2 while there is loss
    MaxReports       \* bound: reports TCP holds before the client must wait

(* Parameters that make sense: slower is slower, faster is faster, and what*)
(* was is not all that counts.                                             *)
ASSUME RateAssumption ==
    /\ Targets \subseteq Nat \ {0}
    /\ HighestDelay \in Nat \ {0}
    /\ FullLoss \in Nat /\ Threshold \in Nat /\ Threshold < FullLoss
    /\ SlowerNum \in Nat /\ SlowerDen \in Nat \ {0} /\ SlowerNum > SlowerDen
    /\ FasterNum \in Nat /\ FasterDen \in Nat \ {0} /\ FasterNum < FasterDen
    /\ History \in 0 .. 99
    /\ Losses \subseteq 0 .. FullLoss \div 2
    /\ MaxReports \in Nat \ {0}

VARIABLES
    condition,    \* "calm", "loss", "full" (the client's ring), "cut" (no traffic)
    error_rate,   \* stats->error_rate, at the client
    reports,      \* the error rates on their way to the server
    target,       \* param->ipd_time, at the server
    ipd_current   \* xfer->ipd_current

vars == <<condition, error_rate, reports, target, ipd_current>>

Lower(a, b)  == IF a < b THEN a ELSE b
Higher(a, b) == IF a > b THEN a ELSE b

\* The quotient rounded up.
Ceiling(a, b) == (a + b - 1) \div b

(* A transfer is opened: ttp_open_transfer.                                *)
Init ==
    /\ condition = "calm"
    /\ error_rate = 0
    /\ reports = <<>>
    /\ target \in Targets
    /\ ipd_current = 3 * target

-------------------------------------------------------------------------------
(* The client.                                                             *)

(* retransmits_fraction + ringfill_fraction: the second is a quotient of   *)
(* integers, and 0 until the ring is full.                                 *)
TroubleWrong ==
    IF condition = "full" THEN {FullLoss + l : l \in Losses \cup {0}} ELSE Losses \cup {0}
Trouble ==
    CASE condition = "loss" -> Losses
      [] condition = "full" -> {FullLoss \div 2 + l : l \in Losses \cup {0}}
      [] OTHER -> {0}

SmoothedWrong(now) == Higher(error_rate, now)
Smoothed(now) == (History * error_rate + (100 - History) * now) \div 100

(* Only a turn of the receive loop can find that it is time for statistics.*)
Report ==
    /\ condition # "cut"
    /\ Len(reports) < MaxReports
    /\ \E now \in Trouble : error_rate' = Smoothed(now)
    /\ reports' = Append(reports, error_rate')
    /\ UNCHANGED <<condition, target, ipd_current>>

Change ==
    /\ condition' \in {"calm", "loss", "full", "cut"} \ {condition}
    /\ UNCHANGED <<error_rate, reports, target, ipd_current>>

-------------------------------------------------------------------------------
(* The server's reaction to a report: ttp_accept_retransmit.               *)

SlowerWrong(e) ==
    ipd_current + (ipd_current * (SlowerNum - SlowerDen) * (1 + e - Threshold))
                      \div (SlowerDen * (FullLoss - Threshold))
Slower(e) ==
    ipd_current + Ceiling(ipd_current * (SlowerNum - SlowerDen) * (1 + e - Threshold),
                          SlowerDen * (FullLoss - Threshold))
Faster == (ipd_current * FasterNum) \div FasterDen

InRangeWrong(ipd) == Lower(Higher(ipd, target), HighestDelay)
InRange(ipd) == Higher(Lower(ipd, HighestDelay), target)

Reacted(e) == InRange(IF e > Threshold THEN Slower(e) ELSE Faster)

Reads ==
    /\ condition # "cut"
    /\ reports # <<>>
    /\ reports' = Tail(reports)
    /\ ipd_current' = Reacted(Head(reports))
    /\ UNCHANGED <<condition, error_rate, target>>

(* No request for a while: "throttle IPD with fake 100% loss report".      *)
MissesHeartbeat ==
    /\ condition = "cut"
    /\ ipd_current' = Reacted(FullLoss)
    /\ UNCHANGED <<condition, error_rate, reports, target>>

-------------------------------------------------------------------------------
Next == Change \/ Report \/ Reads \/ MissesHeartbeat

Spec == Init /\ [][Next]_vars

(* The client's loop reports every 350 ms, the server's reads what has     *)
(* arrived, and it looks at its clock when nothing does.                   *)
FairSpec ==
    /\ Spec
    /\ WF_vars(Report)
    /\ WF_vars(Reads)
    /\ WF_vars(MissesHeartbeat)

-------------------------------------------------------------------------------
(* Properties.                                                             *)

(* Every variable has its type; the delay is never below its target, nor   *)
(* beyond the range but as it was at the start.                            *)
TypeOK ==
    /\ condition \in {"calm", "loss", "full", "cut"}
    /\ error_rate \in 0 .. FullLoss
    /\ reports \in Seq(0 .. FullLoss) /\ Len(reports) <= MaxReports
    /\ target \in Targets
    /\ ipd_current \in target .. Higher(HighestDelay, target) \cup {3 * target}

(* A report of too much loss leaves the delay at least as long as it was,  *)
(* or as long as it may be: it does make a server faster that started with *)
(* a delay beyond its range.                                               *)
NoSpeedUpInRange ==
    [][\A e \in 0 .. FullLoss :
          e > Threshold /\ reports = <<e>> \o reports' =>
              ipd_current' >= Lower(ipd_current, Higher(HighestDelay, target))]_vars

(* Once there is no more trouble the server gets to its target rate, past  *)
(* the reports of old losses that are on their way or in the average.      *)
Recovers == <>[](condition = "calm") => <>[](ipd_current = target)

(* While the ring stays full or nothing gets through, the server becomes as*)
(* slow as it can.                                                         *)
BacksOff ==
    \A c \in {"full", "cut"} :
        <>[](condition = c) => <>[](ipd_current = InRange(HighestDelay))
===============================================================================
