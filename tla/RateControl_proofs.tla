-------------------------- MODULE RateControl_proofs --------------------------
(***************************************************************************)
(* Proofs about RateControl, for any target rates, thresholds, factors and *)
(* losses: delays and error rates stay in their ranges, and a report of too*)
(* much loss never makes a server faster whose delay is in its range.  The *)
(* products and quotients of variables are kept in lemmas of their own.    *)
(***************************************************************************)
EXTENDS RateControl, SequenceTheorems, TLAPS

-------------------------------------------------------------------------------
(* Arithmetic.                                                             *)

(* A product keeps the order of its factors.                               *)
LEMMA ProductOrder ==
    ASSUME NEW a \in Nat, NEW b \in Nat, NEW c \in Nat, a <= b
    PROVE  c * a \in Nat /\ c * a <= c * b
<1>1. PICK d \in Nat : b = a + d
  <2>1. b - a \in Nat /\ b = a + (b - a)
    OBVIOUS
  <2> QED
    BY <2>1
<1>2. c * b = c * a + c * d
  BY <1>1
<1>3. c * a \in Nat /\ c * d \in Nat
  OBVIOUS
<1> QED
  BY <1>2, <1>3

(* A quotient of natural numbers is one.                                   *)
LEMMA QuotientIsNat ==
    ASSUME NEW a \in Nat, NEW b \in Nat \ {0}
    PROVE  a \div b \in Nat
OBVIOUS

(* So is one that is rounded up.                                           *)
LEMMA CeilingIsNat ==
    ASSUME NEW a \in Nat, NEW b \in Nat \ {0}
    PROVE  Ceiling(a, b) \in Nat
<1>1. a + b - 1 \in Nat
  OBVIOUS
<1> QED
  BY <1>1, QuotientIsNat DEF Ceiling

(* What a report of too much loss asks for is never less than the delay of *)
(* before.                                                                 *)
LEMMA SlowerIsSlower ==
    ASSUME ipd_current \in Nat, NEW e \in Nat, e > Threshold
    PROVE  Slower(e) \in Nat /\ Slower(e) >= ipd_current
<1> DEFINE a == ipd_current * (SlowerNum - SlowerDen) * (1 + e - Threshold)
           b == SlowerDen * (FullLoss - Threshold)
<1>1. a \in Nat
  <2>1. SlowerNum - SlowerDen \in Nat /\ 1 + e - Threshold \in Nat
    BY RateAssumption
  <2> QED
    BY <2>1
<1>2. b \in Nat \ {0}
  <2>1. SlowerDen \in Nat \ {0} /\ FullLoss - Threshold \in Nat \ {0}
    BY RateAssumption
  <2> QED
    BY <2>1
<1>3. Ceiling(a, b) \in Nat
  BY <1>1, <1>2, CeilingIsNat
<1> QED
  BY <1>3 DEF Slower

(* The delay that answers a report is in its range, which a delay at the   *)
(* start need not be.                                                      *)
LEMMA ReactedInRange ==
    ASSUME TypeOK, NEW e \in Nat
    PROVE  Reacted(e) \in target .. Higher(HighestDelay, target)
<1>1. /\ ipd_current \in Nat /\ target \in Nat /\ HighestDelay \in Nat /\ Threshold \in Nat
  BY RateAssumption DEF TypeOK, Higher
<1>2. Faster \in Nat
  <2>1. ipd_current * FasterNum \in Nat /\ FasterDen \in Nat \ {0}
    BY <1>1, RateAssumption
  <2> QED
    BY <2>1, QuotientIsNat DEF Faster
<1>3. e > Threshold => Slower(e) \in Nat
  BY <1>1, SlowerIsSlower
<1>4. ASSUME NEW ipd \in Nat PROVE InRange(ipd) \in target .. Higher(HighestDelay, target)
  BY <1>1, <1>4 DEF InRange, Lower, Higher
<1> QED
  BY <1>2, <1>3, <1>4 DEF Reacted

(* Smoothing keeps an error rate in its range.                             *)
LEMMA SmoothedInRange ==
    ASSUME TypeOK, NEW now \in 0 .. FullLoss
    PROVE  Smoothed(now) \in 0 .. FullLoss
<1> DEFINE past == History * error_rate
           new  == (100 - History) * now
<1>1. /\ History \in Nat /\ 100 - History \in Nat /\ FullLoss \in Nat
      /\ error_rate \in Nat /\ error_rate <= FullLoss
      /\ now \in Nat /\ now <= FullLoss
  BY RateAssumption DEF TypeOK
<1>2. past \in Nat /\ past <= History * FullLoss
  BY <1>1, ProductOrder
<1>3. new \in Nat /\ new <= (100 - History) * FullLoss
  BY <1>1, ProductOrder
<1>4. History * FullLoss + (100 - History) * FullLoss = 100 * FullLoss
  BY <1>1
<1>5. History * FullLoss \in Nat /\ (100 - History) * FullLoss \in Nat
  BY <1>1
<1>6. past + new \in Nat /\ past + new <= 100 * FullLoss
  <2> HIDE DEF past, new
  <2> QED
    BY <1>2, <1>3, <1>4, <1>5, <1>1
<1>7. (past + new) \div 100 \in 0 .. FullLoss
  <2> HIDE DEF past, new
  <2> QED
    BY <1>6, <1>1
<1> QED
  BY <1>7 DEF Smoothed

(* What goes into the average is an error rate.                            *)
LEMMA TroubleInRange ==
    ASSUME TypeOK
    PROVE  Trouble \subseteq 0 .. FullLoss
<1>1. FullLoss \in Nat /\ FullLoss \div 2 \in Nat /\ 2 * (FullLoss \div 2) <= FullLoss
  BY RateAssumption
<1>2. \A l \in Losses \cup {0} : l \in Nat /\ l <= FullLoss \div 2
  BY <1>1, RateAssumption
<1> QED
  BY <1>1, <1>2 DEF Trouble, TypeOK

-------------------------------------------------------------------------------
(* Type correctness.                                                       *)

(* The report of a turn.                                                   *)
LEMMA ReportType == TypeOK /\ Report => TypeOK'
<1> SUFFICES ASSUME TypeOK, Report PROVE TypeOK'
  OBVIOUS
<1>1. PICK now \in Trouble : error_rate' = Smoothed(now)
  BY DEF Report
<1>2. error_rate' \in 0 .. FullLoss
  BY <1>1, TroubleInRange, SmoothedInRange
<1>3. reports' \in Seq(0 .. FullLoss) /\ Len(reports') = Len(reports) + 1
  BY <1>2, AppendProperties DEF Report, TypeOK
<1>4. Len(reports') <= MaxReports
  BY <1>3, LenProperties, RateAssumption DEF Report, TypeOK
<1> QED
  BY <1>2, <1>3, <1>4 DEF Report, TypeOK

(* The answer to a report.                                                 *)
LEMMA ReadsType == TypeOK /\ Reads => TypeOK'
<1> SUFFICES ASSUME TypeOK, Reads PROVE TypeOK'
  OBVIOUS
<1>1. Head(reports) \in 0 .. FullLoss /\ reports' \in Seq(0 .. FullLoss)
      /\ Len(reports') = Len(reports) - 1
  BY HeadTailProperties DEF Reads, TypeOK
<1>2. ipd_current' \in target .. Higher(HighestDelay, target)
  BY <1>1, ReactedInRange, RateAssumption DEF Reads
<1>3. Len(reports') <= MaxReports
  BY <1>1, LenProperties, RateAssumption DEF TypeOK
<1> QED
  BY <1>1, <1>2, <1>3 DEF Reads, TypeOK

(* Every step of either side.                                              *)
LEMMA StepType == TypeOK /\ [Next]_vars => TypeOK'
<1> SUFFICES ASSUME TypeOK, [Next]_vars PROVE TypeOK'
  OBVIOUS
<1>1. CASE Change
  BY <1>1 DEF Change, TypeOK
<1>2. CASE Report
  BY <1>2, ReportType
<1>3. CASE Reads
  BY <1>3, ReadsType
<1>4. CASE MissesHeartbeat
  BY <1>4, ReactedInRange, RateAssumption DEF MissesHeartbeat, TypeOK
<1>5. CASE UNCHANGED vars
  BY <1>5 DEF TypeOK, vars
<1> QED
  BY <1>1, <1>2, <1>3, <1>4, <1>5 DEF Next

(* Error rates stay between 0 and full loss, and the delay between its     *)
(* target and the end of its range once a report has been answered,        *)
(* whatever the products and quotients of ttp_update_stats and             *)
(* ttp_accept_retransmit are.                                              *)
THEOREM TypeCorrect == Spec => []TypeOK
<1>1. Init => TypeOK
  <2> SUFFICES ASSUME Init PROVE TypeOK
    OBVIOUS
  <2>1. ipd_current \in target .. Higher(HighestDelay, target) \cup {3 * target}
    BY DEF Init
  <2> QED
    BY <2>1, EmptySeq, RateAssumption DEF Init, TypeOK
<1> QED
  BY <1>1, StepType, PTL DEF Spec

-------------------------------------------------------------------------------
(* Loss never speeds the server up within its range.                       *)

(* Cutting a longer delay to the range leaves at least the old one, cut to *)
(* the range's upper end.                                                  *)
LEMMA InRangeOfLonger ==
    ASSUME TypeOK, NEW ipd \in Nat, ipd >= ipd_current
    PROVE  InRange(ipd) >= Lower(ipd_current, Higher(HighestDelay, target))
BY RateAssumption DEF TypeOK, InRange, Lower, Higher

(* A report is taken from the queue by Reads alone.                        *)
LEMMA TakenByReads ==
    ASSUME TypeOK, [Next]_vars, NEW e \in 0 .. FullLoss, reports = <<e>> \o reports'
    PROVE  Reads /\ Head(reports) = e
<1>1. reports' \in Seq(0 .. FullLoss) /\ Len(reports') \in Nat
  BY StepType, LenProperties DEF TypeOK
<1>2. Len(reports) = 1 + Len(reports') /\ reports[1] = e
  <2>1. <<e>> \in Seq(0 .. FullLoss) /\ Len(<<e>>) = 1
    OBVIOUS
  <2> QED
    BY <1>1, <2>1, ConcatProperties
<1>3. ~ Report
  BY <1>1, <1>2, StepType, AppendProperties DEF Report, TypeOK
<1>4. ~ UNCHANGED reports
  BY <1>1, <1>2
<1> QED
  BY <1>2, <1>3, <1>4 DEF Next, Change, MissesHeartbeat, vars, TypeOK

(* A report of too much loss leaves the delay at least as long as it was,  *)
(* or, of a delay beyond its range, at the range's end                     *)
(* (ttp_accept_retransmit, server).                                        *)
THEOREM LossSlowsDownInRange == Spec => NoSpeedUpInRange
<1> DEFINE Slows ==
        \A e \in 0 .. FullLoss :
            e > Threshold /\ reports = <<e>> \o reports' =>
                ipd_current' >= Lower(ipd_current, Higher(HighestDelay, target))
<1>1. TypeOK /\ [Next]_vars => Slows
  <2> SUFFICES ASSUME TypeOK, [Next]_vars, NEW e \in 0 .. FullLoss,
                      e > Threshold, reports = <<e>> \o reports'
               PROVE  ipd_current' >= Lower(ipd_current, Higher(HighestDelay, target))
    OBVIOUS
  <2>1. Reads /\ Head(reports) = e
    BY TakenByReads
  <2>2. ipd_current' = InRange(Slower(e))
    BY <2>1 DEF Reads, Reacted
  <2>3. Slower(e) \in Nat /\ Slower(e) >= ipd_current
    BY SlowerIsSlower, RateAssumption DEF TypeOK, Higher
  <2> QED
    BY <2>2, <2>3, InRangeOfLonger
<1> QED
  BY <1>1, TypeCorrect, PTL DEF Spec, NoSpeedUpInRange
===============================================================================
