---------------------------- MODULE Pacing_proofs ----------------------------
(***************************************************************************)
(* Proofs about Pacing: its types, and that no stretch of turns gets ahead *)
(* of its delays by more than what is about to be slept and the longest    *)
(* turn, whatever the delays, the stalls and the failures are.             *)
(***************************************************************************)
EXTENDS Pacing, TLAPS

LEMMA ProductIsNat == \A m \in Nat, n \in Nat : m * n \in Nat
OBVIOUS

(* Every variable keeps its type.                                          *)
THEOREM TypeCorrect == Spec => []TypeOK
<1>1. Init => TypeOK
  BY PacingAssumption DEF Init, TypeOK
<1>2. ASSUME TypeOK, Turn
      PROVE  TypeOK'
  <2>1. PICK stall \in 0 .. LongestStall : Pace(slept + stall)
    BY <1>2 DEF Turn
  <2>2. ipd_current \in Nat /\ stall \in Nat
    BY <1>2, PacingAssumption DEF TypeOK
  <2>3. /\ ipd_time' \in Int /\ ipd_time_max' \in Nat
        /\ burst' \in Nat /\ longest' \in Nat
    BY <1>2, <2>1, <2>2 DEF TypeOK, Pace, DelayAfter, Higher
  <2>4. ipd_current' \in Delays
    BY <1>2 DEF TypeOK, Turn, Read, SendOriginal, SendTerminate, SkipSleep
  <2>5. PausesAtEnd * ipd_time_max' \in Nat
    BY <2>3, PacingAssumption, ProductIsNat
  <2>6. slept' \in Nat /\ failures' \in 0 .. MaxFailures
    <3>1. CASE SkipSleep
      BY <1>2, <3>1, PacingAssumption DEF TypeOK, SkipSleep
    <3>2. CASE Sleep(0) \/ Sleep(PausesAtEnd * ipd_time_max')
      BY <3>2, <2>3, <2>5, PacingAssumption DEF Sleep, Higher
    <3> QED
      BY <1>2, <3>1, <3>2 DEF Turn, Read, SendOriginal, SendTerminate
  <2> QED
    BY <2>3, <2>4, <2>6 DEF TypeOK
<1>3. TypeOK /\ UNCHANGED vars => TypeOK'
  BY DEF TypeOK, vars
<1> QED
  BY <1>1, <1>2, <1>3, PTL DEF Spec, Next

(* The bound on bursts is inductive as it stands, once the types are known.*)
(* A turn adds the same to both sides when it counts.  When it is forgiven *)
(* it can only lower the left side; and the left side restarts from zero   *)
(* only where the right side is not below.                                 *)
THEOREM BurstIsBounded == Spec => []BurstBounded
<1>1. Init => BurstBounded
  BY DEF Init, BurstBounded
<1>2. ASSUME TypeOK, BurstBounded, Turn
      PROVE  BurstBounded'
  <2>1. PICK stall \in 0 .. LongestStall : Pace(slept + stall)
    BY <1>2 DEF Turn
  <2> DEFINE elapsed == slept + stall
  <2>2. ipd_current \in Nat /\ elapsed \in Nat
    BY <1>2, PacingAssumption DEF TypeOK
  <2>3. longest' >= longest /\ longest' >= elapsed /\ longest' \in Nat
    BY <1>2, <2>1, <2>2 DEF TypeOK, Pace, Higher
  <2>4. burst \in Nat /\ ipd_time \in Int /\ longest \in Nat
    BY <1>2 DEF TypeOK
  <2>5. burst' = Higher(0, burst + ipd_current - elapsed)
    BY <2>1 DEF Pace
  <2>6. CASE ipd_current - elapsed > 0 \/ ipd_time > 0
    <3>1. ipd_time' = ipd_time + (ipd_current - elapsed)
      BY <2>1, <2>6 DEF Pace, DelayAfter
    <3>2. burst + ipd_current - elapsed <= ipd_time' + longest'
      BY <3>1, <1>2, <2>2, <2>3, <2>4 DEF BurstBounded
    <3>3. 0 <= ipd_time' + longest'
      BY <3>1, <1>2, <2>2, <2>3, <2>4, <2>6 DEF BurstBounded
    <3> QED
      BY <3>2, <3>3, <2>5 DEF BurstBounded, Higher
  <2>7. CASE ~ (ipd_current - elapsed > 0 \/ ipd_time > 0)
    <3>1. ipd_time' = ipd_time
      BY <2>1, <2>7 DEF Pace, DelayAfter
    <3>2. burst' <= burst
      BY <2>5, <2>2, <2>4, <2>7 DEF Higher
    <3> QED
      BY <3>1, <3>2, <1>2, <2>2, <2>3, <2>4, <2>5 DEF BurstBounded, Higher
  <2> QED
    BY <2>6, <2>7
<1>3. BurstBounded /\ UNCHANGED vars => BurstBounded'
  BY DEF BurstBounded, vars
<1> QED
  BY TypeCorrect, <1>1, <1>2, <1>3, PTL DEF Spec, Next
===============================================================================
