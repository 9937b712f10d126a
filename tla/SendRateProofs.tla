---------------------------- MODULE SendRateProofs ----------------------------
(***************************************************************************)
(* The sender keeps to its limit, for every limit and every set of packet  *)
(* sizes of which none takes exactly one second.                           *)
(***************************************************************************)
EXTENDS SendRate, TLAPS

(***************************************************************************)
(* No size puts exactly 10^9 into tv_nsec.                                 *)
(***************************************************************************)
NoSizeTakesOneSecond ==
  \A l \in Limits, size \in Sizes : (size * Billion) \div l # Billion

-----------------------------------------------------------------------------
(***************************************************************************)
(* A whole division loses less than its divisor.                           *)
(***************************************************************************)
LEMMA DivisionLoss ==
  ASSUME NEW n \in Nat, NEW l \in Nat \ {0}
  PROVE  n \div l \in Nat /\ n <= (l * (n \div l)) + (l - 1)
OBVIOUS

(***************************************************************************)
(* Unless it is exactly one second, the sleep that is asked for is slept.  *)
(***************************************************************************)
LEMMA SleptInFull ==
  ASSUME NEW ns \in Nat, ns # Billion
  PROVE  Slept(Timespec(ns)) = ns
<1>1. CASE ns > Billion
  <2>1. ns % Billion < Billion /\ ns = (Billion * (ns \div Billion)) + (ns % Billion)
    BY SendRateAssumption
  <2>2. (ns \div Billion) * Billion = Billion * (ns \div Billion)
    BY SendRateAssumption
  <2> QED
    BY <1>1, <2>1, <2>2 DEF Slept, Timespec
<1>2. CASE ~(ns > Billion)
  BY <1>2, SendRateAssumption DEF Slept, Timespec
<1> QED
  BY <1>1, <1>2

LEMMA SleptIsNat ==
  ASSUME NEW ns \in Nat
  PROVE  Slept(Timespec(ns)) \in Nat
<1>1. CASE ns # Billion
  BY <1>1, SleptInFull
<1>2. CASE ns = Billion
  BY <1>2, SendRateAssumption DEF Slept, Timespec
<1> QED
  BY <1>1, <1>2

LEMMA SleepNsIsNat ==
  ASSUME limit \in Limits, NEW octets \in Nat
  PROVE  SleepNs(octets) \in Nat
<1>1. octets * Billion \in Nat /\ limit \in Nat \ {0}
  BY SendRateAssumption
<1> QED
  BY <1>1, DivisionLoss DEF SleepNs

-----------------------------------------------------------------------------
LEMMA TypeStep == TypeOK /\ [Next]_vars => TypeOK'
<1> SUFFICES ASSUME TypeOK, [Next]_vars PROVE TypeOK'
  OBVIOUS
<1>1. ASSUME NEW octets \in Nat, Pause(octets), UNCHANGED limit
      PROVE  time' \in Nat
  <2>1. Slept(Timespec(SleepNs(octets))) \in Nat
    BY SleepNsIsNat, SleptIsNat DEF TypeOK
  <2> QED
    BY <1>1, <2>1, SendRateAssumption DEF Pause, TypeOK
<1>2. CASE NewWindow
  BY <1>2 DEF NewWindow, TypeOK
<1>3. ASSUME NEW size \in Sizes, SendPacket(size)
      PROVE  TypeOK'
  BY <1>1, <1>3, SendRateAssumption DEF SendPacket, TypeOK
<1>4. CASE SendNothing
  BY <1>1, <1>4, SendRateAssumption DEF SendNothing, TypeOK
<1>5. CASE UNCHANGED vars
  BY <1>5 DEF vars, TypeOK
<1> QED
  BY <1>2, <1>3, <1>4, <1>5 DEF Next

(***************************************************************************)
(* A round adds as much to the time, at the limit, as it adds to the       *)
(* octets.                                                                 *)
(***************************************************************************)
LEMMA RateStep ==
  ASSUME NoSizeTakesOneSecond, TypeOK, RateBound, [Next]_vars
  PROVE  RateBound'
<1>1. limit \in Nat \ {0} /\ Billion \in Nat
  BY SendRateAssumption DEF TypeOK
<1>2. CASE NewWindow
  BY <1>1, <1>2 DEF NewWindow, RateBound
<1>3. ASSUME NEW size \in Sizes, SendPacket(size)
      PROVE  RateBound'
  <2> DEFINE ns == SleepNs(size)
  <2>1. size \in Nat /\ size * Billion \in Nat
    BY SendRateAssumption
  <2>2. ns \in Nat /\ size * Billion <= (limit * ns) + (limit - 1)
    BY <1>1, <2>1, DivisionLoss DEF SleepNs
  <2>3. PICK delay \in Nat : time' = time + ns + delay
    <3>1. ns # Billion
      BY DEF NoSizeTakesOneSecond, TypeOK, SleepNs
    <3> QED
      BY <1>3, <2>2, <3>1, SleptInFull, SendRateAssumption
         DEF SendPacket, Pause, TypeOK
  <2>4. limit * time' = (limit * time) + (limit * ns) + (limit * delay)
    BY <1>1, <2>2, <2>3 DEF TypeOK
  <2>5. limit * delay \in Nat
    BY <1>1, <2>3
  <2>6. /\ limit' = limit
        /\ Billion * sent' = (Billion * sent) + (size * Billion)
        /\ sends' * (limit - 1) = (sends * (limit - 1)) + (limit - 1)
    BY <1>1, <1>3, <2>1 DEF SendPacket, TypeOK
  <2>7. /\ Billion * sent \in Int /\ limit * time \in Int
        /\ limit * ns \in Int /\ sends * (limit - 1) \in Int
    BY <1>1, <2>2 DEF TypeOK
  <2> HIDE DEF ns
  <2> QED
    BY <1>1, <2>1, <2>2, <2>4, <2>5, <2>6, <2>7 DEF RateBound
<1>4. CASE SendNothing
  <2>1. PICK more \in Nat : time' = time + more
    <3>1. Slept(Timespec(SleepNs(IdleOctets))) \in Nat
      BY SleepNsIsNat, SleptIsNat, SendRateAssumption DEF TypeOK
    <3> QED
      BY <1>4, <3>1, SendRateAssumption DEF SendNothing, Pause, TypeOK
  <2>2. limit * time' = (limit * time) + (limit * more)
    BY <1>1, <2>1 DEF TypeOK
  <2>3. /\ limit * more \in Nat /\ limit * time \in Int
        /\ Billion * sent \in Int /\ sends * (limit - 1) \in Int
    BY <1>1, <2>1 DEF TypeOK
  <2>4. UNCHANGED <<limit, sent, sends>>
    BY <1>4 DEF SendNothing
  <2> QED
    BY <1>1, <2>2, <2>3, <2>4 DEF RateBound
<1>5. CASE UNCHANGED vars
  BY <1>5 DEF vars, RateBound
<1> QED
  BY <1>2, <1>3, <1>4, <1>5 DEF Next

(***************************************************************************)
(* No sleep is negative, and the measure of a window never is.             *)
(***************************************************************************)
THEOREM TypeCorrect == Spec => []TypeOK
<1>1. Init => TypeOK
  BY DEF Init, TypeOK
<1> QED
  BY <1>1, TypeStep, PTL DEF Spec

(***************************************************************************)
(* "Sending happens with limited speed": true of every window of time, if  *)
(* no packet has exactly the size that the limit passes in a second.       *)
(***************************************************************************)
THEOREM SpeedIsLimited ==
  ASSUME NoSizeTakesOneSecond
  PROVE  Spec => []RateBound
<1>1. Init => TypeOK /\ RateBound
  BY SendRateAssumption DEF Init, TypeOK, RateBound
<1>2. TypeOK /\ RateBound /\ [Next]_vars => TypeOK' /\ RateBound'
  BY TypeStep, RateStep
<1> QED
  BY <1>1, <1>2, PTL DEF Spec

=============================================================================
