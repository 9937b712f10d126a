---------------------------- MODULE PrioScanProofs ----------------------------
(***************************************************************************)
(* The two scans of the priority array, for every length of the array and  *)
(* every set of priorities: the loops stop where PrioArray says, and what  *)
(* adding and sending leave in the array are the heaviest packets.         *)
(***************************************************************************)
EXTENDS PrioScan, NumberLemmas

-----------------------------------------------------------------------------
(***************************************************************************)
(* The loops of the scans. A loop's rounds exist because those of every    *)
(* shorter loop do.                                                        *)
(***************************************************************************)
SenderRound(prio, n, before) ==
  IF before.max < prio[n-1] THEN [max |-> prio[n-1], idx |-> n-1] ELSE before

IsSenderLoop(loop, n, prio, from) ==
  loop = [k \in 0 .. n |-> IF k = 0 THEN [max |-> DblMin, idx |-> from]
                           ELSE SenderRound(prio, k, loop[k-1])]

AddRound(prio, n, before) ==
  IF before.min > prio[n-1] THEN [min |-> prio[n-1], idx |-> n-1] ELSE before

IsAddLoop(loop, n, prio) ==
  loop = [k \in 0 .. n |-> IF k = 0 THEN [min |-> DblMax, idx |-> 0]
                           ELSE AddRound(prio, k, loop[k-1])]

(***************************************************************************)
(* The sender's loop, by induction over the slots it passes.               *)
(***************************************************************************)
LEMMA SenderLoops ==
  ASSUME NEW prio, NEW from
  PROVE  \E loop : IsSenderLoop(loop, QLen, prio, from)
                   /\ SenderScan(prio, from) = loop[QLen]
<1> DEFINE S == {n \in 0 .. QLen : \E loop : IsSenderLoop(loop, n, prio, from)}
<1>1. QLen \in Nat
  BY QLenAssumption
<1>2. 0 \in S
  <2> DEFINE one == [k \in 0 .. 0 |-> [max |-> DblMin, idx |-> from]]
  <2>1. \A k \in 0 .. 0 : k = 0
    OBVIOUS
  <2>2. IsSenderLoop(one, 0, prio, from)
    BY <2>1 DEF IsSenderLoop
  <2> QED
    BY <1>1, <2>2
<1>3. ASSUME NEW n \in 0 .. QLen - 1, n \in S
      PROVE  n + 1 \in S
  <2>1. PICK l : IsSenderLoop(l, n, prio, from)
    BY <1>3
  <2> DEFINE g == [k \in 0 .. n + 1 |->
                     IF k <= n THEN l[k] ELSE SenderRound(prio, k, l[n])]
  <2>2. ASSUME NEW k \in 0 .. n + 1
        PROVE  g[k] = IF k = 0 THEN [max |-> DblMin, idx |-> from]
                      ELSE SenderRound(prio, k, g[k-1])
    <3>1. CASE k = 0
      BY <2>1, <3>1 DEF IsSenderLoop
    <3>2. CASE k # 0 /\ k <= n
      <4>1. g[k] = l[k] /\ g[k-1] = l[k-1] /\ k \in 0 .. n
        BY <3>2
      <4>2. l[k] = SenderRound(prio, k, l[k-1])
        BY <2>1, <3>2, <4>1 DEF IsSenderLoop
      <4> QED
        BY <3>2, <4>1, <4>2
    <3>3. CASE k = n + 1
      <4>1. g[k] = SenderRound(prio, k, l[n]) /\ g[k-1] = l[n] /\ k # 0
        BY <3>3
      <4> QED
        BY <4>1
    <3> QED
      BY <3>1, <3>2, <3>3
  <2>3. IsSenderLoop(g, n + 1, prio, from)
    <3>1. g = [k \in 0 .. n + 1 |-> g[k]]
      OBVIOUS
    <3> HIDE DEF g
    <3> QED
      BY <2>2, <3>1 DEF IsSenderLoop
  <2> QED
    BY <1>1, <2>3
<1> HIDE DEF S
<1>4. 0 .. QLen \subseteq S
  BY <1>1, <1>2, <1>3, NumberInduction
<1>5. \E loop : IsSenderLoop(loop, QLen, prio, from)
  BY <1>1, <1>4 DEF S
<1> DEFINE L == CHOOSE loop : IsSenderLoop(loop, QLen, prio, from)
<1>6. IsSenderLoop(L, QLen, prio, from)
  BY <1>5
<1>7. SenderScan(prio, from) = L[QLen]
  BY DEF SenderScan, IsSenderLoop, SenderRound
<1> QED
  BY <1>6, <1>7

(***************************************************************************)
(* The loop of add, likewise, with the slot of the least weight so far.    *)
(***************************************************************************)
LEMMA AddLoops ==
  ASSUME NEW prio
  PROVE  \E loop : IsAddLoop(loop, QLen, prio) /\ AddScan(prio) = loop[QLen]
<1> DEFINE S == {n \in 0 .. QLen : \E loop : IsAddLoop(loop, n, prio)}
<1>1. QLen \in Nat
  BY QLenAssumption
<1>2. 0 \in S
  <2> DEFINE one == [k \in 0 .. 0 |-> [min |-> DblMax, idx |-> 0]]
  <2>1. \A k \in 0 .. 0 : k = 0
    OBVIOUS
  <2>2. IsAddLoop(one, 0, prio)
    BY <2>1 DEF IsAddLoop
  <2> QED
    BY <1>1, <2>2
<1>3. ASSUME NEW n \in 0 .. QLen - 1, n \in S
      PROVE  n + 1 \in S
  <2>1. PICK l : IsAddLoop(l, n, prio)
    BY <1>3
  <2> DEFINE g == [k \in 0 .. n + 1 |->
                     IF k <= n THEN l[k] ELSE AddRound(prio, k, l[n])]
  <2>2. ASSUME NEW k \in 0 .. n + 1
        PROVE  g[k] = IF k = 0 THEN [min |-> DblMax, idx |-> 0]
                      ELSE AddRound(prio, k, g[k-1])
    <3>1. CASE k = 0
      BY <2>1, <3>1 DEF IsAddLoop
    <3>2. CASE k # 0 /\ k <= n
      <4>1. g[k] = l[k] /\ g[k-1] = l[k-1] /\ k \in 0 .. n
        BY <3>2
      <4>2. l[k] = AddRound(prio, k, l[k-1])
        BY <2>1, <3>2, <4>1 DEF IsAddLoop
      <4> QED
        BY <3>2, <4>1, <4>2
    <3>3. CASE k = n + 1
      <4>1. g[k] = AddRound(prio, k, l[n]) /\ g[k-1] = l[n] /\ k # 0
        BY <3>3
      <4> QED
        BY <4>1
    <3> QED
      BY <3>1, <3>2, <3>3
  <2>3. IsAddLoop(g, n + 1, prio)
    <3>1. g = [k \in 0 .. n + 1 |-> g[k]]
      OBVIOUS
    <3> HIDE DEF g
    <3> QED
      BY <2>2, <3>1 DEF IsAddLoop
  <2> QED
    BY <1>1, <2>3
<1> HIDE DEF S
<1>4. 0 .. QLen \subseteq S
  BY <1>1, <1>2, <1>3, NumberInduction
<1>5. \E loop : IsAddLoop(loop, QLen, prio)
  BY <1>1, <1>4 DEF S
<1> DEFINE L == CHOOSE loop : IsAddLoop(loop, QLen, prio)
<1>6. IsAddLoop(L, QLen, prio)
  BY <1>5
<1>7. AddScan(prio) = L[QLen]
  BY DEF AddScan, IsAddLoop, AddRound
<1> QED
  BY <1>6, <1>7

-----------------------------------------------------------------------------
(***************************************************************************)
(* What the loops hold after n rounds: the sender's the first of the       *)
(* highest priorities so far, if any is above DBL_MIN, and add_to_queue's  *)
(* the first of the lowest.                                                *)
(***************************************************************************)
HighestOf(found, prio, n, from) ==
  /\ \A j \in 0 .. n - 1 : prio[j] <= found.max
  /\ \/ found.max = DblMin /\ found.idx = from
     \/ /\ found.idx \in 0 .. n - 1 /\ found.max = prio[found.idx]
        /\ found.max > DblMin
        /\ \A j \in 0 .. n - 1 : j < found.idx => prio[j] < found.max

LowestOf(found, prio, n) ==
  /\ \A j \in 0 .. n - 1 : found.min <= prio[j]
  /\ \/ n = 0 /\ found.min = DblMax /\ found.idx = 0
     \/ /\ found.idx \in 0 .. n - 1 /\ found.min = prio[found.idx]
        /\ \A j \in 0 .. n - 1 : j < found.idx => found.min < prio[j]

(***************************************************************************)
(* The sender's scan finds a heaviest packet, or none in an empty array.   *)
(***************************************************************************)
LEMMA SenderScanIs ==
  ASSUME NEW prio \in [Slots -> Int], NEW from
  PROVE  HighestOf(SenderScan(prio, from), prio, QLen, from)
<1>1. PICK l : IsSenderLoop(l, QLen, prio, from) /\ SenderScan(prio, from) = l[QLen]
  BY SenderLoops
<1> DEFINE S == {n \in 0 .. QLen : HighestOf(l[n], prio, n, from)}
<1>2. QLen \in Nat /\ DblMin = 1
  BY QLenAssumption DEF DblMin
<1>3. 0 \in S
  <2>1. l[0].max = DblMin /\ l[0].idx = from /\ 0 .. 0 - 1 = {}
    BY <1>1, <1>2 DEF IsSenderLoop
  <2> QED
    BY <1>2, <2>1 DEF HighestOf
<1>4. ASSUME NEW n \in 0 .. QLen - 1, n \in S
      PROVE  n + 1 \in S
  <2>1. n + 1 \in 0 .. QLen /\ n + 1 # 0 /\ (n + 1) - 1 = n /\ n \in Slots
    BY <1>2 DEF Slots
  <2>2. l[n + 1] = SenderRound(prio, n + 1, l[n])
    BY <1>1, <2>1 DEF IsSenderLoop
  <2>3. HighestOf(l[n], prio, n, from)
    BY <1>4
  <2>4. /\ \A j \in 0 .. n : j \in Slots /\ prio[j] \in Int
        /\ 0 .. (n + 1) - 1 = 0 .. n
        /\ \A j \in 0 .. n : j = n \/ j \in 0 .. n - 1
    BY <1>2, <2>1 DEF Slots
  <2>5. l[n].max \in Int
    BY <1>2, <2>3, <2>4 DEF HighestOf
  <2>6. CASE l[n].max < prio[n]
    <3>1. l[n + 1] = [max |-> prio[n], idx |-> n]
      BY <2>1, <2>2, <2>6 DEF SenderRound
    <3>2. \A j \in 0 .. n - 1 : prio[j] < prio[n]
      BY <2>3, <2>4, <2>5, <2>6 DEF HighestOf
    <3>3. prio[n] > DblMin
      BY <1>2, <2>3, <2>4, <2>6 DEF HighestOf
    <3>4. HighestOf(l[n + 1], prio, n + 1, from)
      <4>1. l[n + 1].max = prio[n] /\ l[n + 1].idx = n
        BY <3>1
      <4> QED
        BY <2>1, <2>4, <3>2, <3>3, <4>1 DEF HighestOf
    <3> QED
      BY <2>1, <3>4
  <2>7. CASE ~(l[n].max < prio[n])
    <3>1. l[n + 1] = l[n] /\ prio[n] <= l[n].max
      BY <2>1, <2>2, <2>4, <2>5, <2>7 DEF SenderRound
    <3>2. HighestOf(l[n], prio, n + 1, from)
      BY <2>1, <2>3, <2>4, <3>1 DEF HighestOf
    <3> QED
      BY <2>1, <3>1, <3>2
  <2> QED
    BY <2>6, <2>7
<1> HIDE DEF S
<1>5. 0 .. QLen \subseteq S
  BY <1>2, <1>3, <1>4, NumberInduction
<1> QED
  BY <1>1, <1>2, <1>5 DEF S

(***************************************************************************)
(* The scan of add finds the first of the slots with the least weight,     *)
(* which is a free one if there is any.                                    *)
(***************************************************************************)
LEMMA AddScanIs ==
  ASSUME NEW prio \in [Slots -> Int], \A i \in Slots : prio[i] < DblMax
  PROVE  LowestOf(AddScan(prio), prio, QLen)
<1>1. PICK l : IsAddLoop(l, QLen, prio) /\ AddScan(prio) = l[QLen]
  BY AddLoops
<1> DEFINE S == {n \in 0 .. QLen : LowestOf(l[n], prio, n)}
<1>2. QLen \in Nat /\ DblMax \in Int
  BY QLenAssumption, WeightsAssumption
<1>3. 0 \in S
  <2>1. l[0].min = DblMax /\ l[0].idx = 0 /\ 0 .. 0 - 1 = {}
    BY <1>1, <1>2 DEF IsAddLoop
  <2> QED
    BY <1>2, <2>1 DEF LowestOf
<1>4. ASSUME NEW n \in 0 .. QLen - 1, n \in S
      PROVE  n + 1 \in S
  <2>1. n + 1 \in 0 .. QLen /\ n + 1 # 0 /\ (n + 1) - 1 = n /\ n \in Slots
    BY <1>2 DEF Slots
  <2>2. l[n + 1] = AddRound(prio, n + 1, l[n])
    BY <1>1, <2>1 DEF IsAddLoop
  <2>3. LowestOf(l[n], prio, n)
    BY <1>4
  <2>4. /\ \A j \in 0 .. n : j \in Slots /\ prio[j] \in Int /\ prio[j] < DblMax
        /\ 0 .. (n + 1) - 1 = 0 .. n
        /\ \A j \in 0 .. n : j = n \/ j \in 0 .. n - 1
    BY <1>2, <2>1 DEF Slots
  <2>5. l[n].min \in Int /\ (n = 0 => l[n].min > prio[n])
    BY <1>2, <2>3, <2>4 DEF LowestOf
  <2>6. CASE l[n].min > prio[n]
    <3>1. l[n + 1] = [min |-> prio[n], idx |-> n]
      BY <2>1, <2>2, <2>6 DEF AddRound
    <3>2. \A j \in 0 .. n - 1 : prio[n] < prio[j]
      BY <2>3, <2>4, <2>5, <2>6 DEF LowestOf
    <3>3. LowestOf(l[n + 1], prio, n + 1)
      <4>1. l[n + 1].min = prio[n] /\ l[n + 1].idx = n
        BY <3>1
      <4> QED
        BY <2>1, <2>4, <3>2, <4>1 DEF LowestOf
    <3> QED
      BY <2>1, <3>3
  <2>7. CASE ~(l[n].min > prio[n])
    <3>1. l[n + 1] = l[n] /\ l[n].min <= prio[n] /\ n # 0
      BY <2>1, <2>2, <2>4, <2>5, <2>7 DEF AddRound
    <3>2. LowestOf(l[n], prio, n + 1)
      BY <2>1, <2>3, <2>4, <3>1 DEF LowestOf
    <3> QED
      BY <2>1, <3>1, <3>2
  <2> QED
    BY <2>6, <2>7
<1> HIDE DEF S
<1>5. 0 .. QLen \subseteq S
  BY <1>2, <1>3, <1>4, NumberInduction
<1> QED
  BY <1>1, <1>2, <1>5 DEF S

-----------------------------------------------------------------------------
(***************************************************************************)
(* The array: priorities or DBL_MIN, as many of each weight as have been   *)
(* counted, up to its length.                                              *)
(***************************************************************************)
ArrayOK ==
  /\ prioarray \in [Slots -> Weights \cup {DblMin}]
  /\ offered \in [Weights -> Nat]

(***************************************************************************)
(* All that the array holds is below DBL_MAX, where add's scan starts.     *)
(***************************************************************************)
LEMMA ArrayFacts ==
  ASSUME ArrayOK
  PROVE  /\ prioarray \in [Slots -> Int]
         /\ \A i \in Slots : prioarray[i] >= DblMin /\ prioarray[i] < DblMax
<1>1. \A w \in Weights \cup {DblMin} :
        w \in Int /\ w >= DblMin /\ w < DblMax
  BY WeightsAssumption DEF DblMin
<1> QED
  BY <1>1 DEF ArrayOK

LEMMA SentIs ==
  ASSUME ArrayOK, SenderScan(prioarray, idx).max # DblMin
  PROVE  LET top == SenderScan(prioarray, idx).idx
         IN  /\ top \in Slots /\ IsTop(prioarray, top)
             /\ SenderScan(prioarray, idx).max = prioarray[top]
<1>1. HighestOf(SenderScan(prioarray, idx), prioarray, QLen, idx)
  BY ArrayFacts, SenderScanIs
<1> QED
  BY <1>1 DEF HighestOf, IsTop, Slots

LEMMA AddedIs ==
  ASSUME ArrayOK, QLen > 0
  PROVE  LET bottom == AddScan(prioarray).idx
         IN  /\ bottom \in Slots /\ IsBottom(prioarray, bottom)
             /\ AddScan(prioarray).min = prioarray[bottom]
<1>1. LowestOf(AddScan(prioarray), prioarray, QLen)
  BY ArrayFacts, AddScanIs
<1> QED
  BY <1>1 DEF LowestOf, IsBottom, Slots

-----------------------------------------------------------------------------
(***************************************************************************)
(* Counting the packets of at least a weight.                              *)
(***************************************************************************)
LEMMA HowManyIs ==
  ASSUME NEW prio, NEW v
  PROVE  /\ HowMany(prio, v) \in Nat /\ HowMany(prio, v) <= QLen
         /\ (\A i \in Slots : prio[i] >= v) => HowMany(prio, v) = QLen
         /\ (\A i \in Slots : ~(prio[i] >= v)) => HowMany(prio, v) = 0
         /\ IsFiniteSet({i \in Slots : prio[i] >= v})
<1> DEFINE S == {i \in Slots : prio[i] >= v}
<1>1. IsFiniteSet(Slots) /\ Cardinality(Slots) = QLen
  <2>1. QLen - 1 \in Int /\ 0 \in Int /\ QLen \in Nat
    BY QLenAssumption
  <2>2. /\ IsFiniteSet(0 .. QLen - 1)
        /\ Cardinality(0 .. QLen - 1)
             = IF 0 > QLen - 1 THEN 0 ELSE (QLen - 1) - 0 + 1
    BY <2>1, FS_Interval
  <2> QED
    BY <2>1, <2>2 DEF Slots
<1>2. IsFiniteSet(S) /\ Cardinality(S) \in Nat /\ Cardinality(S) <= QLen
  BY <1>1, FS_Subset, FS_CardinalityType
<1>3. (\A i \in Slots : prio[i] >= v) => S = Slots
  OBVIOUS
<1>4. (\A i \in Slots : ~(prio[i] >= v)) => S = {}
  OBVIOUS
<1> QED
  BY <1>1, <1>2, <1>3, <1>4, FS_EmptySet DEF HowMany

(***************************************************************************)
(* One slot changes: so do the numbers of packets of each weight.          *)
(***************************************************************************)
LEMMA HowManyAfter ==
  ASSUME NEW prio \in [Slots -> Int], NEW b \in Slots, NEW w \in Int, NEW v \in Int,
         prio[b] < v
  PROVE  HowMany([prio EXCEPT ![b] = w], v)
           = HowMany(prio, v) + IF v <= w THEN 1 ELSE 0
<1> DEFINE after == [prio EXCEPT ![b] = w]
           S == {i \in Slots : prio[i] >= v}
           T == {i \in Slots : after[i] >= v}
<1>1. b \notin S /\ IsFiniteSet(S)
  BY HowManyIs
<1>2. CASE v <= w
  <2>1. T = S \cup {b}
    BY <1>2
  <2>2. Cardinality(S \cup {b}) = Cardinality(S) + 1
    BY <1>1, FS_AddElement
  <2> QED
    BY <1>2, <2>1, <2>2 DEF HowMany
<1>3. CASE ~(v <= w)
  <2>1. T = S
    BY <1>3
  <2>2. HowMany(prio, v) \in Nat
    BY HowManyIs
  <2> QED
    BY <1>3, <2>1, <2>2 DEF HowMany
<1> QED
  BY <1>2, <1>3

LEMMA AddTypes ==
  ASSUME ArrayOK, NEW w \in Weights, Add(w)
  PROVE  /\ ArrayOK'
         /\ \A v \in Weights : offered'[v] = offered[v] + IF v <= w THEN 1 ELSE 0
<1>1. prioarray' \in [Slots -> Weights \cup {DblMin}]
  BY DEF Add, ArrayOK
<1>2. offered' = [v \in Weights |-> offered[v] + IF v <= w THEN 1 ELSE 0]
  BY DEF Add
<1> QED
  BY <1>1, <1>2 DEF ArrayOK

(***************************************************************************)
(* add loses a lightest packet, and only when there is no room.            *)
(***************************************************************************)
LEMMA AddCounts ==
  ASSUME ArrayOK, KeepsTheHeaviest, NEW w \in Weights, Add(w)
  PROVE  KeepsTheHeaviest'
<1>1. SUFFICES ASSUME NEW v \in Weights
               PROVE  HowMany(prioarray', v)
                        = IF offered'[v] < QLen THEN offered'[v] ELSE QLen
  BY DEF KeepsTheHeaviest, HowMany, Slots
<1>2. /\ offered'[v] = offered[v] + IF v <= w THEN 1 ELSE 0
      /\ offered[v] \in Nat /\ QLen \in Nat
      /\ v \in Int /\ w \in Int /\ DblMin < w /\ DblMin < v /\ w < DblMax
      /\ DblMax \in Int /\ DblMin \in Int
  BY AddTypes, QLenAssumption, WeightsAssumption DEF ArrayOK, DblMin
<1>3. HowMany(prioarray, v) = IF offered[v] < QLen THEN offered[v] ELSE QLen
  BY DEF KeepsTheHeaviest
<1>4. prioarray \in [Slots -> Int] /\ \A i \in Slots : prioarray[i] < DblMax
  BY ArrayFacts
<1>5. CASE QLen = 0
  <2>1. HowMany(prioarray', v) \in Nat /\ HowMany(prioarray', v) <= QLen
    BY HowManyIs
  <2> QED
    BY <1>2, <1>5, <2>1, AddTypes DEF ArrayOK
<1>6. CASE QLen > 0
  <2> DEFINE b == AddScan(prioarray).idx
  <2>1. b \in Slots /\ IsBottom(prioarray, b) /\ AddScan(prioarray).min = prioarray[b]
    BY <1>6, AddedIs
  <2>2. prioarray' = IF prioarray[b] < w THEN [prioarray EXCEPT ![b] = w]
                     ELSE prioarray
    BY <2>1 DEF Add
  <2> HIDE DEF b
  <2>3. \A i \in Slots : prioarray[b] <= prioarray[i]
    BY <2>1 DEF IsBottom
  <2>4. CASE prioarray[b] < w /\ prioarray[b] < v
    <3>1. HowMany(prioarray', v)
            = HowMany(prioarray, v) + IF v <= w THEN 1 ELSE 0
      BY <1>2, <1>4, <2>1, <2>2, <2>4, HowManyAfter
    <3>2. HowMany(prioarray', v) <= QLen /\ HowMany(prioarray, v) \in Nat
      BY HowManyIs
    <3> QED
      BY <1>2, <1>3, <3>1, <3>2
  <2>5. CASE prioarray[b] >= v
    <3>1. \A i \in Slots : prioarray[i] >= v
      BY <1>2, <1>4, <2>1, <2>3, <2>5
    <3>2. \A i \in Slots : prioarray'[i] >= v
      BY <1>2, <1>4, <2>1, <2>2, <2>5, <3>1
    <3>3. HowMany(prioarray, v) = QLen /\ HowMany(prioarray', v) = QLen
      BY <3>1, <3>2, HowManyIs
    <3> QED
      BY <1>2, <1>3, <3>3
  <2>6. CASE ~(prioarray[b] < w) /\ prioarray[b] < v
    <3>1. prioarray' = prioarray /\ ~(v <= w)
      BY <1>2, <1>4, <2>1, <2>2, <2>6
    <3> QED
      BY <1>2, <1>3, <3>1
  <2> QED
    BY <1>2, <1>4, <2>1, <2>4, <2>5, <2>6
<1> QED
  BY <1>2, <1>5, <1>6

(***************************************************************************)
(* Sending leaves an array that holds what there is left to keep.          *)
(***************************************************************************)
LEMMA SendStep ==
  ASSUME ArrayOK, Send
  PROVE  ArrayOK' /\ KeepsTheHeaviest'
<1>1. /\ prioarray' = [prioarray EXCEPT ![SenderScan(prioarray, idx).idx] = DblMin]
      /\ offered' = [v \in Weights |-> HowMany(prioarray', v)]
  BY DEF Send
<1>2. prioarray' \in [Slots -> Weights \cup {DblMin}]
  BY <1>1 DEF ArrayOK
<1>3. \A v \in Weights :
        HowMany(prioarray', v) \in Nat /\ HowMany(prioarray', v) <= QLen
  BY HowManyIs
<1>4. ArrayOK'
  BY <1>1, <1>2, <1>3 DEF ArrayOK
<1>5. \A v \in Weights : HowMany(prioarray', v)
                            = IF offered'[v] < QLen THEN offered'[v] ELSE QLen
  <2> SUFFICES ASSUME NEW v \in Weights
               PROVE  HowMany(prioarray', v)
                        = IF offered'[v] < QLen THEN offered'[v] ELSE QLen
    OBVIOUS
  <2>1. PICK n \in Nat : n = HowMany(prioarray', v) /\ n <= QLen
    BY <1>3
  <2>2. offered'[v] = n
    BY <1>1, <2>1
  <2> QED
    BY <2>1, <2>2, QLenAssumption
<1>6. KeepsTheHeaviest'
  BY <1>5 DEF KeepsTheHeaviest, HowMany, Slots
<1> QED
  BY <1>4, <1>6

LEMMA ArrayStarts ==
  Init => ArrayOK /\ KeepsTheHeaviest
<1> SUFFICES ASSUME Init PROVE ArrayOK /\ KeepsTheHeaviest
  OBVIOUS
<1>1. /\ prioarray = [i \in Slots |-> DblMin]
      /\ offered = [w \in Weights |-> 0]
  BY DEF Init
<1>2. ASSUME NEW w \in Weights
      PROVE  HowMany(prioarray, w) = 0
  <2>1. w \in Int /\ DblMin \in Int /\ ~(DblMin >= w)
    BY WeightsAssumption DEF DblMin
  <2>2. \A i \in Slots : ~(prioarray[i] >= w)
    BY <1>1, <2>1
  <2> QED
    BY <2>2, HowManyIs
<1> QED
  BY <1>1, <1>2, QLenAssumption DEF ArrayOK, KeepsTheHeaviest

(***************************************************************************)
(* Both operations keep the heaviest.                                      *)
(***************************************************************************)
LEMMA ArrayStep ==
  ASSUME ArrayOK, KeepsTheHeaviest, [Next]_vars
  PROVE  ArrayOK' /\ KeepsTheHeaviest'
<1>1. CASE UNCHANGED vars
  BY <1>1 DEF vars, ArrayOK, KeepsTheHeaviest, HowMany, Slots
<1>2. CASE Send
  BY <1>2, SendStep
<1>3. ASSUME NEW w \in Weights, Add(w)
      PROVE  ArrayOK' /\ KeepsTheHeaviest'
  BY <1>3, AddTypes, AddCounts
<1> QED
  BY <1>1, <1>2, <1>3 DEF Next

(***************************************************************************)
(* Whatever has been added and sent before, and for every length of the    *)
(* array: sender_thread's loop finds a packet if there is one, the first   *)
(* of the heaviest, and add_to_queue's loop the first of the lightest.     *)
(***************************************************************************)
THEOREM LoopsStopWhereSpecified ==
  Spec => []ScansStopWhereSpecified
<1>1. Init => ArrayOK /\ KeepsTheHeaviest
  BY ArrayStarts
<1>2. ArrayOK /\ KeepsTheHeaviest /\ [Next]_vars => (ArrayOK /\ KeepsTheHeaviest)'
  BY ArrayStep
<1>3. ArrayOK => ScansStopWhereSpecified
  <2> SUFFICES ASSUME ArrayOK PROVE ScansStopWhereSpecified
    OBVIOUS
  <2>1. HighestOf(SenderScan(prioarray, idx), prioarray, QLen, idx)
    BY ArrayFacts, SenderScanIs
  <2>2. SenderScan(prioarray, idx).max = DblMin => NothingToSend(prioarray)
    <3> SUFFICES ASSUME SenderScan(prioarray, idx).max = DblMin, NEW i \in Slots
                 PROVE  ~IsTop(prioarray, i)
      BY DEF NothingToSend
    <3>1. prioarray[i] <= DblMin /\ prioarray[i] \in Int /\ DblMin \in Int
      BY <2>1, ArrayFacts DEF HighestOf, Slots, DblMin
    <3> QED
      BY <3>1 DEF IsTop
  <2>3. SenderScan(prioarray, idx).max # DblMin =>
          /\ ~NothingToSend(prioarray)
          /\ IsTop(prioarray, SenderScan(prioarray, idx).idx)
          /\ SenderScan(prioarray, idx).max
               = prioarray[SenderScan(prioarray, idx).idx]
    BY SentIs DEF NothingToSend
  <2>4. QLen > 0 => /\ IsBottom(prioarray, AddScan(prioarray).idx)
                    /\ AddScan(prioarray).min = prioarray[AddScan(prioarray).idx]
    BY AddedIs
  <2> QED
    BY <2>2, <2>3, <2>4 DEF ScansStopWhereSpecified
<1> QED
  BY <1>1, <1>2, <1>3, PTL DEF Spec

(***************************************************************************)
(* A burst between two sends leaves the heaviest packets, as many as the   *)
(* array has room for.                                                     *)
(***************************************************************************)
THEOREM HeaviestAreKept ==
  Spec => []KeepsTheHeaviest
<1>1. Init => ArrayOK /\ KeepsTheHeaviest
  BY ArrayStarts
<1>2. ArrayOK /\ KeepsTheHeaviest /\ [Next]_vars => (ArrayOK /\ KeepsTheHeaviest)'
  BY ArrayStep
<1> QED
  BY <1>1, <1>2, PTL DEF Spec

===============================================================================
