----------------------------- MODULE ShaperProofs -----------------------------
(***************************************************************************)
(* Safety of module Shaper for every queue length, every set of packets,   *)
(* every limit and any number of weight modules.                           *)
(***************************************************************************)
EXTENDS Shaper, NumberLemmas

-----------------------------------------------------------------------------
(***************************************************************************)
(* The pieces that the actions share.                                      *)
(***************************************************************************)

(***************************************************************************)
(* A counter stays within 32 bits whatever is added to it.                 *)
(***************************************************************************)
LEMMA CountTypeOK ==
  ASSUME StatTypeOK, NEW traffic \in [Counters -> Nat], Count(traffic)
  PROVE  stat_info' \in [Counters -> 0 .. U32 - 1]
<1>1. ASSUME NEW c \in Counters
      PROVE  (stat_info[c] + traffic[c]) % U32 \in 0 .. U32 - 1
  BY StatLogAssumption DEF StatTypeOK
<1> QED
  BY <1>1 DEF Count, StatTypeOK

(***************************************************************************)
(* What a verdict counts is a record of naturals.                          *)
(***************************************************************************)
LEMMA TrafficTypeOK ==
  ASSUME NEW n \in Nat
  PROVE  /\ Passed(n) \in [Counters -> Nat]
         /\ Dropped(n) \in [Counters -> Nat]
BY DEF Passed, Dropped, NoTraffic

(***************************************************************************)
(* Setting a verdict keeps the kernel's and the ghost variables' types.    *)
(***************************************************************************)
LEMMA VerdictTypeOK ==
  ASSUME TypeOK, NEW p, SetAccept(p) \/ SetDrop(p)
  PROVE  /\ kernel' \in [Packets -> KernelStates]
         /\ accepts' \in [Packets -> Nat]
         /\ drops' \in [Packets -> Nat]
<1>1. kernel' \in [Packets -> KernelStates]
  BY DEF TypeOK, SetAccept, SetDrop, Settle, KernelStates
<1>2. accepts' \in [Packets -> Nat] /\ drops' \in [Packets -> Nat]
  BY DEF TypeOK, SetAccept, SetDrop
<1> QED
  BY <1>1, <1>2

(***************************************************************************)
(* The outcomes of stat_write keep the types of the statistics.            *)
(***************************************************************************)
LEMMA StatThreadTypeOK ==
  ASSUME StatTypeOK, StatThread
  PROVE  StatTypeOK'
<1>1. CASE WriteRecord
  <2>1. NoTraffic \in [Counters -> 0 .. U32 - 1]
    BY StatLogAssumption DEF NoTraffic
  <2>2. NoSamples \in [Modules -> Nat]
    BY DEF NoSamples
  <2>3. logged' \in [Counters -> Nat]
    BY <1>1, StatLogAssumption DEF WriteRecord, StatTypeOK
  <2> QED
    BY <1>1, <2>1, <2>2, <2>3 DEF WriteRecord, StatTypeOK
<1>2. CASE StatOff
  BY <1>2 DEF StatOff, StatTypeOK
<1>3. CASE ChartOff
  BY <1>3 DEF ChartOff, StatTypeOK
<1> QED
  BY <1>1, <1>2, <1>3 DEF StatThread

-----------------------------------------------------------------------------
(***************************************************************************)
(* Type correctness. The capture thread's cur is a packet exactly outside  *)
(* recv, which its verdicts and counters need.                             *)
(***************************************************************************)
CaptureOK == cur \in Packets <=> capturePc # "recv"

TInv == TypeOK /\ CaptureOK

LEMMA TypeInit == Init => TInv
<1> SUFFICES ASSUME Init PROVE TInv
  OBVIOUS
<1>1. StatTypeOK
  BY StatLogAssumption DEF Init, StatInit, StatTypeOK, NoTraffic, NoSamples
<1>2. kernel \in [Packets -> KernelStates]
  BY DEF Init, KernelStates
<1>3. /\ accepts \in [Packets -> Nat]
      /\ drops \in [Packets -> Nat]
      /\ prioarray \in [Slots -> Int]
  BY DEF Init, DblMin
<1>4. packets \in [Slots -> [id : PacketIds, size : Nat]]
  <2>1. [id |-> NoPacket, size |-> 0] \in [id : PacketIds, size : Nat]
    BY DEF PacketIds
  <2> QED
    BY <2>1 DEF Init
<1>5. weight \in Int /\ next_module \in 1 .. NModules + 1
  BY StatLogAssumption DEF Init, DblEpsilon
<1>6. TypeOK
  BY <1>1, <1>2, <1>3, <1>4, <1>5 DEF Init, TypeOK, PacketIds
<1> QED
  BY <1>6, ShaperAssumption DEF TInv, CaptureOK, Init

LEMMA TypeStep == TInv /\ [Next]_vars => TInv'
<1> SUFFICES ASSUME TypeOK, CaptureOK, [Next]_vars
             PROVE  TypeOK' /\ CaptureOK'
  BY DEF TInv
<1> USE DEF CaptureOK, captureVars, kernelVars, queueVars
<1>1. CASE Environment
  BY <1>1 DEF Environment, Arrive, TypeOK, KernelStates, statVars, StatTypeOK
<1>2. ASSUME NEW p \in Packets, Recv(p)
      PROVE  TypeOK' /\ CaptureOK'
  BY <1>2, ShaperAssumption
     DEF Recv, TypeOK, KernelStates, PacketIds, statVars, StatTypeOK
<1>3. CASE CheckLimit
  <2>1. cur \in Packets /\ Size[cur] \in Nat
    BY <1>3, ShaperAssumption DEF CheckLimit, TypeOK
  <2>2. /\ kernel' \in [Packets -> KernelStates]
        /\ accepts' \in [Packets -> Nat]
        /\ drops' \in [Packets -> Nat]
    BY <1>3, VerdictTypeOK DEF CheckLimit, TypeOK
  <2>3. stat_info' \in [Counters -> 0 .. U32 - 1]
    BY <1>3, <2>1, CountTypeOK, TrafficTypeOK DEF CheckLimit, TypeOK, StatTypeOK
  <2>4. weight' \in Int /\ next_module' \in 1 .. NModules + 1
    BY <1>3, StatLogAssumption
       DEF CheckLimit, ReturnFromCallback, StartWeighing, TypeOK, DblEpsilon
  <2>5. /\ capturePc' \in {"recv", "limit", "weigh"}
        /\ cur' \in PacketIds
        /\ wchartstat' \in BOOLEAN
        /\ CaptureOK'
    BY <1>3, <2>1, ShaperAssumption
       DEF CheckLimit, ReturnFromCallback, StartWeighing, TypeOK, PacketIds,
           StatTypeOK
  <2> QED
    BY <1>3, <2>2, <2>3, <2>4, <2>5 DEF CheckLimit, TypeOK, StatTypeOK
<1>4. CASE Weigh
  <2>1. PICK w \in ModWeights :
          \/ w < 0 /\ weight' = w /\ UNCHANGED <<next_module, samples>>
          \/ /\ w >= 0
             /\ weight' = weight + w
             /\ next_module' = next_module + 1
             /\ IF wchartstat THEN Sample(next_module) ELSE UNCHANGED samples
    BY <1>4 DEF Weigh
  <2>2. weight' \in Int /\ next_module' \in 1 .. NModules + 1
    BY <1>4, <2>1, ShaperAssumption, StatLogAssumption
       DEF Weigh, Weighed, TypeOK
  <2>3. samples' \in [Modules -> Nat]
    BY <2>1 DEF Sample, TypeOK, StatTypeOK
  <2> QED
    BY <1>4, <2>2, <2>3 DEF Weigh, TypeOK, StatTypeOK
<1>5. CASE StoreOrDrop
  <2>1. cur \in Packets /\ Size[cur] \in Nat
    BY <1>5, ShaperAssumption DEF StoreOrDrop, TypeOK
  <2>2. /\ kernel' \in [Packets -> KernelStates]
        /\ accepts' \in [Packets -> Nat]
        /\ drops' \in [Packets -> Nat]
    BY <1>5, VerdictTypeOK
       DEF StoreOrDrop, DropUnwanted, AddToQueue, EmptySlotForNewcomer, TypeOK
  <2>3. stat_info' \in [Counters -> 0 .. U32 - 1]
    <3>1. CASE UNCHANGED stat_info
      BY <3>1 DEF TypeOK, StatTypeOK
    <3>2. CASE \E n \in Nat : Count(Dropped(n))
      BY <3>2, CountTypeOK, TrafficTypeOK DEF TypeOK
    <3> QED
      BY <1>5, <2>1, <3>1, <3>2
         DEF StoreOrDrop, DropUnwanted, AddToQueue, EmptySlotForNewcomer, TypeOK
  <2>4. /\ prioarray' \in [Slots -> Int]
        /\ packets' \in [Slots -> [id : PacketIds, size : Nat]]
    BY <1>5, <2>1
       DEF StoreOrDrop, DropUnwanted, AddToQueue, FillSlot, TypeOK, PacketIds
  <2>5. /\ capturePc' = "recv" /\ cur' = NoPacket
        /\ UNCHANGED <<weight, next_module, wchartstat>>
    BY <1>5 DEF StoreOrDrop, ReturnFromCallback
  <2> QED
    BY <1>5, <2>2, <2>3, <2>4, <2>5, ShaperAssumption
       DEF StoreOrDrop, TypeOK, StatTypeOK, PacketIds
<1>6. ASSUME NEW i \in Slots, SendBest(i)
      PROVE  TypeOK' /\ CaptureOK'
  <2>1. packets[i].size \in Nat
    BY DEF TypeOK
  <2>2. stat_info' \in [Counters -> 0 .. U32 - 1]
    BY <1>6, <2>1, CountTypeOK, TrafficTypeOK DEF SendBest, TypeOK
  <2>3. /\ kernel' \in [Packets -> KernelStates]
        /\ accepts' \in [Packets -> Nat]
        /\ drops' \in [Packets -> Nat]
    BY <1>6, VerdictTypeOK DEF SendBest
  <2>4. prioarray' \in [Slots -> Int]
    BY <1>6 DEF SendBest, EmptySlot, TypeOK, DblMin
  <2> QED
    BY <1>6, <2>2, <2>3, <2>4 DEF SendBest, TypeOK, StatTypeOK
<1>7. CASE FindNothing \/ WakeUp
  BY <1>7 DEF FindNothing, WakeUp, TypeOK, statVars, StatTypeOK
<1>8. CASE Statistics
  BY <1>8, StatThreadTypeOK DEF Statistics, TypeOK
<1>9. CASE UNCHANGED vars
  BY <1>9 DEF vars, TypeOK, statVars, StatTypeOK
<1> QED
  BY <1>1, <1>2, <1>3, <1>4, <1>5, <1>6, <1>7, <1>8, <1>9
     DEF Next, Capture, Sender

(***************************************************************************)
(* Every variable keeps its type, in particular the counters their 32 bits *)
(* and next_module its place among the modules.                            *)
(***************************************************************************)
THEOREM TypeCorrect == Spec => []TypeOK
<1>1. TInv => TypeOK
  BY DEF TInv
<1> QED
  BY <1>1, TypeInit, TypeStep, PTL DEF Spec

-----------------------------------------------------------------------------
(***************************************************************************)
(* One verdict per packet. OneVerdict alone is not inductive: that the     *)
(* sender's packet has no verdict yet follows from what the buffers hold,  *)
(* and that from what the capture thread has in hand when it fills one.    *)
(***************************************************************************)
InHand == cur \in Packets => kernel[cur] = "delivered" /\ ~Judged(cur)

NotReceivedNotJudged ==
  \A p \in Packets : kernel[p] \in {"wire", "queued", "refused"} => ~Judged(p)

WeighsToShape ==
  capturePc = "weigh" => /\ weight < 0 \/ weight >= DblEpsilon
                         /\ limit \notin Special

Inv == /\ TInv
       /\ OneVerdict
       /\ SlotsHoldUnjudged
       /\ SpecialLimits
       /\ InHand
       /\ NotReceivedNotJudged
       /\ WeighsToShape

LEMMA InvInit == Init => Inv
<1> SUFFICES ASSUME Init PROVE Inv
  OBVIOUS
<1>1. TInv
  BY TypeInit
<1>2. Occupied(prioarray) = {}
  BY DEF Init, Occupied
<1>3. \A p \in Packets : ~Judged(p) /\ accepts[p] = 0 /\ drops[p] = 0
  BY DEF Init, Judged
<1> QED
  BY <1>1, <1>2, <1>3, ShaperAssumption
     DEF Inv, OneVerdict, SlotsHoldUnjudged, SpecialLimits, InHand,
         NotReceivedNotJudged, WeighsToShape, Init

(***************************************************************************)
(* A verdict for a packet in hand or in a buffer is its first, and leaves  *)
(* every other packet as it was.                                           *)
(***************************************************************************)
LEMMA FirstVerdict ==
  ASSUME Inv, NEW p \in Packets, ~Judged(p), kernel[p] = "delivered",
         SetAccept(p) \/ SetDrop(p)
  PROVE  /\ OneVerdict'
         /\ NotReceivedNotJudged'
         /\ \A q \in Packets \ {p} : /\ kernel'[q] = kernel[q]
                                     /\ accepts'[q] = accepts[q]
                                     /\ drops'[q] = drops[q]
<1>1. \A q \in Packets \ {p} : /\ kernel'[q] = kernel[q]
                               /\ accepts'[q] = accepts[q]
                               /\ drops'[q] = drops[q]
  BY DEF Inv, TInv, TypeOK, SetAccept, SetDrop, Settle
<1>2. accepts[p] = 0 /\ drops[p] = 0
  <2>1. accepts[p] \in Nat /\ drops[p] \in Nat
    BY DEF Inv, TInv, TypeOK
  <2>2. ~(accepts[p] + drops[p] > 0)
    BY DEF Judged
  <2> QED
    BY <2>1, <2>2
<1>3. accepts'[p] + drops'[p] = 1
  BY <1>2 DEF Inv, TInv, TypeOK, SetAccept, SetDrop
<1>4. kernel'[p] \in {"done", "delivered"}
  BY DEF Inv, TInv, TypeOK, SetAccept, SetDrop, Settle
<1>5. OneVerdict'
  BY <1>1, <1>3 DEF Inv, OneVerdict
<1>6. NotReceivedNotJudged'
  BY <1>1, <1>4 DEF Inv, NotReceivedNotJudged, Judged
<1> QED
  BY <1>1, <1>5, <1>6

(***************************************************************************)
(* A buffer is still in order after a step that leaves it, and the packet  *)
(* in it, alone and takes no packet in hand but one that no buffer holds.  *)
(***************************************************************************)
LEMMA SlotUntouched ==
  ASSUME NEW i \in Slots, SlotOK(i),
         prioarray'[i] = prioarray[i], packets'[i] = packets[i],
         kernel'[packets[i].id] = kernel[packets[i].id],
         accepts'[packets[i].id] = accepts[packets[i].id],
         drops'[packets[i].id] = drops[packets[i].id],
         cur' # packets[i].id
  PROVE  SlotOK(i)'
BY DEF SlotOK, Judged

(***************************************************************************)
(* on_packet's verdicts, for the special limits and for unwanted packets,  *)
(* are for the packet in hand, which is in no buffer.                      *)
(***************************************************************************)
LEMMA VerdictInHand ==
  ASSUME Inv, TypeOK', CaptureOK', capturePc # "recv", ReturnFromCallback,
         UNCHANGED <<limit, queueVars>>,
         \/ SetAccept(cur) /\ limit # 0
         \/ SetDrop(cur) /\ limit # UINT64_MAX
  PROVE  Inv'
<1> USE DEF queueVars
<1>1. cur \in Packets /\ ~Judged(cur) /\ kernel[cur] = "delivered"
  BY DEF Inv, TInv, CaptureOK, InHand
<1>2. /\ OneVerdict'
      /\ NotReceivedNotJudged'
      /\ \A q \in Packets \ {cur} : /\ kernel'[q] = kernel[q]
                                    /\ accepts'[q] = accepts[q]
                                    /\ drops'[q] = drops[q]
  BY <1>1, FirstVerdict
<1>3. SlotsHoldUnjudged'
  <2>1. Occupied(prioarray)' = Occupied(prioarray)
    BY DEF Occupied
  <2>2. ASSUME NEW i \in Occupied(prioarray) PROVE SlotOK(i)'
    <3>1. i \in Slots /\ SlotOK(i)
      BY DEF Inv, SlotsHoldUnjudged, Occupied
    <3>2. packets[i].id \in Packets \ {cur}
      BY <3>1 DEF SlotOK
    <3>3. cur' # packets[i].id
      BY <3>2, ShaperAssumption DEF ReturnFromCallback
    <3> QED
      BY <1>2, <3>1, <3>2, <3>3, SlotUntouched
  <2> QED
    BY <2>1, <2>2 DEF Inv, SlotsHoldUnjudged
<1>4. SpecialLimits'
  BY DEF Inv, SpecialLimits, Occupied, SetAccept, SetDrop
<1>5. InHand' /\ WeighsToShape'
  BY ShaperAssumption DEF ReturnFromCallback, InHand, WeighsToShape
<1> QED
  BY <1>2, <1>3, <1>4, <1>5 DEF Inv, TInv

(***************************************************************************)
(* A step that sets no verdict and leaves the buffers alone.               *)
(***************************************************************************)
LEMMA QuietStep ==
  ASSUME Inv, TypeOK', CaptureOK', InHand', NotReceivedNotJudged',
         WeighsToShape', UNCHANGED <<limit, accepts, drops, queueVars>>,
         \A p \in Packets : kernel[p] = "delivered" => kernel'[p] = kernel[p],
         \A i \in Occupied(prioarray) : cur' # packets[i].id
  PROVE  Inv'
<1> USE DEF queueVars
<1>1. OneVerdict' /\ SpecialLimits'
  BY DEF Inv, OneVerdict, SpecialLimits, Occupied
<1>2. Occupied(prioarray)' = Occupied(prioarray)
  BY DEF Occupied
<1>3. ASSUME NEW i \in Occupied(prioarray) PROVE SlotOK(i)'
  <2>1. i \in Slots /\ SlotOK(i)
    BY DEF Inv, SlotsHoldUnjudged, Occupied
  <2> QED
    BY <2>1, SlotUntouched DEF SlotOK
<1>4. SlotsHoldUnjudged'
  BY <1>2, <1>3 DEF Inv, SlotsHoldUnjudged
<1> QED
  BY <1>1, <1>4 DEF Inv, TInv

(***************************************************************************)
(* The step that fills buffer i, empty before or emptied by a drop.        *)
(***************************************************************************)
LEMMA FillStep ==
  ASSUME Inv, TypeOK', CaptureOK', capturePc = "weigh", ReturnFromCallback,
         weight >= 0, UNCHANGED limit,
         NEW i \in Slots, EmptySlotForNewcomer(i), FillSlot(i)
  PROVE  Inv'
<1>1. cur \in Packets /\ ~Judged(cur) /\ kernel[cur] = "delivered"
  BY DEF Inv, TInv, CaptureOK, InHand
<1>2. weight >= DblEpsilon /\ limit \notin Special
  BY DEF Inv, TInv, TypeOK, WeighsToShape, DblEpsilon
<1>3. /\ OneVerdict' /\ NotReceivedNotJudged'
      /\ \A q \in Packets : (i \in Occupied(prioarray) => q # packets[i].id) =>
           /\ kernel'[q] = kernel[q]
           /\ accepts'[q] = accepts[q]
           /\ drops'[q] = drops[q]
  <2>1. CASE i \in Occupied(prioarray)
    <3>1. SlotOK(i) /\ SetDrop(packets[i].id)
      BY <2>1 DEF EmptySlotForNewcomer, Occupied, Inv, SlotsHoldUnjudged
    <3> QED
      BY <2>1, <3>1, FirstVerdict DEF SlotOK
  <2>2. CASE i \notin Occupied(prioarray)
    <3>1. UNCHANGED kernelVars
      BY <2>2 DEF EmptySlotForNewcomer, Occupied
    <3> QED
      BY <3>1 DEF kernelVars, Inv, OneVerdict, NotReceivedNotJudged, Judged
  <2> QED
    BY <2>1, <2>2
<1>4. cur' = NoPacket /\ NoPacket \notin Packets /\ capturePc' = "recv"
  BY ShaperAssumption DEF ReturnFromCallback
<1>5. ASSUME NEW j \in Slots, prioarray'[j] # DblMin
      PROVE  /\ SlotOK(j)'
             /\ j = i => packets'[j].id = cur
             /\ j # i => /\ j \in Occupied(prioarray)
                         /\ packets'[j] = packets[j]
                         /\ packets[j].id # cur
  <2>1. CASE j = i
    <3>1. prioarray'[i] = weight /\ packets'[i] = [id |-> cur, size |-> Size[cur]]
      BY DEF FillSlot, Inv, TInv, TypeOK
    <3>2. i \in Occupied(prioarray) => cur # packets[i].id
      BY DEF Inv, SlotsHoldUnjudged, SlotOK
    <3>3. ~(accepts'[cur] + drops'[cur] > 0) /\ kernel'[cur] = "delivered"
      BY <1>1, <1>3, <3>2 DEF Judged
    <3> QED
      BY <1>1, <1>2, <1>4, <2>1, <3>1, <3>3 DEF SlotOK, Judged
  <2>2. CASE j # i
    <3>1. prioarray'[j] = prioarray[j] /\ packets'[j] = packets[j]
      BY <2>2 DEF FillSlot, Inv, TInv, TypeOK
    <3>2. j \in Occupied(prioarray) /\ SlotOK(j)
      BY <1>5, <3>1 DEF Occupied, Inv, SlotsHoldUnjudged
    <3>3. i \in Occupied(prioarray) => packets[j].id # packets[i].id
      BY <2>2, <3>2 DEF Inv, SlotsHoldUnjudged
    <3>4. SlotOK(j)'
      BY <1>3, <1>4, <3>1, <3>2, <3>3, SlotUntouched DEF SlotOK
    <3> QED
      BY <2>2, <3>1, <3>2, <3>4 DEF SlotOK
  <2> QED
    BY <2>1, <2>2
<1>6. SlotsHoldUnjudged'
  BY <1>5 DEF SlotsHoldUnjudged, Occupied, Inv
<1>7. SpecialLimits' /\ InHand' /\ WeighsToShape'
  BY <1>2, <1>4 DEF SpecialLimits, Special, InHand, WeighsToShape
<1> QED
  BY <1>3, <1>6, <1>7 DEF Inv, TInv

(***************************************************************************)
(* The sender's step: the buffer it empties held a packet without verdict. *)
(***************************************************************************)
LEMMA SendStep ==
  ASSUME Inv, TypeOK', CaptureOK', NEW i \in Slots, SendBest(i)
  PROVE  Inv'
<1>1. i \in Occupied(prioarray) /\ SlotOK(i) /\ SetAccept(packets[i].id)
  BY DEF SendBest, IsTop, Occupied, Inv, TInv, TypeOK, SlotsHoldUnjudged, DblMin
<1>2. /\ OneVerdict' /\ NotReceivedNotJudged'
      /\ \A q \in Packets \ {packets[i].id} : /\ kernel'[q] = kernel[q]
                                              /\ accepts'[q] = accepts[q]
                                              /\ drops'[q] = drops[q]
  BY <1>1, FirstVerdict DEF SlotOK
<1>3. UNCHANGED <<limit, packets, captureVars>>
  BY DEF SendBest
<1>4. /\ Occupied(prioarray)' = Occupied(prioarray) \ {i}
      /\ \A j \in Slots \ {i} : prioarray'[j] = prioarray[j]
  BY DEF SendBest, EmptySlot, Occupied, Inv, TInv, TypeOK
<1>5. ASSUME NEW j \in Occupied(prioarray) \ {i} PROVE SlotOK(j)'
  <2>1. j \in Slots /\ SlotOK(j) /\ packets[j].id # packets[i].id
    BY <1>1 DEF Occupied, Inv, SlotsHoldUnjudged
  <2> QED
    BY <1>2, <1>3, <1>4, <2>1, SlotUntouched DEF SlotOK, captureVars
<1>6. SlotsHoldUnjudged'
  BY <1>3, <1>4, <1>5 DEF Inv, SlotsHoldUnjudged
<1>7. SpecialLimits'
  BY <1>1, <1>3 DEF Inv, SpecialLimits, Special
<1>8. InHand' /\ WeighsToShape'
  BY <1>1, <1>2, <1>3
     DEF Inv, InHand, WeighsToShape, SlotOK, Judged, captureVars
<1> QED
  BY <1>2, <1>6, <1>7, <1>8 DEF Inv, TInv

LEMMA InvStep == Inv /\ [Next]_vars => Inv'
<1> SUFFICES ASSUME Inv, [Next]_vars PROVE Inv'
  OBVIOUS
<1> USE DEF captureVars, kernelVars, queueVars
<1>t. TypeOK' /\ CaptureOK'
  BY TypeStep DEF Inv, TInv
<1>o. \A i \in Occupied(prioarray) : i \in Slots /\ SlotOK(i)
  BY DEF Inv, SlotsHoldUnjudged, Occupied
<1>1. ASSUME NEW p \in Packets, Arrive(p, Cardinality(InKernel))
      PROVE  Inv'
  <2>1. /\ \A q \in Packets : kernel[q] = "delivered" => kernel'[q] = kernel[q]
        /\ \A q \in Packets :
             \/ kernel'[q] = kernel[q]
             \/ kernel[q] = "wire" /\ kernel'[q] \in {"queued", "refused"}
    <3>1. kernel[p] = "wire" /\ kernel \in [Packets -> KernelStates]
      BY <1>1 DEF Arrive, Inv, TInv, TypeOK
    <3>2. PICK k \in {"queued", "refused"} : kernel' = [kernel EXCEPT ![p] = k]
      BY <1>1 DEF Arrive
    <3>3. \A q \in Packets : kernel'[q] = IF q = p THEN k ELSE kernel[q]
      BY <3>1, <3>2
    <3> QED
      BY <3>1, <3>3
  <2>2. InHand' /\ NotReceivedNotJudged' /\ WeighsToShape'
    BY <1>1, <2>1
       DEF Arrive, Inv, InHand, NotReceivedNotJudged, WeighsToShape, Judged
  <2> QED
    BY <1>1, <1>t, <1>o, <2>1, <2>2, QuietStep DEF Arrive, SlotOK
<1>2. ASSUME NEW p \in Packets, Recv(p)
      PROVE  Inv'
  <2>1. /\ \A q \in Packets : kernel[q] = "delivered" => kernel'[q] = kernel[q]
        /\ \A q \in Packets \ {p} : kernel'[q] = kernel[q]
        /\ kernel[p] = "queued" /\ kernel'[p] = "delivered"
    BY <1>2 DEF Recv, Inv, TInv, TypeOK
  <2>2. ~Judged(p) /\ UNCHANGED <<accepts, drops>> /\ cur' \in {p, cur}
    BY <1>2, <2>1 DEF Recv, Inv, NotReceivedNotJudged
  <2>3. InHand' /\ NotReceivedNotJudged' /\ WeighsToShape'
    BY <1>2, <2>1, <2>2
       DEF Recv, Inv, InHand, NotReceivedNotJudged, WeighsToShape, Judged
  <2>4. \A i \in Occupied(prioarray) : cur' # packets[i].id
    BY <1>o, <2>1, <2>2 DEF SlotOK
  <2> QED
    BY <1>2, <1>t, <2>1, <2>3, <2>4, QuietStep DEF Recv
<1>3. CASE CheckLimit
  <2>1. CASE limit \in Special
    BY <1>3, <1>t, <2>1, VerdictInHand, ShaperAssumption
       DEF CheckLimit, Special
  <2>2. CASE limit \notin Special
    <3>1. /\ UNCHANGED <<limit, kernelVars, queueVars, cur>>
          /\ weight' = DblEpsilon
      BY <1>3, <2>2 DEF CheckLimit, Special, StartWeighing
    <3>2. InHand' /\ NotReceivedNotJudged' /\ WeighsToShape'
      BY <2>2, <3>1
         DEF Inv, InHand, NotReceivedNotJudged, WeighsToShape, Judged, DblEpsilon
    <3> QED
      BY <1>t, <1>o, <3>1, <3>2, QuietStep DEF SlotOK
  <2> QED
    BY <2>1, <2>2
<1>4. CASE Weigh
  <2>1. UNCHANGED <<limit, kernelVars, queueVars, capturePc, cur>>
    BY <1>4 DEF Weigh
  <2>2. weight' < 0 \/ weight' >= DblEpsilon
    <3>1. weight \in Int /\ weight >= DblEpsilon
      BY <1>4 DEF Weigh, Weighed, Inv, TInv, TypeOK, WeighsToShape
    <3> QED
      BY <1>4, <3>1, ShaperAssumption DEF Weigh, DblEpsilon
  <2>3. InHand' /\ NotReceivedNotJudged' /\ WeighsToShape'
    BY <2>1, <2>2
       DEF Inv, InHand, NotReceivedNotJudged, WeighsToShape, Judged
  <2> QED
    BY <1>t, <1>o, <2>1, <2>3, QuietStep DEF SlotOK
<1>5. CASE StoreOrDrop
  <2>1. CASE DropUnwanted
    <3>1. limit # UINT64_MAX
      BY <1>5 DEF StoreOrDrop, Inv, WeighsToShape, Special
    <3> QED
      BY <1>5, <1>t, <2>1, <3>1, VerdictInHand
         DEF StoreOrDrop, DropUnwanted
  <2>2. ASSUME AddToQueue, NEW i \in Slots, EmptySlotForNewcomer(i), FillSlot(i)
        PROVE  Inv'
    BY <1>5, <1>t, <2>2, FillStep DEF StoreOrDrop, AddToQueue
  <2>3. CASE UNCHANGED <<kernelVars, queueVars>>
    <3>1. UNCHANGED limit /\ cur' = NoPacket /\ capturePc' = "recv"
      BY <1>5 DEF StoreOrDrop, ReturnFromCallback
    <3>2. InHand' /\ NotReceivedNotJudged' /\ WeighsToShape'
      BY <2>3, <3>1, ShaperAssumption
         DEF Inv, InHand, NotReceivedNotJudged, WeighsToShape, Judged
    <3> QED
      BY <1>t, <1>o, <2>3, <3>1, <3>2, QuietStep, ShaperAssumption DEF SlotOK
  <2> QED
    BY <1>5, <2>1, <2>2, <2>3 DEF StoreOrDrop, AddToQueue
<1>6. ASSUME NEW i \in Slots, SendBest(i)
      PROVE  Inv'
  BY <1>6, <1>t, SendStep
<1>7. CASE FindNothing \/ WakeUp \/ Statistics \/ UNCHANGED vars
  <2>1. UNCHANGED <<limit, kernelVars, queueVars, captureVars>>
    BY <1>7 DEF FindNothing, WakeUp, Statistics, vars
  <2>2. InHand' /\ NotReceivedNotJudged' /\ WeighsToShape'
    BY <2>1 DEF Inv, InHand, NotReceivedNotJudged, WeighsToShape, Judged
  <2> QED
    BY <1>t, <1>o, <2>1, <2>2, QuietStep DEF SlotOK
<1> QED
  BY <1>1, <1>2, <1>3, <1>4, <1>5, <1>6, <1>7
     DEF Next, Environment, Capture, Sender

(***************************************************************************)
(* Whatever the interleaving of the capture, sender and statistics         *)
(* threads, no packet is given two verdicts.                               *)
(***************************************************************************)
THEOREM VerdictsAreUnique == Spec => []OneVerdict
<1>1. Inv => OneVerdict
  BY DEF Inv
<1> QED
  BY <1>1, InvInit, InvStep, PTL DEF Spec

(***************************************************************************)
(* Every buffer in use holds one packet that awaits its verdict.           *)
(***************************************************************************)
THEOREM BuffersHoldUnjudged == Spec => []SlotsHoldUnjudged
<1>1. Inv => SlotsHoldUnjudged
  BY DEF Inv
<1> QED
  BY <1>1, InvInit, InvStep, PTL DEF Spec

(***************************************************************************)
(* "Traffic disabled" passes nothing and "no shaping" drops nothing.       *)
(***************************************************************************)
THEOREM SpecialLimitsHold == Spec => []SpecialLimits
<1>1. Inv => SpecialLimits
  BY DEF Inv
<1> QED
  BY <1>1, InvInit, InvStep, PTL DEF Spec

-----------------------------------------------------------------------------
(***************************************************************************)
(* A verdict for q is a verdict for no other packet.                       *)
(***************************************************************************)
LEMMA VerdictForOne ==
  ASSUME TypeOK, NEW q \in Packets, SetAccept(q) \/ SetDrop(q),
         NEW p \in Packets, p # q
  PROVE  accepts'[p] = accepts[p] /\ drops'[p] = drops[p]
BY DEF TypeOK, SetAccept, SetDrop

LEMMA OrderStep ==
  ASSUME Inv, Next, NEW i \in Occupied(prioarray)
  PROVE  LeavesInOrder(i)
<1> DEFINE p == packets[i].id
<1> USE DEF kernelVars
<1>1. /\ i \in Slots /\ p \in Packets /\ p # cur
      /\ accepts[p] \in Nat /\ drops[p] \in Nat
  BY DEF Inv, TInv, TypeOK, SlotsHoldUnjudged, SlotOK, Occupied
<1>2. CASE UNCHANGED <<accepts, drops>>
  BY <1>1, <1>2 DEF LeavesInOrder
<1>3. CASE \E q \in Packets \ {p} : SetAccept(q) \/ SetDrop(q)
  <2>1. accepts'[p] = accepts[p] /\ drops'[p] = drops[p]
    BY <1>1, <1>3, VerdictForOne DEF Inv, TInv
  <2> QED
    BY <1>1, <2>1 DEF LeavesInOrder
<1>4. CASE SendBest(i)
  <2>1. \A j \in Occupied(prioarray) : prioarray[j] <= prioarray[i]
    BY <1>4 DEF SendBest, IsTop, Occupied, DblMin
  <2>2. drops'[p] = drops[p]
    BY <1>4 DEF SendBest, SetAccept
  <2> QED
    BY <1>1, <2>1, <2>2 DEF LeavesInOrder
<1>5. CASE /\ IsBottom(prioarray, i) /\ Displaces(prioarray, i, weight)
           /\ EmptySlotForNewcomer(i) /\ FillSlot(i)
  <2>1. accepts'[p] = accepts[p]
    BY <1>5 DEF EmptySlotForNewcomer, SetDrop
  <2>2. ASSUME NEW j \in Slots PROVE prioarray[i] <= prioarray'[j]
    <3>1. /\ prioarray[i] \in Int /\ prioarray[j] \in Int /\ weight \in Int
          /\ prioarray'[j] = IF j = i THEN weight ELSE prioarray[j]
      BY <1>1, <1>5 DEF FillSlot, Inv, TInv, TypeOK
    <3> QED
      BY <1>5, <3>1 DEF IsBottom, Displaces
  <2> QED
    BY <1>1, <2>1, <2>2 DEF LeavesInOrder, Occupied
<1>6. ASSUME NEW j \in Slots, j # i, SendBest(j) \/ EmptySlotForNewcomer(j)
      PROVE  \/ UNCHANGED <<accepts, drops>>
             \/ \E q \in Packets \ {p} : SetAccept(q) \/ SetDrop(q)
  <2>1. CASE j \notin Occupied(prioarray)
    BY <1>6, <2>1
       DEF SendBest, IsTop, EmptySlotForNewcomer, Occupied, DblMin
  <2>2. CASE j \in Occupied(prioarray)
    <3>1. packets[j].id \in Packets \ {p}
      BY <1>6, <2>2 DEF Inv, SlotsHoldUnjudged, SlotOK
    <3> QED
      BY <1>6, <2>2, <3>1 DEF SendBest, EmptySlotForNewcomer, Occupied
  <2> QED
    BY <2>1, <2>2
<1>7. CASE CheckLimit \/ (StoreOrDrop /\ DropUnwanted)
  <2>1. cur \in Packets \ {p}
    BY <1>1, <1>7 DEF CheckLimit, StoreOrDrop, Inv, TInv, CaptureOK
  <2> QED
    BY <1>2, <1>3, <1>7, <2>1 DEF CheckLimit, DropUnwanted
<1>8. CASE AddToQueue
  BY <1>2, <1>3, <1>5, <1>6, <1>8 DEF AddToQueue
<1>9. ASSUME NEW j \in Slots, SendBest(j)
      PROVE  LeavesInOrder(i)
  BY <1>2, <1>3, <1>4, <1>6, <1>9
<1>10. CASE \/ Environment \/ FindNothing \/ WakeUp \/ Weigh \/ Statistics
            \/ \E q \in Packets : Recv(q)
  BY <1>2, <1>10
     DEF Environment, Arrive, FindNothing, WakeUp, Weigh, Statistics, Recv
<1> QED
  BY <1>7, <1>8, <1>9, <1>10 DEF Next, Capture, Sender, StoreOrDrop

(***************************************************************************)
(* A packet sent from the queue outranks all others in it and a displaced  *)
(* one is outranked by all others, although the capture thread may refill  *)
(* buffers between any two rounds of the sender.                           *)
(***************************************************************************)
THEOREM HeaviestAreSent == Spec => HeaviestFirst
<1>1. Inv /\ [Next]_vars => [\A i \in Occupied(prioarray) : LeavesInOrder(i)]_vars
  BY OrderStep
<1> QED
  BY <1>1, InvInit, InvStep, PTL DEF Spec, HeaviestFirst

-----------------------------------------------------------------------------
(***************************************************************************)
(* Statistics. Every verdict comes with a call of Count for the same       *)
(* packet's size: on_packet takes it from the packet in hand, add_to_queue *)
(* and the sender from the buffer, which describes the packet it holds.    *)
(***************************************************************************)
(***************************************************************************)
(* Verdicts are as many as naturals can count.                             *)
(***************************************************************************)
LEMMA VerdictsAreInt ==
  ASSUME IsFiniteSet(Packets), TypeOK, NEW c \in Counters
  PROVE  VerdictsIn(c) \in Int
<1>1. \A p \in Packets : Counted(c, p) \in Int
  <2>1. \A p \in Packets : accepts[p] \in Nat /\ drops[p] \in Nat /\ Size[p] \in Nat
    BY ShaperAssumption DEF TypeOK
  <2> QED
    BY <2>1 DEF Counted, Counters
<1> DEFINE f == [p \in Packets |-> Counted(c, p)]
<1>2. \A p \in Packets : f[p] \in Int
  BY <1>1
<1>3. DOMAIN f = Packets
  OBVIOUS
<1> HIDE DEF f
<1>4. SumFunctionOnSet(f, Packets) \in Int
  BY <1>2, SumIsInt
<1> QED
  BY <1>3, <1>4 DEF f, VerdictsIn, SumFunction

(***************************************************************************)
(* One verdict adds to the sums what Passed and Dropped say.               *)
(***************************************************************************)
LEMMA VerdictAdds ==
  ASSUME IsFiniteSet(Packets), TypeOK, TypeOK', NEW p \in Packets, NEW traffic,
         \/ SetAccept(p) /\ traffic = Passed(Size[p])
         \/ SetDrop(p) /\ traffic = Dropped(Size[p]),
         NEW c \in Counters
  PROVE  VerdictsIn(c)' = VerdictsIn(c) + traffic[c]
<1>0. \A n, size \in Nat : (n + 1) * size = n * size + size
  OBVIOUS
<1>1. \A q \in Packets : /\ accepts[q] \in Nat /\ drops[q] \in Nat
                         /\ accepts'[q] \in Nat /\ drops'[q] \in Nat
                         /\ Size[q] \in Nat
  BY ShaperAssumption DEF TypeOK
<1>2. \A q \in Packets \ {p} : accepts'[q] = accepts[q] /\ drops'[q] = drops[q]
  BY DEF TypeOK, SetAccept, SetDrop
<1>3. /\ accepts'[p] = accepts[p] + traffic["packets_pass"]
      /\ drops'[p] = drops[p] + traffic["packets_drop"]
      /\ accepts'[p] * Size[p] = accepts[p] * Size[p] + traffic["octets_pass"]
      /\ drops'[p] * Size[p] = drops[p] * Size[p] + traffic["octets_drop"]
  <2>1. CASE SetAccept(p) /\ traffic = Passed(Size[p])
    <3>1. accepts'[p] = accepts[p] + 1 /\ drops'[p] = drops[p]
      BY <2>1 DEF SetAccept, TypeOK
    <3>2. (accepts[p] + 1) * Size[p] = accepts[p] * Size[p] + Size[p]
      BY <1>0, <1>1
    <3>3. accepts[p] * Size[p] \in Int /\ drops[p] * Size[p] \in Int
      BY <1>1
    <3> QED
      BY <1>1, <2>1, <3>1, <3>2, <3>3 DEF Passed, NoTraffic, Counters
  <2>2. CASE SetDrop(p) /\ traffic = Dropped(Size[p])
    <3>1. drops'[p] = drops[p] + 1 /\ accepts'[p] = accepts[p]
      BY <2>2 DEF SetDrop, TypeOK
    <3>2. (drops[p] + 1) * Size[p] = drops[p] * Size[p] + Size[p]
      BY <1>0, <1>1
    <3>3. accepts[p] * Size[p] \in Int /\ drops[p] * Size[p] \in Int
      BY <1>1
    <3> QED
      BY <1>1, <2>2, <3>1, <3>2, <3>3 DEF Dropped, NoTraffic, Counters
  <2> QED
    BY <2>1, <2>2
<1> DEFINE f == [q \in Packets |-> Counted(c, q)]
           g == [q \in Packets |-> Counted(c, q)']
<1>4. /\ \A q \in Packets : f[q] \in Int /\ g[q] \in Int
      /\ \A q \in Packets \ {p} : g[q] = f[q]
      /\ g[p] = f[p] + traffic[c]
      /\ traffic[c] \in Int
  <2>1. \A q \in Packets : f[q] \in Int /\ g[q] \in Int
    BY <1>1 DEF Counted, Counters
  <2>2. \A q \in Packets \ {p} : g[q] = f[q]
    BY <1>2 DEF Counted, Counters
  <2>3. g[p] = f[p] + traffic[c]
    BY <1>3 DEF Counted, Counters
  <2>4. traffic[c] \in Int
    BY <1>1 DEF Passed, Dropped, NoTraffic, Counters
  <2> QED
    BY <2>1, <2>2, <2>3, <2>4
<1>5. VerdictsIn(c) = SumFunctionOnSet(f, Packets)
  BY DEF VerdictsIn, SumFunction
<1>6. VerdictsIn(c)' = SumFunctionOnSet(g, Packets)
  BY DEF VerdictsIn, SumFunction
<1> HIDE DEF f, g
<1>7. SumFunctionOnSet(g, Packets) = (SumFunctionOnSet(f, Packets) - f[p]) + g[p]
  BY <1>4, SumChange
<1>8. SumFunctionOnSet(f, Packets) \in Int
  BY <1>4, SumIsInt
<1> QED
  BY <1>4, <1>5, <1>6, <1>7, <1>8

(***************************************************************************)
(* A verdict that is counted keeps the account, wrapped or not.            *)
(***************************************************************************)
LEMMA VerdictCounted ==
  ASSUME IsFiniteSet(Packets), StatsAccountForVerdicts, TypeOK, TypeOK',
         NEW p \in Packets, NEW traffic, Count(traffic),
         \/ SetAccept(p) /\ traffic = Passed(Size[p])
         \/ SetDrop(p) /\ traffic = Dropped(Size[p]),
         UNCHANGED <<stat, logged>>
  PROVE  StatsAccountForVerdicts'
<1> SUFFICES ASSUME stat, NEW c \in Counters
             PROVE  (logged'[c] + stat_info'[c]) % U32 = VerdictsIn(c)' % U32
  BY DEF StatsAccountForVerdicts
<1>1. VerdictsIn(c)' = VerdictsIn(c) + traffic[c]
  BY VerdictAdds
<1>2. stat_info'[c] = (stat_info[c] + traffic[c]) % U32
  BY DEF Count
<1>3. (logged[c] + stat_info[c]) % U32 = VerdictsIn(c) % U32
  BY DEF StatsAccountForVerdicts
<1>4. logged[c] \in Int /\ stat_info[c] \in Int
  BY StatLogAssumption DEF TypeOK, StatTypeOK
<1>5. traffic[c] \in Int
  BY ShaperAssumption DEF Passed, Dropped, NoTraffic
<1>6. VerdictsIn(c) \in Int
  BY VerdictsAreInt
<1> DEFINE a == logged[c]
           b == stat_info[c]
           t == traffic[c]
           v == VerdictsIn(c)
<1>7. a \in Int /\ b \in Int /\ t \in Int /\ v \in Int
  BY <1>4, <1>5, <1>6
<1>8. (a + b) % U32 = v % U32
  BY <1>3
<1> HIDE DEF a, b, t, v
<1>9. (a + ((b + t) % U32)) % U32 = (v + t) % U32
  <2>1. AreInt(a, b, t, v)
    BY <1>7 DEF AreInt
  <2>2. U32 \in Nat \ {0}
    BY StatLogAssumption
  <2> QED
    BY <1>8, <2>1, <2>2, WrappedSum
<1> QED
  BY <1>1, <1>2, <1>9 DEF a, b, t, v

(***************************************************************************)
(* No verdict, no counter: nothing to account for.                         *)
(***************************************************************************)
LEMMA NothingCounted ==
  ASSUME StatsAccountForVerdicts,
         UNCHANGED <<accepts, drops, stat, stat_info, logged>>
  PROVE  StatsAccountForVerdicts'
<1>1. \A c \in Counters : VerdictsIn(c)' = VerdictsIn(c)
  BY DEF VerdictsIn, Counted
<1> QED
  BY <1>1 DEF StatsAccountForVerdicts

(***************************************************************************)
(* Writing a record moves the counters into it; giving statistics up ends  *)
(* the account.                                                            *)
(***************************************************************************)
LEMMA RecordKeepsAccount ==
  ASSUME StatsAccountForVerdicts, TypeOK, Statistics
  PROVE  StatsAccountForVerdicts'
<1>1. \A c \in Counters : VerdictsIn(c)' = VerdictsIn(c)
  BY DEF VerdictsIn, Counted, Statistics, kernelVars
<1>2. CASE WriteRecord
  <2>1. ASSUME NEW c \in Counters
        PROVE  logged'[c] + stat_info'[c] = logged[c] + stat_info[c]
    <3>1. logged[c] \in Int /\ stat_info[c] \in Int
      BY StatLogAssumption DEF TypeOK, StatTypeOK
    <3> QED
      BY <1>2, <3>1 DEF WriteRecord, NoTraffic
  <2> QED
    BY <1>1, <1>2, <2>1 DEF StatsAccountForVerdicts, WriteRecord
<1>3. CASE StatOff
  BY <1>3 DEF StatOff, StatsAccountForVerdicts
<1>4. CASE ChartOff
  BY <1>4, NothingCounted DEF ChartOff, Statistics, kernelVars
<1> QED
  BY <1>2, <1>3, <1>4 DEF Statistics, StatThread

(***************************************************************************)
(* Every step keeps the account: what it judges it counts, and a tick only *)
(* moves the counts into the record.                                       *)
(***************************************************************************)
LEMMA AccountStep ==
  ASSUME IsFiniteSet(Packets), Inv, Inv', StatsAccountForVerdicts, [Next]_vars
  PROVE  StatsAccountForVerdicts'
<1>1. TypeOK /\ TypeOK' /\ CaptureOK
  BY DEF Inv, TInv
<1>2. CASE CheckLimit
  <2>1. cur \in Packets
    BY <1>1, <1>2 DEF CheckLimit, CaptureOK
  <2>2. CASE limit \in Special
    BY <1>1, <1>2, <2>1, <2>2, VerdictCounted DEF CheckLimit, Special
  <2>3. CASE limit \notin Special
    BY <1>2, <2>3, NothingCounted DEF CheckLimit, Special, kernelVars
  <2> QED
    BY <2>2, <2>3
<1>3. CASE StoreOrDrop
  <2>1. CASE DropUnwanted
    <3>1. cur \in Packets
      BY <1>1, <1>3 DEF StoreOrDrop, CaptureOK
    <3> QED
      BY <1>1, <1>3, <2>1, <3>1, VerdictCounted DEF StoreOrDrop, DropUnwanted
  <2>2. ASSUME NEW i \in Slots, EmptySlotForNewcomer(i)
        PROVE  StatsAccountForVerdicts'
    <3>1. CASE i \in Occupied(prioarray)
      <4>1. packets[i].id \in Packets /\ packets[i].size = Size[packets[i].id]
        BY <3>1 DEF Inv, SlotsHoldUnjudged, SlotOK
      <4> QED
        BY <1>1, <1>3, <2>2, <3>1, <4>1, VerdictCounted
           DEF StoreOrDrop, EmptySlotForNewcomer, Occupied
    <3>2. CASE i \notin Occupied(prioarray)
      BY <1>3, <2>2, <3>2, NothingCounted
         DEF StoreOrDrop, EmptySlotForNewcomer, Occupied, kernelVars
    <3> QED
      BY <3>1, <3>2
  <2> QED
    BY <1>3, <2>1, <2>2, NothingCounted DEF StoreOrDrop, AddToQueue, kernelVars
<1>4. ASSUME NEW i \in Slots, SendBest(i)
      PROVE  StatsAccountForVerdicts'
  <2>1. i \in Occupied(prioarray)
    BY <1>4 DEF SendBest, IsTop, Occupied, DblMin
  <2>2. packets[i].id \in Packets /\ packets[i].size = Size[packets[i].id]
    BY <2>1 DEF Inv, SlotsHoldUnjudged, SlotOK
  <2> QED
    BY <1>1, <1>4, <2>2, VerdictCounted DEF SendBest
<1>5. CASE Statistics
  BY <1>1, <1>5, RecordKeepsAccount
<1>6. CASE \/ Environment \/ Weigh \/ FindNothing \/ WakeUp \/ UNCHANGED vars
           \/ \E p \in Packets : Recv(p)
  BY <1>6, NothingCounted
     DEF Environment, Arrive, Recv, Weigh, FindNothing, WakeUp, vars, statVars,
         kernelVars
<1> QED
  BY <1>2, <1>3, <1>4, <1>5, <1>6 DEF Next, Capture, Sender

(***************************************************************************)
(* The records written and the counters in memory account for every        *)
(* verdict of either thread, modulo 2^32, for any finite number of packets *)
(* of any sizes. A packet's netfilter id has 32 bits, so that there are    *)
(* finitely many.                                                          *)
(***************************************************************************)
THEOREM VerdictsAreCounted ==
  ASSUME IsFiniteSet(Packets)
  PROVE  Spec => []StatsAccountForVerdicts
<1>1. Init => StatsAccountForVerdicts
  <2> SUFFICES ASSUME Init, NEW c \in Counters
               PROVE  (logged[c] + stat_info[c]) % U32 = VerdictsIn(c) % U32
    BY DEF StatsAccountForVerdicts
  <2> DEFINE f == [p \in Packets |-> Counted(c, p)]
  <2>1. \A p \in Packets : f[p] = 0
    <3>1. \A p \in Packets : Size[p] \in Nat
      BY ShaperAssumption
    <3> QED
      BY <3>1 DEF Init, Counted, Counters
  <2>2. VerdictsIn(c) = SumFunctionOnSet(f, Packets)
    BY DEF VerdictsIn, SumFunction
  <2> HIDE DEF f
  <2>3. VerdictsIn(c) = 0
    BY <2>1, <2>2, SumIsZero
  <2>4. logged[c] = 0 /\ stat_info[c] = 0
    BY DEF Init, StatInit, NoTraffic
  <2> QED
    BY <2>3, <2>4
<1>2. Inv /\ Inv' /\ StatsAccountForVerdicts /\ [Next]_vars
        => StatsAccountForVerdicts'
  BY AccountStep
<1> QED
  BY <1>1, <1>2, InvInit, InvStep, PTL DEF Spec

-----------------------------------------------------------------------------
(***************************************************************************)
(* There are QLen slots, and a part of them that is not all has fewer.     *)
(***************************************************************************)
LEMMA SlotsAreFinite ==
  ASSUME NEW S \in SUBSET Slots
  PROVE  /\ IsFiniteSet(S)
         /\ Cardinality(S) <= QLen
         /\ Cardinality(S) = QLen <=> S = Slots
<1>1. IsFiniteSet(Slots) /\ Cardinality(Slots) = QLen
  BY QLenAssumption, FS_Interval DEF Slots
<1> QED
  BY <1>1, FS_Subset

(***************************************************************************)
(* The abstract queue as the buffers hold it: its packets are those of the *)
(* occupied buffers, each with its buffer's priority, and there are as     *)
(* many packets as occupied buffers.                                       *)
(***************************************************************************)
Ids == {packets[i].id : i \in Occupied(prioarray)}

QueueFacts ==
  /\ DOMAIN HeldPriorities = Ids
  /\ \A i \in Occupied(prioarray) :
       HeldPriorities[packets[i].id] = prioarray[i]
  /\ Cardinality(Ids) = Cardinality(Occupied(prioarray))

(***************************************************************************)
(* When the buffers hold different packets, the CHOOSE in HeldPriorities   *)
(* finds the packet's own buffer.                                          *)
(***************************************************************************)
LEMMA HeldNow == SlotsHoldUnjudged => QueueFacts
<1> SUFFICES ASSUME SlotsHoldUnjudged PROVE QueueFacts
  OBVIOUS
<1> DEFINE occ == Occupied(prioarray)
           held == HeldPriorities
<1>1. IsFiniteSet(occ)
  BY SlotsAreFinite DEF Occupied
<1>2. \A i, j \in occ : packets[i].id = packets[j].id => i = j
  BY DEF SlotsHoldUnjudged
<1>3. held = [p \in {packets[i].id : i \in occ} |->
                prioarray[CHOOSE i \in occ : packets[i].id = p]]
  BY DEF HeldPriorities, SlotOf
<1>4. Ids = {packets[i].id : i \in occ}
  BY DEF Ids
<1> HIDE DEF QueueFacts, occ, held
<1>5. /\ DOMAIN held = {packets[i].id : i \in occ}
      /\ \A i \in occ : held[packets[i].id] = prioarray[i]
      /\ Cardinality(DOMAIN held) = Cardinality(occ)
  <2>1. DOMAIN held = {packets[i].id : i \in occ}
    BY <1>3
  <2>2. \A i \in occ : (CHOOSE j \in occ : packets[j].id = packets[i].id) = i
    BY <1>2
  <2>3. \A i \in occ : held[packets[i].id] = prioarray[i]
    BY <1>3, <2>2
  <2>4. Cardinality(DOMAIN held) = Cardinality(occ)
    <3> DEFINE f == [i \in occ |-> packets[i].id]
    <3>1. f \in Bijection(occ, DOMAIN held)
      BY <1>2, <2>1 DEF Bijection, Injection, Surjection, IsInjective
    <3>2. ExistsBijection(occ, DOMAIN held)
      BY <3>1 DEF ExistsBijection
    <3> QED
      BY <1>1, <3>2, FS_Bijection
  <2> QED
    BY <2>1, <2>3, <2>4
<1> QED
  BY <1>4, <1>5 DEF QueueFacts, occ, held

(***************************************************************************)
(* The same after a step.                                                  *)
(***************************************************************************)
LEMMA HeldNext == SlotsHoldUnjudged' => QueueFacts'
BY HeldNow, PTL

(***************************************************************************)
(* A step that leaves the buffers alone leaves the abstract queue alone.   *)
(***************************************************************************)
LEMMA QueueUnchanged ==
  ASSUME UNCHANGED queueVars
  PROVE  UNCHANGED HeldPriorities
BY DEF queueVars, HeldPriorities, SlotOf, Occupied

(***************************************************************************)
(* on_packet's own verdicts are verdicts for a packet outside the queue.   *)
(***************************************************************************)
LEMMA QueueJudges ==
  ASSUME Inv, capturePc # "recv", UNCHANGED queueVars,
         SetAccept(cur) \/ SetDrop(cur)
  PROVE  Queue!Judge(cur) /\ cur \in Packets
<1>1. cur \in Packets /\ ~Judged(cur)
  BY DEF Inv, TInv, CaptureOK, InHand
<1>2. Queue!Unjudged(cur)
  <2>1. accepts[cur] \in Nat /\ drops[cur] \in Nat
    BY <1>1 DEF Inv, TInv, TypeOK
  <2> QED
    BY <1>1, <2>1 DEF Judged, Queue!Unjudged
<1>3. cur \notin DOMAIN HeldPriorities
  BY HeldNow DEF QueueFacts, Inv, SlotsHoldUnjudged, SlotOK, Ids
<1> QED
  BY <1>1, <1>2, <1>3, QueueUnchanged
     DEF Queue!Judge, Queue!Accept, Queue!Drop, SetAccept, SetDrop

(***************************************************************************)
(* The abstract module's Cardinality is this one's.                        *)
(***************************************************************************)
LEMMA SameCardinality ==
  ASSUME NEW S
  PROVE  Queue!Cardinality(S) = Cardinality(S)
BY DEF Queue!Cardinality, Cardinality, Queue!IsFiniteSet, IsFiniteSet

(***************************************************************************)
(* Filling a slot admits the packet in hand if the slot was free. If it    *)
(* was not, every slot was taken, since the scan found no lighter one, and *)
(* the packet displaces the lightest of a full queue.                      *)
(***************************************************************************)
LEMMA QueueFills ==
  ASSUME Inv, Inv', capturePc = "weigh", weight >= 0,
         NEW i \in Slots, IsBottom(prioarray, i),
         Displaces(prioarray, i, weight),
         EmptySlotForNewcomer(i), FillSlot(i)
  PROVE  /\ cur \in Packets
         /\ \/ Queue!Admit(cur)
            \/ packets[i].id \in Packets /\ Queue!Displace(cur, packets[i].id)
<1>1. cur \in Packets /\ ~Judged(cur)
  BY DEF Inv, TInv, CaptureOK, InHand
<1>2. Queue!Unjudged(cur)
  <2>1. accepts[cur] \in Nat /\ drops[cur] \in Nat
    BY <1>1 DEF Inv, TInv, TypeOK
  <2> QED
    BY <1>1, <2>1 DEF Judged, Queue!Unjudged
<1>3. cur \notin Ids
  BY DEF Inv, SlotsHoldUnjudged, SlotOK, Ids
<1>4. /\ DOMAIN HeldPriorities = Ids
      /\ \A j \in Occupied(prioarray) :
           HeldPriorities[packets[j].id] = prioarray[j]
      /\ Cardinality(Ids) = Cardinality(Occupied(prioarray))
  BY HeldNow DEF Inv, QueueFacts
<1>5. /\ DOMAIN HeldPriorities' = Ids'
      /\ \A j \in Occupied(prioarray)' :
           HeldPriorities'[packets'[j].id] = prioarray'[j]
  BY HeldNext DEF Inv, QueueFacts
<1>6. /\ prioarray'[i] = weight /\ packets'[i].id = cur
      /\ \A j \in Slots \ {i} : /\ prioarray'[j] = prioarray[j]
                                /\ packets'[j] = packets[j]
  BY DEF FillSlot, Inv, TInv, TypeOK
<1>7. Occupied(prioarray)' = Occupied(prioarray) \cup {i}
  <2>1. weight # DblMin
    BY DEF Inv, WeighsToShape, TInv, TypeOK, DblMin, DblEpsilon
  <2> QED
    BY <1>6, <2>1 DEF Occupied
<1>8. HeldPriorities'[cur] = weight
  BY <1>5, <1>6, <1>7
<1>9. \A j \in Occupied(prioarray) \ {i} :
        /\ packets[j].id \in Ids'
        /\ HeldPriorities'[packets[j].id] = HeldPriorities[packets[j].id]
  BY <1>4, <1>5, <1>6, <1>7 DEF Ids, Occupied
<1>10. CASE i \notin Occupied(prioarray)
  <2>1. Ids' = Ids \cup {cur}
    BY <1>6, <1>7, <1>10 DEF Ids, Occupied
  <2>2. Queue!Becomes(DOMAIN HeldPriorities \cup {cur})
    <3>1. \A q \in Ids : HeldPriorities'[q] = HeldPriorities[q]
      BY <1>9, <1>10 DEF Ids
    <3> QED
      BY <1>3, <1>4, <1>5, <2>1, <3>1 DEF Queue!Becomes
  <2>3. Cardinality(DOMAIN HeldPriorities) < QLen
    <3>1. Occupied(prioarray) \in SUBSET Slots /\ Occupied(prioarray) # Slots
      BY <1>10 DEF Occupied
    <3>2. Cardinality(Occupied(prioarray)) \in Nat
      BY <3>1, SlotsAreFinite, FS_CardinalityType
    <3> QED
      BY <1>4, <3>1, <3>2, SlotsAreFinite, QLenAssumption
  <2>4. UNCHANGED <<accepts, drops>>
    BY <1>10 DEF EmptySlotForNewcomer, Occupied, kernelVars
  <2> QED
    BY <1>1, <1>2, <1>3, <1>4, <2>2, <2>3, <2>4, SameCardinality
       DEF Queue!Admit
<1>11. CASE i \in Occupied(prioarray)
  <2> DEFINE q == packets[i].id
  <2>1. q \in Packets /\ q \in Ids /\ SetDrop(q)
    BY <1>11 DEF Inv, SlotsHoldUnjudged, SlotOK, Ids, EmptySlotForNewcomer,
                 Occupied
  <2>2. Ids' = (Ids \ {q}) \cup {cur}
    <3>1. \A j \in Occupied(prioarray) : packets[j].id = q => j = i
      BY <1>11 DEF Inv, SlotsHoldUnjudged
    <3> QED
      BY <1>6, <1>7, <1>11, <3>1 DEF Ids, Occupied
  <2>3. Queue!Becomes((DOMAIN HeldPriorities \ {q}) \cup {cur})
    <3>1. \A p \in Ids \ {q} : HeldPriorities'[p] = HeldPriorities[p]
      BY <1>9 DEF Ids
    <3> QED
      BY <1>3, <1>4, <1>5, <2>2, <3>1 DEF Queue!Becomes
  <2>4. HeldPriorities[q] < HeldPriorities'[cur]
    BY <1>4, <1>8, <1>11 DEF Displaces
  <2>5. Queue!Lightest(q)
    BY <1>4, <1>11 DEF Queue!Lightest, IsBottom, Ids, Occupied
  <2>6. Cardinality(DOMAIN HeldPriorities) = QLen
    <3>1. \A j \in Slots : prioarray[j] # DblMin
      <4>1. prioarray[i] >= DblEpsilon
        BY <1>11 DEF Inv, SlotsHoldUnjudged, SlotOK
      <4> QED
        BY <4>1 DEF IsBottom, Inv, TInv, TypeOK, DblMin, DblEpsilon
    <3>2. Occupied(prioarray) = Slots
      BY <3>1 DEF Occupied
    <3> QED
      BY <1>4, <3>2, SlotsAreFinite
  <2>7. Queue!Drop(q)
    BY <2>1 DEF SetDrop, Queue!Drop
  <2> QED
    BY <1>1, <1>2, <1>3, <1>4, <2>1, <2>3, <2>4, <2>5, <2>6, <2>7,
     SameCardinality DEF Queue!Displace
<1> QED
  BY <1>1, <1>10, <1>11

(***************************************************************************)
(* The sender releases the heaviest packet of the queue.                   *)
(***************************************************************************)
LEMMA QueueSends ==
  ASSUME Inv, Inv', NEW i \in Slots, SendBest(i)
  PROVE  packets[i].id \in Packets /\ Queue!Release(packets[i].id)
<1> DEFINE q == packets[i].id
<1>1. i \in Occupied(prioarray) /\ IsTop(prioarray, i) /\ SetAccept(q)
  BY DEF SendBest, IsTop, Occupied, DblMin
<1>2. q \in Packets /\ q \in Ids
  BY <1>1 DEF Inv, SlotsHoldUnjudged, SlotOK, Ids
<1>3. /\ DOMAIN HeldPriorities = Ids
      /\ \A j \in Occupied(prioarray) :
           HeldPriorities[packets[j].id] = prioarray[j]
  BY HeldNow DEF Inv, QueueFacts
<1>4. /\ DOMAIN HeldPriorities' = Ids'
      /\ \A j \in Occupied(prioarray)' :
           HeldPriorities'[packets'[j].id] = prioarray'[j]
  BY HeldNext DEF Inv, QueueFacts
<1>5. /\ Occupied(prioarray)' = Occupied(prioarray) \ {i}
      /\ packets' = packets
      /\ \A j \in Slots \ {i} : prioarray'[j] = prioarray[j]
  BY DEF SendBest, EmptySlot, Occupied, Inv, TInv, TypeOK
<1>6. Ids' = Ids \ {q}
  <2>1. \A j \in Occupied(prioarray) : packets[j].id = q => j = i
    BY <1>1 DEF Inv, SlotsHoldUnjudged
  <2> QED
    BY <1>5, <2>1 DEF Ids
<1>7. Queue!Becomes(DOMAIN HeldPriorities \ {q})
  <2>1. \A p \in Ids \ {q} : HeldPriorities'[p] = HeldPriorities[p]
    BY <1>3, <1>4, <1>5 DEF Ids, Occupied
  <2> QED
    BY <1>3, <1>4, <1>6, <2>1 DEF Queue!Becomes
<1>8. Queue!Heaviest(q)
  BY <1>1, <1>3 DEF Queue!Heaviest, IsTop, Ids, Occupied
<1> QED
  BY <1>1, <1>2, <1>3, <1>7, <1>8 DEF Queue!Release, Queue!Accept, SetAccept

(***************************************************************************)
(* Every step of the three threads and of the kernel is one step of the    *)
(* abstract queue or leaves it alone.                                      *)
(***************************************************************************)
LEMMA QueueStep ==
  ASSUME Inv, Inv', [Next]_vars
  PROVE  [Queue!Next]_(Queue!vars)
<1>1. CASE UNCHANGED <<accepts, drops, queueVars>>
  BY <1>1, QueueUnchanged DEF Queue!vars
<1>2. CASE CheckLimit
  <2>1. CASE limit \in Special
    <3>1. Queue!Judge(cur) /\ cur \in Packets
      BY <1>2, <2>1, QueueJudges DEF CheckLimit, Special
    <3> QED
      BY <3>1 DEF Queue!Next
  <2>2. CASE limit \notin Special
    BY <1>1, <1>2, <2>2 DEF CheckLimit, Special, kernelVars
  <2> QED
    BY <2>1, <2>2
<1>3. CASE StoreOrDrop
  <2>1. CASE DropUnwanted
    <3>1. Queue!Judge(cur) /\ cur \in Packets
      BY <1>3, <2>1, QueueJudges DEF StoreOrDrop, DropUnwanted
    <3> QED
      BY <3>1 DEF Queue!Next
  <2>2. ASSUME NEW i \in Slots, IsBottom(prioarray, i), weight >= 0,
               Displaces(prioarray, i, weight),
               EmptySlotForNewcomer(i), FillSlot(i)
        PROVE  Queue!Next
    BY <1>3, <2>2, QueueFills DEF StoreOrDrop, Queue!Next
  <2> QED
    BY <1>1, <1>3, <2>1, <2>2 DEF StoreOrDrop, AddToQueue, kernelVars
<1>4. ASSUME NEW i \in Slots, SendBest(i)
      PROVE  Queue!Next
  BY <1>4, QueueSends DEF Queue!Next
<1>5. CASE \/ Environment \/ Weigh \/ FindNothing \/ WakeUp \/ Statistics
           \/ UNCHANGED vars
           \/ \E p \in Packets : Recv(p)
  BY <1>1, <1>5 DEF Environment, Arrive, Recv, Weigh, FindNothing, WakeUp,
                    Statistics, vars, kernelVars
<1> QED
  BY <1>2, <1>3, <1>4, <1>5 DEF Next, Capture, Sender

(***************************************************************************)
(* The slots with their sentinel priority, the two scans and the verdicts  *)
(* set in three places by two threads are a bounded priority queue of      *)
(* packets: room for QLen of them, the lightest displaced when it is full, *)
(* the heaviest sent, and nobody judged twice.                             *)
(***************************************************************************)
THEOREM QueueIsImplemented == Spec => ImplementsQueue
<1>1. Init => Queue!Init
  <2> SUFFICES ASSUME Init PROVE Queue!Init
    OBVIOUS
  <2>1. Occupied(prioarray) = {}
    BY DEF Init, Occupied
  <2>2. HeldPriorities = [p \in {} |-> 0]
    BY <2>1 DEF HeldPriorities
  <2> QED
    BY <2>2 DEF Init, Queue!Init
<1>2. Inv /\ Inv' /\ [Next]_vars => [Queue!Next]_(Queue!vars)
  BY QueueStep
<1> QED
  BY <1>1, <1>2, InvInit, InvStep, PTL DEF Spec, ImplementsQueue, Queue!Spec

=============================================================================
