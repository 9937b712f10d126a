-------------------------------- MODULE Shaper --------------------------------
(***************************************************************************)
(* The shaping core of damper.c: the capture thread (main's receive loop   *)
(* and the callback on_packet), the sender thread and the statistics       *)
(* thread, sharing the packet queue and the counters under u->lock.        *)
(*                                                                         *)
(* A critical section of u->lock is one action; what a thread keeps in     *)
(* local variables from one section to the next is a variable here. The    *)
(* kernel's NFQUEUE is modelled from how damper.c uses it: it holds a      *)
(* packet from its arrival until a verdict is set for it, and refuses new  *)
(* packets when it holds NfqLen of them.                                   *)
(***************************************************************************)
EXTENDS PrioArray, StatLog, FiniteSets, Functions

CONSTANTS Packets,      \* the packets that reach the queue, by netfilter id
          Size,         \* Size[p]: payload length of p in octets
          NfqLen,       \* u->nfqlen, the kernel's queue length
          Limits,       \* values of u->limit to consider, in octets/second
          UINT64_MAX,   \* "limit no"
          ModWeights,   \* weights a module may return; below 0 means drop
          Faults,       \* subset of {"payload", "verdict"}: library failures
          NoPacket

ASSUME ShaperAssumption ==
  /\ Size \in [Packets -> Nat]
  /\ NfqLen \in Nat
  /\ UINT64_MAX \in Nat \ {0}
  /\ Limits \subseteq Nat
  /\ ModWeights \subseteq Int
  /\ Faults \subseteq {"payload", "verdict"}
  /\ NoPacket \notin Packets

VARIABLES limit,        \* u->limit, never written after config_read
          kernel,       \* the kernel's view of each packet
          accepts,      \* ghost: NF_ACCEPT verdicts asked for, by packet
          drops,        \* ghost: NF_DROP verdicts asked for, by packet
          prioarray,    \* u->prioarray
          packets,      \* u->packets[i]: id and size
          capturePc,    \* where the capture thread is
          cur,          \* on_packet: the packet in hand
          weight,       \* on_packet: weight
          next_module,  \* on_packet: i, the next module to ask
          wchartstat,   \* on_packet: its copy of u->wchart
          senderPc      \* where the sender thread is

kernelVars  == <<kernel, accepts, drops>>
queueVars   == <<prioarray, packets>>
captureVars == <<capturePc, cur, weight, next_module, wchartstat>>
vars == <<limit, kernelVars, queueVars, captureVars, senderPc, statVars>>

Special == {0, UINT64_MAX}    \* traffic disabled, no shaping

KernelStates == {"wire", "queued", "delivered", "done", "refused"}

InKernel == {p \in Packets : kernel[p] \in {"queued", "delivered"}}

Held(p) == \E i \in Occupied(prioarray) : packets[i].id = p

Judged(p) == accepts[p] + drops[p] > 0

(***************************************************************************)
(* A packet damper has received, has no verdict for, and no longer knows.  *)
(***************************************************************************)
Forgotten(p) ==
  kernel[p] = "delivered" /\ p # cur /\ ~Held(p) /\ ~Judged(p)

-----------------------------------------------------------------------------
(***************************************************************************)
(* nfq_set_verdict. If the call fails the kernel keeps the packet; the     *)
(* callers print the error and go on as if it had succeeded.               *)
(***************************************************************************)
Settle(p) ==
  \/ kernel' = [kernel EXCEPT ![p] = IF @ = "delivered" THEN "done" ELSE @]
  \/ "verdict" \in Faults /\ UNCHANGED kernel

SetAccept(p) == /\ accepts' = [accepts EXCEPT ![p] = @ + 1]
                /\ UNCHANGED drops
                /\ Settle(p)

SetDrop(p) == /\ drops' = [drops EXCEPT ![p] = @ + 1]
              /\ UNCHANGED accepts
              /\ Settle(p)

(***************************************************************************)
(* A packet reaches the kernel's queue.                                    *)
(***************************************************************************)
Arrive(p, backlog) ==
  /\ kernel[p] = "wire"
  /\ kernel' = [kernel EXCEPT ![p] = IF backlog < NfqLen
                                     THEN "queued" ELSE "refused"]
  /\ UNCHANGED <<limit, accepts, drops, queueVars, captureVars, senderPc,
                 statVars>>

-----------------------------------------------------------------------------
(***************************************************************************)
(* The capture thread. recv() hands a packet to on_packet, which returns   *)
(* at once, without a verdict, if the packet's header or payload cannot be *)
(* had from the message.                                                   *)
(***************************************************************************)
Recv(p) ==
  /\ capturePc = "recv"
  /\ kernel[p] = "queued"
  /\ kernel' = [kernel EXCEPT ![p] = "delivered"]
  /\ \/ /\ capturePc' = "limit" /\ cur' = p
        /\ UNCHANGED <<weight, next_module, wchartstat>>
     \/ /\ "payload" \in Faults
        /\ UNCHANGED captureVars
  /\ UNCHANGED <<limit, accepts, drops, queueVars, senderPc, statVars>>

ReturnFromCallback == /\ capturePc' = "recv"
                      /\ cur' = NoPacket
                      /\ UNCHANGED <<weight, next_module, wchartstat>>

(***************************************************************************)
(* on_packet's first critical section: the two special limits.             *)
(***************************************************************************)
StartWeighing == /\ capturePc' = "weigh"
                 /\ weight' = DblEpsilon
                 /\ next_module' = 1
                 /\ wchartstat' = wchart
                 /\ UNCHANGED cur

CheckLimitAsFinite ==         \* mutated form: limit 0 is not special
  /\ capturePc = "limit"
  /\ \/ /\ limit = UINT64_MAX
        /\ SetAccept(cur) /\ Count(Passed(Size[cur]))
        /\ ReturnFromCallback
     \/ /\ limit # UINT64_MAX
        /\ StartWeighing
        /\ UNCHANGED <<kernelVars, stat_info>>
  /\ UNCHANGED <<limit, queueVars, senderPc, stat, wchart, samples, logged>>

CheckLimit ==
  /\ capturePc = "limit"
  /\ \/ /\ limit = 0
        /\ SetDrop(cur) /\ Count(Dropped(Size[cur]))
        /\ ReturnFromCallback
     \/ /\ limit = UINT64_MAX
        /\ SetAccept(cur) /\ Count(Passed(Size[cur]))
        /\ ReturnFromCallback
     \/ /\ limit \notin Special
        /\ StartWeighing
        /\ UNCHANGED <<kernelVars, stat_info>>
  /\ UNCHANGED <<limit, queueVars, senderPc, stat, wchart, samples, logged>>

(***************************************************************************)
(* One round of the loop over the modules. A negative weight ends it; the  *)
(* others are added up, and sampled in a critical section of their own if  *)
(* the weights chart was on when the packet was received.                  *)
(***************************************************************************)
WeighedTooLate == weight < 0 \/ next_module > NModules + 1   \* mutated form

Weighed == weight < 0 \/ next_module > NModules

Weigh ==
  /\ capturePc = "weigh" /\ ~Weighed
  /\ \E w \in ModWeights :
       \/ /\ w < 0
          /\ weight' = w
          /\ UNCHANGED <<next_module, samples>>
       \/ /\ w >= 0
          /\ weight' = weight + w
          /\ next_module' = next_module + 1
          /\ IF wchartstat THEN Sample(next_module) ELSE UNCHANGED samples
  /\ UNCHANGED <<limit, kernelVars, queueVars, capturePc, cur, wchartstat,
                 senderPc, stat, wchart, stat_info, logged>>

(***************************************************************************)
(* on_packet's last critical section, with add_to_queue. The packet in the *)
(* slot that the scan stops at is dropped to make room; a packet that does *)
(* not outrank it is neither stored nor judged.                            *)
(***************************************************************************)
DropUnwanted ==
  /\ weight < 0
  /\ SetDrop(cur) /\ Count(Dropped(Size[cur]))
  /\ UNCHANGED queueVars

FillSlotKeepingId(i) ==       \* mutated form: the slot keeps its old id
  /\ prioarray' = [prioarray EXCEPT ![i] = weight]
  /\ packets' = [packets EXCEPT ![i].size = Size[cur]]

FillSlot(i) ==
  /\ prioarray' = [prioarray EXCEPT ![i] = weight]
  /\ packets' = [packets EXCEPT ![i] = [id |-> cur, size |-> Size[cur]]]

EmptySlotForNewcomerUncounted(i) ==  \* mutated form: drop without statistics
  IF prioarray[i] # DblMin
  THEN SetDrop(packets[i].id) /\ UNCHANGED stat_info
  ELSE UNCHANGED <<kernelVars, stat_info>>

EmptySlotForNewcomer(i) ==
  IF prioarray[i] # DblMin
  THEN SetDrop(packets[i].id) /\ Count(Dropped(packets[i].size))
  ELSE UNCHANGED <<kernelVars, stat_info>>

AddToQueue ==
  /\ weight >= 0
  /\ \/ \E i \in Slots : /\ IsBottom(prioarray, i)
                         /\ Displaces(prioarray, i, weight)
                         /\ EmptySlotForNewcomer(i)
                         /\ FillSlot(i)
     \/ /\ \A i \in Slots : ~Displaces(prioarray, i, weight)
        /\ UNCHANGED <<kernelVars, queueVars, stat_info>>

StoreOrDrop ==
  /\ capturePc = "weigh" /\ Weighed
  /\ DropUnwanted \/ AddToQueue
  /\ ReturnFromCallback
  /\ UNCHANGED <<limit, senderPc, stat, wchart, samples, logged>>

-----------------------------------------------------------------------------
(***************************************************************************)
(* The sender thread: one round of its loop, then its sleep. How long it   *)
(* sleeps is the subject of module SendRate; here it may wake at any time. *)
(***************************************************************************)
EmptySlotNever(i) == UNCHANGED prioarray     \* mutated form: slot not emptied

EmptySlot(i) == prioarray' = [prioarray EXCEPT ![i] = DblMin]

SendBest(i) ==
  /\ senderPc = "scan"
  /\ IsTop(prioarray, i)
  /\ SetAccept(packets[i].id)
  /\ EmptySlot(i)
  /\ Count(Passed(packets[i].size))
  /\ senderPc' = "sleep"
  /\ UNCHANGED <<limit, packets, captureVars, stat, wchart, samples, logged>>

FindNothing ==
  /\ senderPc = "scan"
  /\ NothingToSend(prioarray)
  /\ senderPc' = "sleep"
  /\ UNCHANGED <<limit, kernelVars, queueVars, captureVars, statVars>>

WakeUp ==
  /\ senderPc = "sleep"
  /\ senderPc' = "scan"
  /\ UNCHANGED <<limit, kernelVars, queueVars, captureVars, statVars>>

-----------------------------------------------------------------------------
Init ==
  /\ limit \in Limits
  /\ kernel = [p \in Packets |-> "wire"]
  /\ accepts = [p \in Packets |-> 0]
  /\ drops = [p \in Packets |-> 0]
  /\ prioarray = [i \in Slots |-> DblMin]
  /\ packets = [i \in Slots |-> [id |-> NoPacket, size |-> 0]]
  /\ capturePc = "recv"
  /\ cur = NoPacket
  /\ weight = DblEpsilon
  /\ next_module = 1
  /\ wchartstat = FALSE
  /\ senderPc = "scan"
  /\ StatInit

Capture == (\E p \in Packets : Recv(p)) \/ CheckLimit \/ Weigh \/ StoreOrDrop

Sender == (\E i \in Slots : SendBest(i)) \/ FindNothing \/ WakeUp

Statistics ==
  /\ StatThread
  /\ UNCHANGED <<limit, kernelVars, queueVars, captureVars, senderPc>>

Environment == \E p \in Packets : Arrive(p, Cardinality(InKernel))

Next == Environment \/ Capture \/ Sender \/ Statistics

(***************************************************************************)
(* The capture and the sender loop go on as long as they can: neither ever *)
(* blocks but on u->lock, which every holder releases, in recv when there  *)
(* is nothing to receive, and in a finite sleep.                           *)
(***************************************************************************)
Spec == Init /\ [][Next]_vars /\ WF_vars(Capture) /\ WF_vars(Sender)

-----------------------------------------------------------------------------
PacketIds == Packets \cup {NoPacket}

(***************************************************************************)
(* Type correctness of everything the three threads share and keep.        *)
(***************************************************************************)
TypeOK ==
  /\ limit \in Limits
  /\ kernel \in [Packets -> KernelStates]
  /\ accepts \in [Packets -> Nat]
  /\ drops \in [Packets -> Nat]
  /\ prioarray \in [Slots -> Int]
  /\ packets \in [Slots -> [id : PacketIds, size : Nat]]
  /\ capturePc \in {"recv", "limit", "weigh"}
  /\ cur \in PacketIds
  /\ weight \in Int
  /\ next_module \in 1 .. NModules + 1
  /\ wchartstat \in BOOLEAN
  /\ senderPc \in {"scan", "sleep"}
  /\ StatTypeOK

(***************************************************************************)
(* No packet gets two verdicts. Three places set verdicts, in two threads: *)
(* on_packet for the special limits and for negative weights, add_to_queue *)
(* for the packet it displaces, the sender for the packet it sends. The    *)
(* threads never coordinate but through prioarray.                         *)
(***************************************************************************)
OneVerdict == \A p \in Packets : accepts[p] + drops[p] <= 1

(***************************************************************************)
(* A buffer whose priority is not DBL_MIN holds a packet that the kernel   *)
(* still waits for: one that was received, is not in the capture thread's  *)
(* hands, has had no verdict, is in no other buffer, and is described as   *)
(* it was captured. Verdicts and counters of the sender and of             *)
(* add_to_queue are taken from the buffer alone.                           *)
(***************************************************************************)
SlotOK(i) ==
  /\ prioarray[i] >= DblEpsilon
  /\ packets[i].id \in Packets
  /\ packets[i].size = Size[packets[i].id]
  /\ packets[i].id # cur
  /\ ~Judged(packets[i].id)
  /\ kernel[packets[i].id] = "delivered"

SlotsHoldUnjudged ==
  /\ \A i \in Occupied(prioarray) : SlotOK(i)
  /\ \A i, j \in Occupied(prioarray) : packets[i].id = packets[j].id => i = j

(***************************************************************************)
(* The two special limits do what the comment in on_packet says: with      *)
(* "traffic disabled" nothing is passed, with "no shaping" nothing is      *)
(* dropped, and in neither mode is any packet queued.                      *)
(***************************************************************************)
SpecialLimits ==
  /\ limit = 0 => \A p \in Packets : accepts[p] = 0
  /\ limit = UINT64_MAX => \A p \in Packets : drops[p] = 0
  /\ limit \in Special => Occupied(prioarray) = {}

(***************************************************************************)
(* What the verdicts set so far add up to, in packets and octets.          *)
(***************************************************************************)
Counted(c, p) == CASE c = "packets_pass" -> accepts[p]
                   [] c = "octets_pass"  -> accepts[p] * Size[p]
                   [] c = "packets_drop" -> drops[p]
                   [] c = "octets_drop"  -> drops[p] * Size[p]

VerdictsIn(c) == SumFunction([p \in Packets |-> Counted(c, p)])

(***************************************************************************)
(* While statistics are on, the records written so far and the counters in *)
(* memory together account for every verdict, packets and octets, up to    *)
(* the wrap-around of the 32-bit counters: no verdict of either thread is  *)
(* counted twice, lost at the end of a second, or counted with the size of *)
(* another packet.                                                         *)
(***************************************************************************)
StatsAccountForVerdicts ==
  stat => \A c \in Counters :
            (logged[c] + stat_info[c]) % U32 = VerdictsIn(c) % U32

(***************************************************************************)
(* A queued packet leaves the queue at its proper end, whatever the other  *)
(* thread did since it was stored: an accepted one is at least as heavy as *)
(* every packet in the queue, a displaced one is at most as heavy.         *)
(***************************************************************************)
LeavesInOrder(i) ==
  LET p == packets[i].id IN
  /\ accepts'[p] > accepts[p] =>
       \A j \in Occupied(prioarray) : prioarray[j] <= prioarray[i]
  /\ drops'[p] > drops[p] =>
       \A j \in Occupied(prioarray') : prioarray[i] <= prioarray'[j]

HeaviestFirst == [][\A i \in Occupied(prioarray) : LeavesInOrder(i)]_vars

(***************************************************************************)
(* The slots, the scans and the three verdict sites together implement the *)
(* queue of module ShapingQueue.                                           *)
(***************************************************************************)
SlotOf(p) == CHOOSE i \in Occupied(prioarray) : packets[i].id = p

HeldPriorities ==
  [p \in {packets[i].id : i \in Occupied(prioarray)} |-> prioarray[SlotOf(p)]]

Queue == INSTANCE ShapingQueue WITH held <- HeldPriorities, Capacity <- QLen

ImplementsQueue == Queue!Spec

(***************************************************************************)
(* Once traffic stops the queue drains: every packet in it is sent or      *)
(* displaced, and the kernel is told. (The packets of this module are      *)
(* finitely many. While heavier packets keep coming a light one may wait   *)
(* for ever.) Assumes that nfq_set_verdict succeeds.                       *)
(***************************************************************************)
QueueDrains == \A p \in Packets : Held(p) ~> kernel[p] = "done"

(***************************************************************************)
(* Without shaping ("limit no", or traffic disabled) every packet that     *)
(* the kernel queues is answered, however many arrive. Assumes that the    *)
(* calls to the library succeed.                                           *)
(***************************************************************************)
AnswersWithoutShaping ==
  \A p \in Packets :
    limit \in Special /\ kernel[p] = "queued" ~> kernel[p] = "done"

(***************************************************************************)
(* README.md, "Shaping and modules": the first thread captures packets,    *)
(* calculates a weight "for each one and put it in priority queue. Wheh    *)
(* queue is full, packets with low priority replaced with high-priority    *)
(* ones". So a packet that was captured is queued, or leaves the queue by  *)
(* being sent or replaced; damper does not lose sight of it.               *)
(***************************************************************************)
NoPacketForgotten == \A p \in Packets : ~Forgotten(p)

=============================================================================
