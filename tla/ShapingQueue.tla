---------------------------- MODULE ShapingQueue ----------------------------
(***************************************************************************)
(* What the packet queue of damper promises, without slots, scans or       *)
(* threads: a set of at most Capacity packets, each with a priority. A     *)
(* packet enters if there is room or if it outranks the lightest one,      *)
(* which is then dropped; the heaviest one is accepted; a packet that is   *)
(* not in the queue may be judged directly. Nobody is judged twice.        *)
(***************************************************************************)
EXTENDS Integers, FiniteSets

CONSTANTS Packets, Capacity

VARIABLES held,        \* the queue: a function from its packets to priorities
          accepts,     \* accepts[p]: NF_ACCEPT verdicts set for p
          drops        \* drops[p]: NF_DROP verdicts set for p

vars == <<held, accepts, drops>>

Unjudged(p) == accepts[p] + drops[p] = 0

Accept(p) == /\ accepts' = [accepts EXCEPT ![p] = @ + 1]
             /\ UNCHANGED drops
Drop(p)   == /\ drops' = [drops EXCEPT ![p] = @ + 1]
             /\ UNCHANGED accepts

(***************************************************************************)
(* What stays in the queue keeps its priority.                             *)
(***************************************************************************)
Becomes(ps) == /\ DOMAIN held' = ps
               /\ \A q \in ps \cap DOMAIN held : held'[q] = held[q]

Heaviest(p) == \A q \in DOMAIN held : held[q] <= held[p]
Lightest(p) == \A q \in DOMAIN held : held[p] <= held[q]

-----------------------------------------------------------------------------
Init ==
  /\ held = [p \in {} |-> 0]
  /\ accepts = [p \in Packets |-> 0]
  /\ drops = [p \in Packets |-> 0]

Admit(p) ==
  /\ p \notin DOMAIN held /\ Unjudged(p)
  /\ Cardinality(DOMAIN held) < Capacity
  /\ Becomes(DOMAIN held \cup {p})
  /\ UNCHANGED <<accepts, drops>>

Displace(p, q) ==
  /\ p \notin DOMAIN held /\ Unjudged(p)
  /\ q \in DOMAIN held /\ Lightest(q)
  /\ Cardinality(DOMAIN held) = Capacity
  /\ Becomes((DOMAIN held \ {q}) \cup {p}) /\ held[q] < held'[p]
  /\ Drop(q)

Release(p) ==
  /\ p \in DOMAIN held /\ Heaviest(p)
  /\ Becomes(DOMAIN held \ {p})
  /\ Accept(p)

Judge(p) ==
  /\ p \notin DOMAIN held /\ Unjudged(p)
  /\ Accept(p) \/ Drop(p)
  /\ UNCHANGED held

Next ==
  \/ \E p \in Packets : Admit(p)
  \/ \E p, q \in Packets : Displace(p, q)
  \/ \E p \in Packets : Release(p) \/ Judge(p)

Spec == Init /\ [][Next]_vars

=============================================================================
