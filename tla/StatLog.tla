-------------------------------- MODULE StatLog --------------------------------
(***************************************************************************)
(* The statistics that the capture, sender and statistics threads share:   *)
(* u->stat, u->wchart, u->stat_info and the weight samples of the modules. *)
(* The capture and sender threads count; once a second the statistics      *)
(* thread writes the counters out and clears them. This module is what the *)
(* counting threads may rely on: it says nothing of files, days or the     *)
(* clock. logged is a ghost, the sum of all records written.               *)
(*                                                                         *)
(* Every operation runs inside one critical section of u->lock.            *)
(***************************************************************************)
EXTENDS Integers

CONSTANTS NModules,    \* number of enabled weight modules
          U32          \* 2^32, the modulus of the uint32_t counters

ASSUME StatLogAssumption == NModules \in Nat /\ U32 \in Nat \ {0}

VARIABLES stat,        \* u->stat
          wchart,      \* u->wchart
          stat_info,   \* u->stat_info
          samples,     \* modules[i].nw (its sum stw is not modelled)
          logged       \* ghost: sum of the records written

statVars == <<stat, wchart, stat_info, samples, logged>>

Modules == 1 .. NModules

Counters == {"packets_pass", "octets_pass", "packets_drop", "octets_drop"}

NoTraffic == [c \in Counters |-> 0]
NoSamples == [m \in Modules |-> 0]

(***************************************************************************)
(* What a packet of n octets adds when it is passed or dropped.            *)
(***************************************************************************)
Passed(n)  == [NoTraffic EXCEPT !["packets_pass"] = 1, !["octets_pass"] = n]
Dropped(n) == [NoTraffic EXCEPT !["packets_drop"] = 1, !["octets_drop"] = n]

(***************************************************************************)
(* "if (u->stat) { u->stat_info.packets_... += 1; ... }"                   *)
(***************************************************************************)
Count(traffic) ==
  stat_info' = IF stat
               THEN [c \in Counters |-> (stat_info[c] + traffic[c]) % U32]
               ELSE stat_info

(***************************************************************************)
(* "modules[i].stw += mweight; modules[i].nw += 1.0f" for module m         *)
(***************************************************************************)
Sample(m) == samples' = [samples EXCEPT ![m] = @ + 1]

-----------------------------------------------------------------------------
(***************************************************************************)
(* The outcomes of stat_write: a record is written and the counters start  *)
(* again from zero; the day's file cannot be opened and statistics are     *)
(* switched off; a module's file cannot be opened and the weights chart is *)
(* switched off, leaving the counters for the next second's record.        *)
(***************************************************************************)
WriteRecord ==
  /\ stat
  /\ logged' = [c \in Counters |-> logged[c] + stat_info[c]]
  /\ stat_info' = NoTraffic
  /\ samples' = IF wchart THEN NoSamples ELSE samples
  /\ UNCHANGED <<stat, wchart>>

StatOff ==
  /\ stat
  /\ stat' = FALSE
  /\ UNCHANGED <<wchart, stat_info, samples, logged>>

ChartOff ==
  /\ stat /\ wchart
  /\ wchart' = FALSE
  /\ UNCHANGED <<stat, stat_info, samples, logged>>

StatThread == WriteRecord \/ StatOff \/ ChartOff

(***************************************************************************)
(* What the other threads do to the statistics, in one critical section.   *)
(***************************************************************************)
CountingThreads ==
  /\ UNCHANGED <<stat, wchart, logged>>
  /\ \/ /\ \E n \in 0 .. U32 - 1 : Count(Passed(n)) \/ Count(Dropped(n))
        /\ UNCHANGED samples
     \/ (\E m \in Modules : Sample(m)) /\ UNCHANGED stat_info

StatInit ==
  /\ stat \in BOOLEAN
  /\ wchart \in BOOLEAN
  /\ stat_info = NoTraffic
  /\ samples = NoSamples
  /\ logged = NoTraffic

(***************************************************************************)
(* A new process starts without traffic and without records of its own.    *)
(***************************************************************************)
LogSpec == StatInit /\ [][CountingThreads \/ StatThread \/ StatInit']_statVars

StatTypeOK ==
  /\ stat \in BOOLEAN
  /\ wchart \in BOOLEAN
  /\ stat_info \in [Counters -> 0 .. U32 - 1]
  /\ samples \in [Modules -> Nat]
  /\ logged \in [Counters -> Nat]

=============================================================================
