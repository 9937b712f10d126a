------------------------------- MODULE SendRate -------------------------------
(***************************************************************************)
(* The pace of sender_thread in damper.c: after every packet it sleeps for *)
(* as long as the packet takes at the configured rate, computed in whole   *)
(* nanoseconds and handed to clock_nanosleep as seconds and nanoseconds.   *)
(* The rate is a finite limit: with the two special limits the queue is    *)
(* always empty (SpecialLimits of module Shaper).                          *)
(*                                                                         *)
(* The variables measure a window of time, which may be begun before any   *)
(* round of the sender's loop.                                             *)
(***************************************************************************)
EXTENDS Integers

CONSTANTS Billion,       \* nanoseconds in a second
          Limits,        \* values of u->limit, in octets per second
          Sizes,         \* sizes of the packets that may be queued
          IdleOctets,    \* the 100 bytes whose time an idle sender sleeps
          Delays,        \* how late a sleep may end, or a round take
          MaxTime,       \* bounds on the length of the window
          MaxSends,
          IntRange       \* 2^w, the range of an int of the machine

ASSUME SendRateAssumption ==
  /\ Billion \in Nat \ {0}
  /\ Limits \subseteq Nat \ {0}
  /\ Sizes \subseteq Nat
  /\ IdleOctets \in Nat
  /\ Delays \subseteq Nat
  /\ MaxTime \in Nat /\ MaxSends \in Nat
  /\ IntRange \in Nat \ {0}

VARIABLES limit,      \* u->limit
          time,       \* nanoseconds since the window began
          sent,       \* octets sent in the window
          sends       \* packets sent in the window

vars == <<limit, time, sent, sends>>

-----------------------------------------------------------------------------
(***************************************************************************)
(* (size * BILLION) / limit. BILLION is a uint64_t, so that the product is *)
(* not an int.                                                             *)
(***************************************************************************)
SleepNsAsInt(size) ==        \* mutated form: BILLION without its uint64_t
  LET half == IntRange \div 2
  IN  ((((size * Billion) + half) % IntRange) - half) \div limit

SleepNsInSeconds(size) ==    \* mutated form: (size / limit) * BILLION
  (size \div limit) * Billion

SleepNs(size) == (size * Billion) \div limit

(***************************************************************************)
(* struct timespec ts, by the test "sleep_ns > BILLION"                    *)
(***************************************************************************)
Timespec(ns) == IF ns > Billion
                THEN [sec |-> ns \div Billion, nsec |-> ns % Billion]
                ELSE [sec |-> 0, nsec |-> ns]

(***************************************************************************)
(* clock_nanosleep refuses a tv_nsec of 10^9 or more (EINVAL) and returns  *)
(* at once; the sender does not look at its result.                        *)
(***************************************************************************)
Slept(ts) == IF ts.nsec < Billion THEN (ts.sec * Billion) + ts.nsec ELSE 0

-----------------------------------------------------------------------------
Init ==
  /\ limit \in Limits
  /\ time = 0
  /\ sent = 0
  /\ sends = 0

NewWindow ==
  /\ time' = 0
  /\ sent' = 0
  /\ sends' = 0
  /\ UNCHANGED limit

Pause(octets) ==
  \E delay \in Delays :
     time' = time + Slept(Timespec(SleepNs(octets))) + delay

SendPacket(size) ==
  /\ time < MaxTime /\ sends < MaxSends
  /\ sent' = sent + size
  /\ sends' = sends + 1
  /\ Pause(size)
  /\ UNCHANGED limit

SendNothing ==
  /\ time < MaxTime
  /\ Pause(IdleOctets)
  /\ UNCHANGED <<limit, sent, sends>>

Next == NewWindow \/ (\E size \in Sizes : SendPacket(size)) \/ SendNothing

Spec == Init /\ [][Next]_vars

-----------------------------------------------------------------------------
(***************************************************************************)
(* Time does not run backwards: no sleep is negative.                      *)
(***************************************************************************)
TypeOK ==
  /\ limit \in Limits
  /\ time \in Nat
  /\ sent \in Nat
  /\ sends \in Nat

(***************************************************************************)
(* "Sending happens with limited speed (which is set in config file)",     *)
(* README.md: at the end of a sleep no more octets have been sent in any   *)
(* window than the limit allows for its length, but for the nanosecond     *)
(* that the division may lose with each packet.                            *)
(***************************************************************************)
RateBound == Billion * sent <= (limit * time) + (sends * (limit - 1))

=============================================================================
