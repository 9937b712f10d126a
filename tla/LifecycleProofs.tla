---------------------------- MODULE LifecycleProofs ----------------------------
(***************************************************************************)
(* Safety of module Lifecycle for every configuration file and every width *)
(* of the integers: what each setting comes to be, from which of the       *)
(* file's lines, what the configuration guarantees, and in which order the *)
(* objects are released.                                                   *)
(***************************************************************************)
EXTENDS Lifecycle, NumberLemmas

Fields == {"queue", "packets", "limit", "stat", "statdir", "keepstat",
           "nfqlen", "wchart"}

(***************************************************************************)
(* The values that config_read may leave behind.                           *)
(***************************************************************************)
ConfOK ==
  /\ DOMAIN conf = Fields
  /\ conf.limit = Uninit \/ conf.limit \in 0 .. LongMod - 1
  /\ conf.packets = Uninit \/ conf.packets \in Nat
  /\ conf.stat \in BOOLEAN
  /\ conf.keepstat \in Nat
  /\ conf.nfqlen \in Nat

ParamOK ==
  /\ DOMAIN param = AllModules
  /\ \A m \in TableModules :
       /\ {"k", "nrecent", "debug"} \subseteq DOMAIN param[m]
       /\ param[m].nrecent \in Int
       /\ param[m].debug \in Nat

ConfigOK ==
  /\ file \in Seq(Seq(STRING))
  /\ lineno \in 0 .. Len(file)
  /\ ConfOK
  /\ ParamOK

-----------------------------------------------------------------------------
(***************************************************************************)
(* The conversions return integers, whatever the word.                     *)
(***************************************************************************)
LEMMA NumbersAreIntegers ==
  ASSUME NEW word
  PROVE  /\ Digits(word) \in Int
         /\ Strtoll(word) \in Int
         /\ Atoi(word) \in Int
         /\ Str2Bps(word) \in 0 .. LongMod - 1
<1>1. Digits(word) \in Int
  BY ConfigAssumption DEF Digits
<1>2. Strtoll(word) \in Int
  BY <1>1, ConfigAssumption DEF Strtoll
<1>3. Atoi(word) \in Int
  BY <1>2, ConfigAssumption DEF Atoi, Wrap
<1>4. Str2Bps(word) \in 0 .. LongMod - 1
  <2>1. CASE word \notin DOMAIN Numeral \/ Strtoll(word) = LongMod \div 2 - 1
                                        \/ Strtoll(word) = -(LongMod \div 2)
    BY <2>1, ConfigAssumption DEF Str2Bps
  <2>2. CASE ~(word \notin DOMAIN Numeral \/ Strtoll(word) = LongMod \div 2 - 1
                                          \/ Strtoll(word) = -(LongMod \div 2))
    <3>1. Unit[Numeral[word].suffix] \in Int
      BY <2>2, ConfigAssumption DEF Unit
    <3> DEFINE bits == Strtoll(word) * Unit[Numeral[word].suffix]
    <3>2. bits \in Int
      BY <1>2, <3>1
    <3>3. bits % LongMod \in 0 .. LongMod - 1
      BY <3>2, ConfigAssumption
    <3>4. (bits % LongMod) \div 8 \in 0 .. LongMod - 1
      BY <3>3, ConfigAssumption
    <3> QED
      BY <2>2, <3>4 DEF Str2Bps
  <2> QED
    BY <2>1, <2>2
<1> QED
  BY <1>1, <1>2, <1>3, <1>4

(***************************************************************************)
(* A line about u.                                                         *)
(***************************************************************************)
LEMMA SettingStep ==
  ASSUME ConfOK, NEW cmd, NEW p1, Setting(cmd, p1)
  PROVE  ConfOK'
<1>1. cmd \in Fields /\ conf' = [conf EXCEPT ![cmd] = SettingOf(cmd, p1)]
  BY DEF Setting, ConfOK
<1>2. DOMAIN conf' = Fields
  BY <1>1 DEF ConfOK
<1>3. \A f \in Fields :
        conf'[f] = IF f = cmd THEN SettingOf(cmd, p1) ELSE conf[f]
  BY <1>1 DEF ConfOK
<1>4. SettingOf("limit", p1) \in 0 .. LongMod - 1
  BY NumbersAreIntegers, ConfigAssumption DEF SettingOf, UINT64_MAX
<1>5. SettingOf("packets", p1) \in Nat
  BY NumbersAreIntegers, ConfigAssumption DEF SettingOf
<1>6. SettingOf("keepstat", p1) \in Nat /\ SettingOf("nfqlen", p1) \in Nat
  BY NumbersAreIntegers, ConfigAssumption DEF SettingOf, PositiveOr
<1>7. SettingOf("stat", p1) \in BOOLEAN
  <2>1. SettingOf("stat", p1) = SwitchedOn("stat", p1)
    BY DEF SettingOf
  <2>2. SwitchedOn("stat", p1) \in BOOLEAN
    BY DEF SwitchedOn
  <2> QED
    BY <2>1, <2>2
<1> QED
  BY <1>1, <1>2, <1>3, <1>4, <1>5, <1>6, <1>7 DEF ConfOK, Fields

(***************************************************************************)
(* A line about a module.                                                  *)
(***************************************************************************)
LEMMA ModuleStep ==
  ASSUME ParamOK, NEW m, NEW p1, NEW arg, ModuleLine(m, p1, arg)
  PROVE  ParamOK' /\ UNCHANGED conf
<1>1. CASE Coefficient(m, arg)
  BY <1>1, NumbersAreIntegers
     DEF ModuleLine, Coefficient, ParameterOf, ParamOK, AllModules,
         TableModules
<1>2. CASE AddMark(p1, arg)
  BY <1>2 DEF AddMark, ParamOK
<1>3. CASE Parameter(m, p1, arg)
  <2>1. Atoi(arg) \in Int
    BY NumbersAreIntegers
  <2>2. PositiveOr(0, Atoi(arg)) \in Nat
    BY <2>1 DEF PositiveOr
  <2> QED
    BY <1>3, <2>1, <2>2 DEF ModuleLine, Parameter, ParameterOf, ParamOK,
                            AllModules, TableModules
<1> QED
  BY <1>1, <1>2, <1>3 DEF ModuleLine

(***************************************************************************)
(* What userdata_init makes of the configuration.                          *)
(***************************************************************************)
LEMMA DefaultsStep ==
  ASSUME ConfOK, EndOfFile
  PROVE  /\ ConfOK'
         /\ conf'.nfqlen > 0
         /\ conf'.stat => conf'.keepstat > 0 /\ conf'.statdir # ""
<1> DEFINE n == IF conf.nfqlen = 0 THEN NFQ_DEFLEN ELSE conf.nfqlen
           k == IF conf.stat /\ conf.keepstat = 0 THEN KEEP_STAT
                ELSE conf.keepstat
           s == HasDirectory(conf)
<1>1. conf' = [conf EXCEPT !.nfqlen = n, !.keepstat = k, !.stat = s]
  BY Zenon DEF EndOfFile, WithDefaults
<1>2. n \in Nat \ {0} /\ k \in Nat /\ (conf.stat => k > 0)
  BY ConfigAssumption DEF ConfOK
<1>3. s \in BOOLEAN /\ (s => conf.stat /\ conf.statdir # "")
  BY DEF HasDirectory, ConfOK
<1>4. DOMAIN conf = Fields
  BY DEF ConfOK
<1> DEFINE c1 == [conf EXCEPT !.nfqlen = n]
           c2 == [c1 EXCEPT !.keepstat = k]
<1> HIDE DEF n, k, s
<1>5. conf' = [c2 EXCEPT !.stat = s]
  BY <1>1, Zenon
<1>6. DOMAIN c1 = Fields
      /\ c1.nfqlen = n
      /\ \A f \in Fields \ {"nfqlen"} : c1[f] = conf[f]
  BY <1>4 DEF Fields
<1> HIDE DEF c1
<1>7. DOMAIN c2 = Fields
      /\ c2.keepstat = k
      /\ \A f \in Fields \ {"keepstat"} : c2[f] = c1[f]
  BY <1>6 DEF Fields
<1> HIDE DEF c2
<1>8. DOMAIN conf' = Fields
      /\ conf'.stat = s
      /\ \A f \in Fields \ {"stat"} : conf'[f] = c2[f]
  BY <1>5, <1>7 DEF Fields
<1>9. /\ conf'.nfqlen = n /\ conf'.keepstat = k
      /\ conf'.limit = conf.limit /\ conf'.packets = conf.packets
      /\ conf'.statdir = conf.statdir
  BY <1>6, <1>7, <1>8 DEF Fields
<1>10. conf'.nfqlen > 0
  BY <1>2, <1>9
<1>11. ConfOK'
  BY <1>2, <1>3, <1>8, <1>9 DEF ConfOK
<1>12. conf'.stat => conf'.keepstat > 0
  BY <1>2, <1>3, <1>8, <1>9
<1>13. conf'.stat => conf'.statdir # ""
  BY <1>3, <1>8, <1>9
<1> QED
  BY <1>10, <1>11, <1>12, <1>13

(***************************************************************************)
(* One line, or the end of the file.                                       *)
(***************************************************************************)
LEMMA ReadConfigStep ==
  ASSUME ConfigOK, ReadConfig
  PROVE  ConfigOK'
<1>1. CASE ReadLine
  <2>1. file' = file /\ lineno' \in 0 .. Len(file')
    BY <1>1 DEF ReadLine, ConfigOK
  <2>2. ConfOK' /\ ParamOK'
    BY <1>1, SettingStep, ModuleStep DEF ReadLine, ConfigOK, Setting, ConfOK,
                                         ParamOK
  <2> QED
    BY <2>1, <2>2 DEF ConfigOK
<1>2. CASE EndOfFile
  <2>1. UNCHANGED param /\ file' = <<>> /\ lineno' = 0
    BY <1>2 DEF EndOfFile
  <2>2. ConfOK'
    BY <1>2, DefaultsStep DEF ConfigOK
  <2> QED
    BY <2>1, <2>2 DEF ConfigOK, ParamOK
<1>3. CASE UNCHANGED confVars
  BY <1>3 DEF confVars, ConfigOK, ConfOK, ParamOK
<1> QED
  BY <1>1, <1>2, <1>3 DEF ReadConfig

-----------------------------------------------------------------------------
Unopened == {"fopen", "config_read", "userdata_init", "postconf", "nfq_open"}
Serving  == {"recv", "damper_done?", "pthread_join"}
Closed   == {"done", "userdata_destroy", "exit", "exited", "crashed",
             "sender crashed", "debug crashed"}

(***************************************************************************)
(* Which objects there are, from where main is.                            *)
(***************************************************************************)
ObjectsOK ==
  /\ pc \in Unopened => handle = "none"
  /\ pc \in Unopened \cup {"nfq_bind", "nfq_create_queue"} => queue = "none"
  /\ pc = "nfq_close" \/ handle = "freed" => queue # "live"
  /\ handle = "freed" => pc \in Closed
  /\ pc \in {"done", "userdata_destroy", "exit"} => handle = "freed"
  /\ pc \notin {"fopen"} \cup (Closed \ {"done", "userdata_destroy"}) =>
       userdata = "live"
  /\ pc = "exit" => userdata = "freed"
  /\ pc = "exited" => /\ handle # "live"
                      /\ handle = "freed" => userdata = "freed"
  /\ pc \in Unopened \ {"nfq_open"} => enabled = {}
  /\ \A m \in TableModules : flows[m] = "freed" => handle = "freed"
  /\ pc \in {"nfq_set_mode", "sigaction", "pthread_create"} \cup Serving =>
       queue = "live"

(***************************************************************************)
(* The statistics thread runs only while main serves; once it has ticked   *)
(* it has the day's file, or u->stat is cleared.                           *)
(***************************************************************************)
ThreadsOK ==
  /\ pc \in Starting \cup {"pthread_create"} => ~ticked /\ statThread = "none"
  /\ statThread \in {"while", "sleep"} =>
       pc \in Serving \/ (pc = "crashed" /\ userdata = "live")
  /\ ticked /\ conf.stat /\ pc \notin Closed \ {"done", "userdata_destroy"} =>
       statf = "live"

(***************************************************************************)
(* The sender goes on when main serves no more, which it does after a      *)
(* signal, and once the statistics thread has ended.                       *)
(***************************************************************************)
SenderOK ==
  /\ pc \in Starting \cup {"pthread_create"} => senderThread = "none"
  /\ pc = "pthread_join" => damper_done
  /\ senderThread = "running" /\ pc \notin Serving \cup {"crashed"} =>
       /\ damper_done /\ statThread = "ended"
       /\ pc # "nfq_destroy_queue" => queue = "freed"

Prepared ==
  pc \notin {"fopen", "config_read", "exited", "crashed"} =>
    /\ conf.nfqlen > 0
    /\ conf.stat => conf.keepstat > 0 /\ conf.statdir # ""

(***************************************************************************)
(* TypeOK in two parts, for one prover each.                               *)
(***************************************************************************)
FlagsOK ==
  /\ damper_done \in BOOLEAN
  /\ signalled \in BOOLEAN
  /\ backlog \in BOOLEAN
  /\ waiting \in BOOLEAN
  /\ ticked \in BOOLEAN

StatesOK ==
  /\ pc \in Labels
  /\ mptr \subseteq Dereferencing
  /\ {userdata, handle, queue, statf} \subseteq ObjectStates
  /\ flows \in [TableModules -> ObjectStates]
  /\ enabled \subseteq {m \in TableModules : flows[m] # "none"}
  /\ debugThreads \subseteq enabled
  /\ senderThread \in {"none", "running", "ended"}
  /\ statThread \in {"none", "while", "sleep", "ended"}

Inv ==
  /\ ConfigOK
  /\ StatesOK
  /\ ObjectsOK
  /\ ThreadsOK
  /\ SenderOK
  /\ Prepared
  /\ StartsAsAssumed
  /\ CrashesOnlyInRelease

(***************************************************************************)
(* The configuration does not change behind an action's back.              *)
(***************************************************************************)
LEMMA ConfigKept ==
  ASSUME ConfigOK, UNCHANGED confVars
  PROVE  ConfigOK'
BY DEF confVars, ConfigOK, ConfOK, ParamOK

(***************************************************************************)
(* What Allocate and PostConf refuse.                                      *)
(***************************************************************************)
LEMMA AllocateStep ==
  ASSUME ConfOK, Allocate, pc' = "postconf", conf.packets # Uninit
  PROVE  conf.packets >= 0 /\ ~TooMany(conf.packets)
BY DEF Allocate, ConfOK, Goto

(***************************************************************************)
(* Modules are enabled only with their tables.                             *)
(***************************************************************************)
LEMMA PostConfStep ==
  ASSUME ParamOK, PostConf
  PROVE  /\ enabled' \subseteq {m \in TableModules : flows'[m] # "none"}
         /\ flows' \in [TableModules -> ObjectStates]
         /\ debugThreads' \subseteq enabled'
         /\ \A m \in enabled' : param[m].nrecent >= 1 /\ param[m].debug >= 0
<1>1. PICK tables \in SUBSET {m \in TableModules : param[m].nrecent >= 1} :
        /\ flows' = [m \in TableModules |->
                       IF m \in tables THEN "live" ELSE "none"]
        /\ enabled' \subseteq tables
  BY Zenon DEF PostConf
<1>2. debugThreads' \subseteq enabled'
  BY DEF PostConf
<1>3. \A m \in TableModules : param[m].debug >= 0
  BY DEF ParamOK
<1> QED
  BY <1>1, <1>2, <1>3 DEF ObjectStates

(***************************************************************************)
(* main up to its receive loop. What the file says reaches the invariant   *)
(* through two steps only: the end of the file, where defaults are filled  *)
(* in, and Allocate and PostConf, which refuse what cannot be.             *)
(***************************************************************************)
LEMMA StartStep ==
  ASSUME Inv, Start
  PROVE  Inv'
<1> USE DEF Inv, StatesOK, ObjectsOK, ThreadsOK, SenderOK, Prepared,
            StartsAsAssumed, CrashesOnlyInRelease, Starting, Labels, Unopened,
            Serving, Closed, ObjectStates, Goto, threads
<1>1. CASE OpenConfig
  BY <1>1, ConfigKept DEF OpenConfig, confVars
<1>2. CASE ReadConfig
  <2>1. ConfigOK'
    BY <1>2, ReadConfigStep
  <2>2. CASE ReadLine /\ UNCHANGED pc
    BY <1>2, <2>1, <2>2 DEF ReadConfig, objects, ConfigOK, ConfOK
  <2>3. CASE EndOfFile /\ pc' = "userdata_init"
    BY <1>2, <2>1, <2>3, DefaultsStep
       DEF ReadConfig, EndOfFile, objects, ConfigOK, ConfOK
  <2>4. CASE ConfOfNull /\ pc' = "crashed" /\ UNCHANGED confVars
    BY <1>2, <2>1, <2>4
       DEF ReadConfig, ConfOfNull, objects, confVars, ConfigOK, ConfOK
  <2> QED
    BY <1>2, <2>2, <2>3, <2>4 DEF ReadConfig
<1>3. CASE Allocate
  <2>1. UNCHANGED confVars /\ ConfigOK'
    BY <1>3, ConfigKept, Zenon DEF Allocate, Inv
  <2>2. pc' = "postconf" =>
          (conf.packets # Uninit =>
             conf.packets >= 0 /\ ~TooMany(conf.packets))
    BY <1>3, AllocateStep, Zenon DEF Inv, ConfigOK
  <2> QED
    BY <1>3, <2>1, <2>2 DEF Allocate, confVars, TooMany
<1>4. CASE PostConf
  <2>1. UNCHANGED confVars /\ ConfigOK'
    BY <1>4, ConfigKept, Zenon DEF PostConf, Inv
  <2>2. /\ enabled' \subseteq {m \in TableModules : flows'[m] # "none"}
        /\ flows' \in [TableModules -> ObjectStates]
        /\ debugThreads' \subseteq enabled'
        /\ \A m \in enabled' : param[m].nrecent >= 1 /\ param[m].debug >= 0
    BY <1>4, PostConfStep, Zenon DEF Inv, ConfigOK
  <2> QED
    BY <1>4, <2>1, <2>2 DEF PostConf, confVars
<1>5. CASE OpenHandle
  BY <1>5, ConfigKept DEF OpenHandle, confVars
<1>6. CASE BindHandle
  BY <1>6, ConfigKept DEF BindHandle, objects, confVars
<1>7. CASE CreateQueue
  BY <1>7, ConfigKept DEF CreateQueue, confVars
<1>8. CASE SetMode
  BY <1>8, ConfigKept DEF SetMode, objects, confVars
<1>9. CASE InstallHandlers
  BY <1>9, ConfigKept DEF InstallHandlers, objects, confVars
<1>10. CASE CreateThreads
  BY <1>10, ConfigKept DEF CreateThreads, objects, confVars
<1>11. CASE PostConfOfNull
  BY <1>11, ConfigKept
     DEF PostConfOfNull, objects, confVars, Dereferencing, AllModules,
         TableModules
<1> QED
  BY <1>1, <1>2, <1>3, <1>4, <1>5, <1>6, <1>7, <1>8, <1>9, <1>10, <1>11
     DEF Start

(***************************************************************************)
(* The labels at the end of main. A crash needs a module that was disabled *)
(* or a u->stat without a file.                                            *)
(***************************************************************************)
LEMMA StopStep ==
  ASSUME Inv, Stop
  PROVE  Inv'
<1> USE DEF Inv, StatesOK, ObjectsOK, ThreadsOK, SenderOK, Prepared,
            StartsAsAssumed, CrashesOnlyInRelease, Starting, Labels, Unopened,
            Serving, Closed, ObjectStates, Goto
<1>1. CASE JoinStatThread
  BY <1>1, ConfigKept DEF JoinStatThread, objects, threads, confVars
<1>2. CASE DestroyQueue
  BY <1>2, ConfigKept DEF DestroyQueue, threads, confVars
<1>3. CASE CloseHandle
  BY <1>3, ConfigKept DEF CloseHandle, threads, confVars
<1>4. CASE FreeModules
  BY <1>4, ConfigKept
     DEF FreeModules, LacksDebugFile, threads, confVars, Dereferencing,
         AllModules, TableModules
<1>5. CASE FreeUserdata
  BY <1>5, ConfigKept DEF FreeUserdata, threads, confVars
<1>6. CASE Exit
  BY <1>6, ConfigKept DEF Exit, objects, confVars
<1> QED
  BY <1>1, <1>2, <1>3, <1>4, <1>5, <1>6 DEF Stop

(***************************************************************************)
(* main goes round its loop, or another thread does something that main's  *)
(* part of the invariant does not speak of.                                *)
(***************************************************************************)
LEMMA LoopStep ==
  ASSUME Inv, UNCHANGED <<objects, threads, confVars>>,
         pc' = pc \/ {pc, pc'} \subseteq {"recv", "damper_done?"},
         damper_done => damper_done'
  PROVE  Inv'
<1>1. ConfigOK'
  BY ConfigKept, Zenon DEF Inv
<1>2. StatesOK' /\ ObjectsOK'
  BY DEF objects, threads, Inv, StatesOK, ObjectsOK, Labels, Closed, Unopened,
         Serving
<1>3. ThreadsOK' /\ SenderOK'
  BY DEF objects, threads, confVars, Inv, ThreadsOK, SenderOK, Starting,
         Serving, Closed
<1>4. Prepared' /\ CrashesOnlyInRelease'
  BY DEF objects, threads, confVars, Inv, Prepared, CrashesOnlyInRelease
<1>5. StartsAsAssumed'
  BY DEF objects, threads, confVars, Inv, StartsAsAssumed, TooMany
<1> QED
  BY <1>1, <1>2, <1>3, <1>4, <1>5 DEF Inv

(***************************************************************************)
(* The receive loop, the signal, and the statistics thread beside them.    *)
(***************************************************************************)
LEMMA ServeStep ==
  ASSUME Inv, Recv \/ CheckDone \/ OnTerm \/ Arrive \/ StatThread
                   \/ SenderThread \/ DebugThread
  PROVE  Inv'
<1> USE DEF Inv, StatesOK, ObjectsOK, ThreadsOK, SenderOK, Prepared,
            StartsAsAssumed, CrashesOnlyInRelease, Starting, Labels, Unopened,
            Serving, Closed, ObjectStates, Goto
<1>1. CASE Recv
  BY <1>1, ConfigKept DEF Recv, objects, threads, confVars
<1>2. CASE CheckDone
  <2>1. UNCHANGED <<damper_done, objects, threads, confVars>>
    BY <1>2, Zenon DEF CheckDone
  <2>2. ConfigOK'
    BY <2>1, ConfigKept, Zenon DEF Inv
  <2>3. pc = "damper_done?"
    BY <1>2, Zenon DEF CheckDone
  <2>4. CASE pc' = "recv"
    BY <2>1, <2>3, <2>4, LoopStep
  <2>5. CASE damper_done /\ pc' = "pthread_join"
    BY <2>1, <2>2, <2>3, <2>5 DEF objects, threads, confVars
  <2>6. CASE "bymark" \notin mptr /\ pc' = "crashed"
    <3>1. mptr # Dereferencing
      BY <2>6 DEF Dereferencing, AllModules
    <3> QED
      BY <2>1, <2>2, <2>3, <2>6, <3>1 DEF objects, threads, confVars
  <2> QED
    BY <1>2, <2>4, <2>5, <2>6, Zenon DEF CheckDone, HandlePacket
<1>3. CASE OnTerm
  <2>1. /\ pc' = pc \/ (pc = "recv" /\ pc' = "damper_done?")
        /\ UNCHANGED <<objects, threads, confVars>> /\ damper_done'
    BY <1>3, Zenon DEF OnTerm
  <2> QED
    BY <2>1, LoopStep
<1>4. CASE Arrive
  <2>1. UNCHANGED <<pc, damper_done, objects, threads, confVars>>
    BY <1>4, Zenon DEF Arrive
  <2> QED
    BY <2>1, LoopStep
<1>5. CASE StatWhile
  BY <1>5, ConfigKept DEF StatWhile, objects, confVars
<1>6. CASE StatTick
  <2>1. \/ UNCHANGED conf
        \/ conf' = [conf EXCEPT !.stat = FALSE] /\ statf' = "none"
    BY <1>6 DEF StatTick
  <2>2. DOMAIN conf' = Fields /\ (conf'.stat => conf.stat)
        /\ conf'.stat \in BOOLEAN
        /\ \A f \in Fields \ {"stat"} : conf'[f] = conf[f]
    BY <2>1 DEF ConfigOK, ConfOK, Fields
  <2>3. ConfigOK'
    BY <1>6, <2>2 DEF StatTick, ConfigOK, ConfOK, ParamOK, Fields
  <2>4. conf'.stat => statf' = "live"
    BY <1>6, <2>1 DEF StatTick, ConfigOK, ConfOK, Fields
  <2>5. /\ UNCHANGED <<pc, damper_done, mptr, userdata, handle, queue, flows,
                       enabled, debugThreads, senderThread, param>>
        /\ statThread = "sleep" /\ statThread' = "while"
    BY <1>6, Zenon DEF StatTick
  <2>6. statf' \in ObjectStates
    BY <1>6 DEF StatTick
  <2>7. pc \in Serving
    BY <1>6, <2>5 DEF StatTick, Ended
  <2>8. StatesOK' /\ ObjectsOK'
    BY <2>5, <2>6
  <2>9. ThreadsOK' /\ SenderOK' /\ CrashesOnlyInRelease'
    BY <2>4, <2>5, <2>7
  <2>10. Prepared' /\ StartsAsAssumed'
    BY <2>2, <2>5, <2>7 DEF Fields, TooMany
  <2> QED
    BY <2>3, <2>8, <2>9, <2>10
<1>7. CASE SenderThread
  <2>1. /\ UNCHANGED <<damper_done, objects, threads, confVars>>
        /\ senderThread = "running" /\ ~Ended
    BY <1>7, Zenon DEF SenderThread
  <2>2. ConfigOK'
    BY <2>1, ConfigKept, Zenon DEF Inv
  <2>3. CASE pc' = pc
    BY <2>1, <2>3, LoopStep
  <2>4. CASE /\ pc' = "sender crashed"
             /\ userdata = "freed" \/ queue = "freed"
    <3>1. pc \notin Starting \cup {"pthread_create"} \cup Serving
      BY <2>1, <2>4
    <3>2. damper_done /\ statThread = "ended" /\ queue = "freed"
      BY <2>1, <2>4, <3>1 DEF Ended
    <3> QED
      BY <2>1, <2>2, <2>4, <3>1, <3>2
         DEF objects, threads, confVars, TooMany, Ended
  <2> QED
    BY <1>7, <2>3, <2>4, Zenon DEF SenderThread
<1>8. CASE DebugThread
  <2>1. /\ UNCHANGED <<damper_done, objects, threads, confVars>>
        /\ pc' = "debug crashed" /\ ~Ended
        /\ \E m \in debugThreads : flows[m] = "freed"
    BY <1>8, Zenon DEF DebugThread, Goto
  <2>2. ConfigOK'
    BY <2>1, ConfigKept, Zenon DEF Inv
  <2>3. handle = "freed"
    BY <2>1
  <2>4. pc \in {"done", "userdata_destroy", "exit"}
    BY <2>1, <2>3 DEF Ended
  <2> QED
    BY <2>1, <2>2, <2>3, <2>4 DEF objects, threads, confVars
<1> QED
  BY <1>1, <1>2, <1>3, <1>4, <1>5, <1>6, <1>7, <1>8 DEF StatThread

(***************************************************************************)
(* The flags stay Boolean.                                                 *)
(***************************************************************************)
LEMMA FlagsStep ==
  ASSUME FlagsOK, Next
  PROVE  FlagsOK'
<1> USE DEF FlagsOK
<1>1. CASE Start
  BY <1>1, Zenon
     DEF Start, OpenConfig, ReadConfig, Allocate, PostConf, PostConfOfNull,
         OpenHandle, BindHandle, CreateQueue, SetMode, InstallHandlers,
         CreateThreads, threads, traffic
<1>2. CASE Stop
  BY <1>2, Zenon
     DEF Stop, JoinStatThread, DestroyQueue, CloseHandle, FreeModules,
         FreeUserdata, Exit, threads, traffic
<1>3. CASE Recv \/ CheckDone \/ OnTerm \/ Arrive
  BY <1>3, Zenon
     DEF Recv, CheckDone, HandlePacket, OnTerm, Arrive, threads, traffic
<1>4. CASE StatThread \/ SenderThread \/ DebugThread
  BY <1>4, Zenon
     DEF StatThread, StatWhile, StatTick, SenderThread, DebugThread, threads,
         traffic
<1> QED
  BY <1>1, <1>2, <1>3, <1>4, Zenon DEF Next, Main

(***************************************************************************)
(* All parts of the invariant, for all of Next.                            *)
(***************************************************************************)
LEMMA InvStep == Inv /\ [Next]_vars => Inv'
<1> SUFFICES ASSUME Inv, [Next]_vars PROVE Inv'
  OBVIOUS
<1>1. CASE Next
  BY <1>1, StartStep, StopStep, ServeStep, Zenon DEF Next, Main
<1>2. CASE UNCHANGED vars
  <2>1. UNCHANGED <<objects, threads, confVars>> /\ pc' = pc
        /\ damper_done' = damper_done
    BY <1>2, Zenon DEF vars
  <2> QED
    BY <2>1, LoopStep, Zenon
<1> QED
  BY <1>1, <1>2

LEMMA InvInit == Init => Inv /\ FlagsOK
<1> SUFFICES ASSUME Init PROVE Inv /\ FlagsOK
  OBVIOUS
<1>1. ConfOK
  BY Zenon, ConfigAssumption DEF Init, ConfigInit, UnsetConf, ConfOK, Fields
<1>2. ParamOK
  <2>1. param = [inhibit_big_flows |-> [k |-> 1, nrecent |-> 0, debug |-> 0],
                 entropy |-> [k |-> 1, nrecent |-> 0, debug |-> 0,
                              sport |-> -1, dport |-> -1],
                 bymark |-> [k |-> 1],
                 random |-> [k |-> 1]]
    BY Zenon DEF Init, ConfigInit, UnsetParam
  <2> QED
    BY <2>1 DEF ParamOK, AllModules, TableModules
<1>3. file \in Seq(Seq(STRING)) /\ lineno \in 0 .. Len(file)
  <2>1. file \in Files /\ lineno = 0
    BY Zenon DEF Init, ConfigInit
  <2>2. file \in Seq(Seq(STRING))
    BY <2>1, ConfigAssumption, Zenon
  <2> QED
    BY <2>1, <2>2
<1>4. StatesOK
  BY DEF Init, StatesOK, Labels, Starting, ObjectStates, TableModules
<1>5. FlagsOK
  BY DEF Init, FlagsOK
<1> QED
  BY <1>1, <1>2, <1>3, <1>4, <1>5
     DEF Inv, ConfigOK, Init, ObjectsOK, ThreadsOK, SenderOK, Prepared,
         StartsAsAssumed, CrashesOnlyInRelease, Unopened, Closed, Starting,
         Serving

LEMMA Invariance == Spec => [](Inv /\ FlagsOK)
<1>1. FlagsOK /\ [Next]_vars => FlagsOK'
  BY FlagsStep, Zenon DEF vars, threads, traffic, FlagsOK
<1> QED
  BY <1>1, InvInit, InvStep, PTL DEF Spec

-----------------------------------------------------------------------------
(***************************************************************************)
(* Every field keeps its type and width, whatever lines the file has and   *)
(* however large the numbers in it are.                                    *)
(***************************************************************************)
THEOREM TypesKept == Spec => []TypeOK
<1>1. Inv /\ FlagsOK => TypeOK
  BY Zenon DEF Inv, FlagsOK, StatesOK, ConfigOK, ConfOK, TypeOK
<1> QED
  BY <1>1, Invariance, PTL

(***************************************************************************)
(* The threads begin with a configuration as the other modules assume it.  *)
(***************************************************************************)
THEOREM ConfigurationHolds == Spec => []StartsAsAssumed
BY Invariance, PTL DEF Inv

(***************************************************************************)
(* Whichever step of main fails, and whenever the signal comes, what was   *)
(* opened is closed in the right order.                                    *)
(***************************************************************************)
THEOREM EverythingReleased == Spec => []ReleasedAtExit
<1>1. Inv => ReleasedAtExit
  BY DEF Inv, ObjectsOK, ReleasedAtExit
<1> QED
  BY <1>1, Invariance, PTL

(***************************************************************************)
(* The statistics thread is joined before what it uses is freed.           *)
(***************************************************************************)
THEOREM StatThreadJoined == Spec => []StatThreadUsesLiveData
<1>1. Inv => StatThreadUsesLiveData
  BY DEF Inv, ObjectsOK, ThreadsOK, Serving, Closed, StatThreadUsesLiveData
<1> QED
  BY <1>1, Invariance, PTL

(***************************************************************************)
(* For every file: with memory for its modules main does not crash while   *)
(* it starts or serves, nor in userdata_destroy if every module has its    *)
(* table and file and the statistics thread has run; and no thread uses    *)
(* what is released before a signal and the end of the statistics thread.  *)
(***************************************************************************)
THEOREM NoCrashBeforeRelease == Spec => []CrashesOnlyInRelease
BY Invariance, PTL DEF Inv

-----------------------------------------------------------------------------
LimitOf(p1) == IF p1 = "no" THEN UINT64_MAX ELSE Str2Bps(p1)

(***************************************************************************)
(* In range, the digits are multiplied before they are divided by 8.       *)
(***************************************************************************)
LEMMA Str2BpsExact ==
  ASSUME NEW word \in DOMAIN Numeral,
         NEW bits, bits = Digits(word) * Unit[Numeral[word].suffix],
         bits \in 0 .. LongMod - 1, 2 * Digits(word) < LongMod - 2
  PROVE  8 * Str2Bps(word) \in bits - 7 .. bits
<1> DEFINE unit == Unit[Numeral[word].suffix]
<1>1. unit \in Nat /\ Digits(word) \in Int /\ Strtoll(word) \in Int
  BY ConfigAssumption, NumbersAreIntegers DEF Unit
<1>2. CASE unit = 0
  <2>1. Strtoll(word) * unit = 0 /\ bits = 0
    BY <1>1, <1>2
  <2>2. 0 % LongMod = 0 /\ 0 \div 8 = 0
    BY ConfigAssumption
  <2>3. Str2Bps(word) = 0
    BY <2>1, <2>2 DEF Str2Bps
  <2> QED
    BY <2>1, <2>3
<1>3. CASE unit > 0
  <2> DEFINE d == Digits(word)
  <2>1. d >= 0
    <3>1. ASSUME NEW x \in Int, x < 0, NEW y \in Int, y > 0
          PROVE  x * y < 0
      BY <3>1
    <3>2. d * unit >= 0
      BY <1>1
    <3> QED
      BY <1>1, <1>3, <3>1, <3>2
  <2> DEFINE half == LongMod \div 2
  <2>2. half \in Nat /\ half > 0 /\ LongMod = 2 * half
    BY ConfigAssumption
  <2>3. d \in 0 .. half - 2
    BY <1>1, <2>1, <2>2
  <2> HIDE DEF half, d
  <2>4. ~OutOfRange(word)
    BY <2>2, <2>3, ConfigAssumption DEF OutOfRange, d
  <2>5. Strtoll(word) = d
    BY <2>4, Zenon DEF Strtoll, d
  <2>6. Strtoll(word) # half - 1 /\ Strtoll(word) # -half
    BY <2>2, <2>3, <2>5
  <2>7. Str2Bps(word) = (bits % LongMod) \div 8
    BY <2>5, <2>6, Zenon DEF Str2Bps, d, half
  <2>8. ASSUME NEW m \in Nat \ {0}, NEW b \in 0 .. m - 1
        PROVE  b % m = b
    BY <2>8
  <2>9. bits % LongMod = bits
    BY <2>8, ConfigAssumption
  <2>10. ASSUME NEW b \in Nat
         PROVE  8 * (b \div 8) \in b - 7 .. b
    BY <2>10
  <2>11. bits \in Nat
    BY ConfigAssumption
  <2> QED
    BY <2>7, <2>9, <2>10, <2>11
<1> QED
  BY <1>1, <1>2, <1>3

(***************************************************************************)
(* Str2Bps is at most an eighth, so that no number stands for "no".        *)
(***************************************************************************)
LEMMA Str2BpsIsNotNo ==
  ASSUME NEW word
  PROVE  Str2Bps(word) # UINT64_MAX
<1> DEFINE y == (Strtoll(word) * Unit[Numeral[word].suffix]) % LongMod
<1>1. CASE word \notin DOMAIN Numeral \/ Strtoll(word) = LongMod \div 2 - 1
                                      \/ Strtoll(word) = -(LongMod \div 2)
  BY <1>1, ConfigAssumption DEF Str2Bps, UINT64_MAX
<1>2. CASE ~(word \notin DOMAIN Numeral \/ Strtoll(word) = LongMod \div 2 - 1
                                        \/ Strtoll(word) = -(LongMod \div 2))
  <2>1. Unit[Numeral[word].suffix] \in Int
    BY <1>2, ConfigAssumption DEF Unit
  <2>2. Strtoll(word) * Unit[Numeral[word].suffix] \in Int
    BY <2>1, NumbersAreIntegers
  <2>3. y \in 0 .. LongMod - 1
    BY <2>2, ConfigAssumption
  <2>4. Str2Bps(word) = y \div 8
    BY <1>2, Zenon DEF Str2Bps
  <2> HIDE DEF y
  <2> QED
    BY <2>3, <2>4, ConfigAssumption DEF UINT64_MAX
<1> QED
  BY <1>1, <1>2

(***************************************************************************)
(* Two actions change the configuration.                                   *)
(***************************************************************************)
LEMMA OthersKeepConfig ==
  ASSUME [Next]_vars
  PROVE  ReadConfig \/ StatTick \/ UNCHANGED confVars
<1>1. CASE Start
  BY <1>1, Zenon
     DEF Start, OpenConfig, Allocate, PostConf, PostConfOfNull, OpenHandle,
         BindHandle, CreateQueue, SetMode, InstallHandlers, CreateThreads
<1>2. CASE Stop
  BY <1>2, Zenon
     DEF Stop, JoinStatThread, DestroyQueue, CloseHandle, FreeModules,
         FreeUserdata, Exit
<1>3. CASE Recv \/ CheckDone \/ OnTerm \/ Arrive \/ StatWhile
             \/ SenderThread \/ DebugThread
  BY <1>3, Zenon
     DEF Recv, CheckDone, OnTerm, Arrive, StatWhile, SenderThread, DebugThread
<1>4. CASE UNCHANGED vars
  BY <1>4, Zenon DEF vars
<1> QED
  BY <1>1, <1>2, <1>3, <1>4, Zenon DEF Next, Main, StatThread

-----------------------------------------------------------------------------
(***************************************************************************)
(* While the file is read: what each line changes, in the words of         *)
(* SettingsComeFromLines, which speaks of all lines read.                  *)
(***************************************************************************)
NextLine == file[lineno + 1]

IsAbout(cmd) == ~Ignored(NextLine) /\ NextLine[1] = cmd

(***************************************************************************)
(* One line more is read; it joins the lines about what it is about.       *)
(***************************************************************************)
LEMMA LinesRead ==
  ASSUME ConfigOK, ReadLine
  PROVE  /\ lineno \in Nat /\ lineno' = lineno + 1 /\ file' = file
         /\ \A cmd : /\ LinesOf(cmd) \subseteq 1 .. lineno
                     /\ LinesOf(cmd)' = IF IsAbout(cmd)
                                        THEN LinesOf(cmd) \cup {lineno + 1}
                                        ELSE LinesOf(cmd)
         /\ \A m, p : /\ LinesAbout(m, p) \subseteq 1 .. lineno
                      /\ LinesAbout(m, p)' =
                           IF IsAbout(m) /\ NextLine[2] = p
                           THEN LinesAbout(m, p) \cup {lineno + 1}
                           ELSE LinesAbout(m, p)
<1>1. lineno \in Nat /\ lineno' = lineno + 1 /\ file' = file
  <2>1. lineno \in Nat
    BY DEF ConfigOK
  <2> QED
    BY <2>1, Zenon DEF ReadLine
<1>2. 1 .. lineno + 1 = (1 .. lineno) \cup {lineno + 1}
  BY <1>1
<1>3. \A cmd : LinesOf(cmd) = {i \in 1 .. lineno : ~Ignored(file[i]) /\ file[i][1] = cmd}
  BY DEF LinesOf, ReadLines
<1>4. \A cmd : LinesOf(cmd)' =
        {i \in 1 .. lineno + 1 : ~Ignored(file[i]) /\ file[i][1] = cmd}
  BY <1>1 DEF LinesOf, ReadLines, Ignored
<1>5. \A cmd : LinesOf(cmd)' = IF IsAbout(cmd) THEN LinesOf(cmd) \cup {lineno + 1}
                                               ELSE LinesOf(cmd)
  BY <1>2, <1>3, <1>4 DEF IsAbout, NextLine
<1>6. \A m, p : LinesAbout(m, p)' = {i \in LinesOf(m)' : file[i][2] = p}
  BY <1>1 DEF LinesAbout
<1>7. \A m, p : LinesAbout(m, p)' = IF IsAbout(m) /\ NextLine[2] = p
                                    THEN LinesAbout(m, p) \cup {lineno + 1}
                                    ELSE LinesAbout(m, p)
  BY <1>5, <1>6 DEF LinesAbout, NextLine
<1>8. /\ \A cmd : LinesOf(cmd) \subseteq 1 .. lineno
      /\ \A m, p : LinesAbout(m, p) \subseteq 1 .. lineno
  BY <1>3 DEF LinesAbout
<1> QED
  BY <1>1, <1>5, <1>7, <1>8

(***************************************************************************)
(* The last of the lines up to one more is the new one.                    *)
(***************************************************************************)
LEMMA LastLine ==
  ASSUME NEW n \in Nat, NEW S, S \subseteq 1 .. n
  PROVE  Max(S \cup {n + 1}) = n + 1
<1> DEFINE T == S \cup {n + 1}
<1>1. T \subseteq Int /\ n + 1 \in T /\ \A x \in T : x <= n + 1
  OBVIOUS
<1> HIDE DEF T
<1>2. Max(T) = n + 1
  BY <1>1, LargestIs
<1> QED
  BY <1>2 DEF T

(***************************************************************************)
(* A line is ignored, or it is about u or about a module.                  *)
(***************************************************************************)
LEMMA LineStep ==
  ASSUME ConfigOK, ReadLine
  PROVE  LET line == NextLine
         IN  \/ /\ Ignored(line) \/ Unknown(line)
                /\ UNCHANGED <<conf, param, marks, erange>>
             \/ /\ ~Ignored(line) /\ ~Unknown(line)
                /\ \/ Setting(line[1], line[2])
                   \/ ModuleLine(line[1], line[2], p2')
<1>1. lineno' = lineno + 1
  BY Zenon DEF ReadLine
<1> QED
  BY <1>1, Zenon DEF ReadLine, NextLine

(***************************************************************************)
(* A line sets the field it is about, and no other.                        *)
(***************************************************************************)
LEMMA FieldStep ==
  ASSUME ConfigOK, ReadLine, NEW cmd \in Fields
  PROVE  IF IsAbout(cmd) THEN conf'[cmd] = SettingOf(cmd, NextLine[2])
                         ELSE conf'[cmd] = conf[cmd]
<1>1. DOMAIN conf = Fields
  BY Zenon DEF ConfigOK, ConfOK
<1>2. Fields \cap AllModules = {}
  BY DEF Fields, AllModules, TableModules
<1>3. CASE Ignored(NextLine) \/ Unknown(NextLine)
  <2>1. ~IsAbout(cmd)
    BY <1>1, <1>3, Zenon DEF IsAbout, Unknown
  <2>2. conf' = conf
    BY <1>3, LineStep, Zenon
  <2> QED
    BY <2>1, <2>2
<1>4. CASE ~Ignored(NextLine) /\ Setting(NextLine[1], NextLine[2])
  BY <1>1, <1>4 DEF Setting, IsAbout
<1>5. CASE ~Ignored(NextLine) /\ ModuleLine(NextLine[1], NextLine[2], p2')
  <2>1. conf' = conf
    BY <1>5, ModuleStep, Zenon DEF ConfigOK
  <2>2. NextLine[1] \in AllModules
    BY <1>5, Zenon DEF ModuleLine
  <2> QED
    BY <1>2, <2>1, <2>2 DEF IsAbout
<1> QED
  BY <1>3, <1>4, <1>5, LineStep, Zenon

FieldsFromLines ==
  /\ \A cmd \in Fields \ {"stat", "wchart"} :
       /\ LinesOf(cmd) # {} =>
            conf[cmd] = SettingOf(cmd, file[Max(LinesOf(cmd))][2])
       /\ LinesOf(cmd) = {} => conf[cmd] = UnsetConf[cmd]
  /\ \A cmd \in {"stat", "wchart"} :
       conf[cmd] = (LinesAbout(cmd, "yes") # {})

(***************************************************************************)
(* Apart from the two switches, what a line says of a setting does not     *)
(* depend on the state.                                                    *)
(***************************************************************************)
LEMMA SettingIsFixed ==
  ASSUME NEW cmd \in Fields \ {"stat", "wchart"}, NEW p1
  PROVE  SettingOf(cmd, p1)' = SettingOf(cmd, p1)
BY DEF SettingOf, Fields

(***************************************************************************)
(* The fields of u are still those of their last lines.                    *)
(***************************************************************************)
LEMMA FieldsStep ==
  ASSUME ConfigOK, FieldsFromLines, ReadLine
  PROVE  FieldsFromLines'
<1>1. lineno \in Nat /\ lineno' = lineno + 1 /\ file' = file
  BY LinesRead
<1>2. ASSUME NEW cmd \in Fields \ {"stat", "wchart"}, LinesOf(cmd)' # {}
      PROVE  conf'[cmd] = SettingOf(cmd, file[Max(LinesOf(cmd))][2])'
  <2>1. CASE IsAbout(cmd)
    <3>1. LinesOf(cmd)' = LinesOf(cmd) \cup {lineno + 1}
          /\ LinesOf(cmd) \subseteq 1 .. lineno
      BY <2>1, LinesRead
    <3>2. Max(LinesOf(cmd)') = lineno + 1
      BY <1>1, <3>1, LastLine
    <3>3. conf'[cmd] = SettingOf(cmd, NextLine[2])
      BY <2>1, FieldStep
    <3>4. PICK w : w = NextLine[2]
      OBVIOUS
    <3>5. file'[Max(LinesOf(cmd)')][2] = w
      BY <1>1, <3>2, <3>4 DEF NextLine
    <3>6. SettingOf(cmd, w)' = SettingOf(cmd, w)
      BY SettingIsFixed
    <3> QED
      BY <3>3, <3>4, <3>5, <3>6
  <2>2. CASE ~IsAbout(cmd)
    <3>1. LinesOf(cmd)' = LinesOf(cmd)
      BY <2>2, LinesRead
    <3>2. conf'[cmd] = conf[cmd]
      BY <2>2, FieldStep
    <3>3. PICK w : w = file[Max(LinesOf(cmd))][2]
      OBVIOUS
    <3>4. conf[cmd] = SettingOf(cmd, w)
      BY <1>2, <3>1, <3>3 DEF FieldsFromLines
    <3>5. file'[Max(LinesOf(cmd)')][2] = w
      BY <1>1, <3>1, <3>3
    <3>6. SettingOf(cmd, w)' = SettingOf(cmd, w)
      BY SettingIsFixed
    <3> QED
      BY <3>2, <3>4, <3>5, <3>6
  <2> QED
    BY <2>1, <2>2
<1>3. ASSUME NEW cmd \in Fields \ {"stat", "wchart"}, LinesOf(cmd)' = {}
      PROVE  conf'[cmd] = UnsetConf[cmd]
  <2>1. ~IsAbout(cmd) /\ LinesOf(cmd)' = LinesOf(cmd)
    BY <1>3, LinesRead
  <2>2. conf[cmd] = UnsetConf[cmd]
    BY <1>3, <2>1 DEF FieldsFromLines
  <2> QED
    BY <2>1, <2>2, FieldStep
<1>4. ASSUME NEW cmd \in {"stat", "wchart"}
      PROVE  conf'[cmd] = (LinesAbout(cmd, "yes")' # {})
  <2>1. cmd \in Fields
    BY DEF Fields
  <2>2. conf[cmd] = (LinesAbout(cmd, "yes") # {})
    BY DEF FieldsFromLines
  <2>3. CASE IsAbout(cmd)
    <3>1. SettingOf(cmd, NextLine[2]) = SwitchedOn(cmd, NextLine[2])
      BY DEF SettingOf
    <3>2. conf'[cmd] = SwitchedOn(cmd, NextLine[2])
      BY <2>1, <2>3, <3>1, FieldStep
    <3>3. LinesAbout(cmd, "yes")' = IF NextLine[2] = "yes"
                                    THEN LinesAbout(cmd, "yes") \cup {lineno + 1}
                                    ELSE LinesAbout(cmd, "yes")
      BY <2>3, LinesRead
    <3> QED
      BY <2>2, <3>2, <3>3 DEF SwitchedOn
  <2>4. CASE ~IsAbout(cmd)
    <3>1. conf'[cmd] = conf[cmd]
      BY <2>1, <2>4, FieldStep
    <3>2. LinesAbout(cmd, "yes")' = LinesAbout(cmd, "yes")
      BY <2>4, LinesRead
    <3> QED
      BY <2>2, <3>1, <3>2
  <2> QED
    BY <2>3, <2>4
<1>5. UnsetConf' = UnsetConf
  BY DEF UnsetConf
<1> QED
  BY <1>2, <1>3, <1>4, <1>5 DEF FieldsFromLines

(***************************************************************************)
(* Parameters of modules. (bymark has the coefficient only.)               *)
(***************************************************************************)
ParamsFromLines ==
  /\ DOMAIN param = AllModules
  /\ DOMAIN param["bymark"] = {"k"}
  /\ \A m \in AllModules : "k" \in DOMAIN param[m]
  /\ \A m \in AllModules : \A p \in DOMAIN param[m] :
       LET about == LinesAbout(m, p)
       IN  /\ about = {} => param[m][p] = UnsetParam[m][p]
           /\ about # {} /\ Len(file[Max(about)]) >= 3 =>
                param[m][p] = ParameterOf(p, file[Max(about)][3])

(***************************************************************************)
(* A line sets the parameter it is about, and no other.                    *)
(***************************************************************************)
LEMMA ParamStep ==
  ASSUME ConfigOK, ParamsFromLines, ReadLine, NEW m \in AllModules
  PROVE  /\ DOMAIN param' = AllModules
         /\ DOMAIN param'[m] = DOMAIN param[m]
         /\ \A p \in DOMAIN param[m] :
              param'[m][p] = IF IsAbout(m) /\ NextLine[2] = p
                             THEN ParameterOf(p, p2') ELSE param[m][p]
<1>1. DOMAIN param = AllModules
  BY DEF ParamsFromLines
<1>2. Fields \cap AllModules = {} /\ DOMAIN conf = Fields
  BY DEF ConfigOK, ConfOK, Fields, AllModules, TableModules
<1>3. CASE Ignored(NextLine) \/ Unknown(NextLine)
  <2>1. ~IsAbout(m)
    BY <1>3, Zenon DEF IsAbout, Unknown
  <2>2. param' = param
    BY <1>3, LineStep, Zenon
  <2> QED
    BY <1>1, <2>1, <2>2
<1>4. CASE ~Ignored(NextLine) /\ Setting(NextLine[1], NextLine[2])
  <2>1. param' = param /\ NextLine[1] \in Fields
    BY <1>2, <1>4, Zenon DEF Setting
  <2> QED
    BY <1>1, <1>2, <2>1 DEF IsAbout
<1>5. CASE ~Ignored(NextLine) /\ ModuleLine(NextLine[1], NextLine[2], p2')
  <2> DEFINE l == NextLine[1]
             q == NextLine[2]
  <2>1. l \in AllModules /\ (IsAbout(m) <=> l = m)
    BY <1>5 DEF ModuleLine, IsAbout
  <2>2. CASE q = "k" /\ Coefficient(l, p2')
    BY <1>1, <2>1, <2>2 DEF Coefficient, ParamsFromLines
  <2>3. CASE q # "k" /\ l = "bymark" /\ AddMark(q, p2')
    <3>1. param' = param /\ DOMAIN param["bymark"] = {"k"}
      BY <2>3 DEF AddMark, ParamsFromLines
    <3> QED
      BY <1>1, <2>1, <2>3, <3>1
  <2>4. CASE q # "k" /\ l # "bymark" /\ Parameter(l, q, p2')
    BY <1>1, <2>1, <2>4 DEF Parameter
  <2> QED
    BY <1>5, <2>2, <2>3, <2>4 DEF ModuleLine
<1> QED
  BY <1>3, <1>4, <1>5, LineStep, Zenon

(***************************************************************************)
(* The parameters are still those of their last lines.                     *)
(***************************************************************************)
LEMMA ParamsStep ==
  ASSUME ConfigOK, ParamsFromLines, ReadLine
  PROVE  ParamsFromLines'
<1>1. lineno \in Nat /\ lineno' = lineno + 1 /\ file' = file
  BY LinesRead
<1>2. /\ DOMAIN param' = AllModules
      /\ \A m \in AllModules : DOMAIN param'[m] = DOMAIN param[m]
  <2>1. "k" \in DOMAIN param["bymark"] /\ "bymark" \in AllModules
    BY DEF ParamsFromLines, AllModules
  <2> QED
    BY <2>1, ParamStep
<1>3. /\ DOMAIN param'["bymark"] = {"k"}
      /\ \A m \in AllModules : "k" \in DOMAIN param'[m]
  BY <1>2 DEF ParamsFromLines, AllModules
<1>4. ASSUME NEW m \in AllModules, NEW p \in DOMAIN param[m]
      PROVE  LET about == LinesAbout(m, p)'
             IN  /\ about = {} => param'[m][p] = UnsetParam[m][p]
                 /\ about # {} /\ Len(file[Max(about)]) >= 3 =>
                      param'[m][p] = ParameterOf(p, file[Max(about)][3])
  <2>1. CASE IsAbout(m) /\ NextLine[2] = p
    <3>1. LinesAbout(m, p)' = LinesAbout(m, p) \cup {lineno + 1}
          /\ LinesAbout(m, p) \subseteq 1 .. lineno
      BY <2>1, LinesRead
    <3>2. Max(LinesAbout(m, p)') = lineno + 1 /\ LinesAbout(m, p)' # {}
      BY <1>1, <3>1, LastLine
    <3>3. param'[m][p] = ParameterOf(p, p2')
      BY <2>1, ParamStep
    <3>4. Len(file[lineno + 1]) >= 3 => p2' = file[lineno + 1][3]
      BY <1>1, Zenon DEF ReadLine, ThirdWord
    <3> QED
      BY <3>2, <3>3, <3>4
  <2>2. CASE ~(IsAbout(m) /\ NextLine[2] = p)
    <3>1. LinesAbout(m, p)' = LinesAbout(m, p)
      BY <2>2, LinesRead
    <3>2. param'[m][p] = param[m][p]
      BY <2>2, ParamStep
    <3> QED
      BY <3>1, <3>2 DEF ParamsFromLines
  <2> QED
    BY <2>1, <2>2
<1>5. UnsetParam' = UnsetParam
  BY DEF UnsetParam
<1>6. \A p, w : ParameterOf(p, w)' = ParameterOf(p, w)
  BY DEF ParameterOf
<1> QED
  BY <1>1, <1>2, <1>3, <1>4, <1>5, <1>6 DEF ParamsFromLines

(***************************************************************************)
(* The marks, in the order of their lines, which is that of increasing     *)
(* line numbers.                                                           *)
(***************************************************************************)
MarksReadable == ~erange /\ \A i \in MarkLines : Len(file[i]) = 3

InOrder(at) ==
  /\ DOMAIN at = 1 .. Len(marks)
  /\ \A i \in 1 .. Len(marks) : at[i] \in MarkLines
  /\ \A i, j \in 1 .. Len(marks) : i < j => at[i] < at[j]
  /\ \A n \in MarkLines : \E i \in 1 .. Len(marks) : at[i] = n
  /\ MarksReadable =>
       \A i \in 1 .. Len(marks) : /\ marks[i].mark = Atoi(file[at[i]][2])
                                  /\ marks[i].w = Digits(file[at[i]][3])

MarksFromLines ==
  /\ marks \in Seq([mark : Int, w : Int])
  /\ IsFiniteSet(MarkLines) /\ Len(marks) = Cardinality(MarkLines)
  /\ \E at : InOrder(at)

(***************************************************************************)
(* A line about a mark adds an entry, and nothing else does.               *)
(***************************************************************************)
LEMMA MarkLineStep ==
  ASSUME ConfigOK, ReadLine
  PROVE  /\ MarkLines \subseteq 1 .. lineno
         /\ IF IsAbout("bymark") /\ NextLine[2] # "k"
            THEN /\ MarkLines' = MarkLines \cup {lineno + 1}
                 /\ AddMark(NextLine[2], p2')
            ELSE MarkLines' = MarkLines /\ UNCHANGED marks
<1>1. /\ LinesOf("bymark") \subseteq 1 .. lineno
      /\ LinesOf("bymark")' = IF IsAbout("bymark")
                              THEN LinesOf("bymark") \cup {lineno + 1}
                              ELSE LinesOf("bymark")
      /\ LinesAbout("bymark", "k") \subseteq 1 .. lineno
      /\ LinesAbout("bymark", "k")' =
           IF IsAbout("bymark") /\ NextLine[2] = "k"
           THEN LinesAbout("bymark", "k") \cup {lineno + 1}
           ELSE LinesAbout("bymark", "k")
      /\ lineno \in Nat
  BY LinesRead
<1>2. lineno + 1 \notin 1 .. lineno
  BY <1>1
<1>3. MarkLines' = IF IsAbout("bymark") /\ NextLine[2] # "k"
                   THEN MarkLines \cup {lineno + 1} ELSE MarkLines
  <2> DEFINE A == LinesOf("bymark")
             B == LinesAbout("bymark", "k")
  <2>1. lineno + 1 \notin A /\ lineno + 1 \notin B
    BY <1>1, <1>2
  <2>2. MarkLines = A \ B /\ MarkLines' = A' \ B'
    BY DEF MarkLines
  <2>3. CASE IsAbout("bymark") /\ NextLine[2] # "k"
    <3>1. A' = A \cup {lineno + 1} /\ B' = B
      BY <1>1, <2>3
    <3> HIDE DEF A, B
    <3> QED
      BY <2>1, <2>2, <2>3, <3>1
  <2>4. CASE IsAbout("bymark") /\ NextLine[2] = "k"
    <3>1. A' = A \cup {lineno + 1} /\ B' = B \cup {lineno + 1}
      BY <1>1, <2>4
    <3> HIDE DEF A, B
    <3> QED
      BY <2>1, <2>2, <2>4, <3>1
  <2>5. CASE ~IsAbout("bymark")
    <3>1. A' = A /\ B' = B
      BY <1>1, <2>5
    <3> HIDE DEF A, B
    <3> QED
      BY <2>2, <2>5, <3>1
  <2> QED
    BY <2>3, <2>4, <2>5
<1>4. Fields \cap AllModules = {} /\ DOMAIN conf = Fields /\ "bymark" \in AllModules
  BY DEF ConfigOK, ConfOK, Fields, AllModules, TableModules
<1>5. IF IsAbout("bymark") /\ NextLine[2] # "k" THEN AddMark(NextLine[2], p2')
      ELSE UNCHANGED marks
  <2>1. CASE Ignored(NextLine) \/ Unknown(NextLine)
    <3>1. ~IsAbout("bymark")
      BY <1>4, <2>1, Zenon DEF IsAbout, Unknown
    <3>2. marks' = marks
      BY <2>1, LineStep, Zenon
    <3> QED
      BY <3>1, <3>2
  <2>2. CASE ~Ignored(NextLine) /\ Setting(NextLine[1], NextLine[2])
    <3>1. marks' = marks /\ NextLine[1] \in Fields
      BY <1>4, <2>2, Zenon DEF Setting
    <3> QED
      BY <1>4, <3>1 DEF IsAbout
  <2>3. CASE ~Ignored(NextLine) /\ ModuleLine(NextLine[1], NextLine[2], p2')
    BY <2>3, Zenon DEF ModuleLine, IsAbout, Coefficient, Parameter
  <2> QED
    BY <2>1, <2>2, <2>3, LineStep, Zenon
<1>6. MarkLines \subseteq 1 .. lineno
  BY <1>1 DEF MarkLines
<1> QED
  BY <1>3, <1>5, <1>6

(***************************************************************************)
(* errno is never cleared.                                                 *)
(***************************************************************************)
LEMMA ErangeStays ==
  ASSUME ConfigOK, ReadLine, erange
  PROVE  erange'
<1>1. CASE UNCHANGED erange
  BY <1>1
<1>2. CASE Setting(NextLine[1], NextLine[2])
  BY <1>2, Zenon DEF Setting
<1>3. CASE ModuleLine(NextLine[1], NextLine[2], p2')
  BY <1>3, Zenon DEF ModuleLine, Coefficient, AddMark, Parameter
<1> QED
  BY <1>1, <1>2, <1>3, LineStep, Zenon

(***************************************************************************)
(* The entries are still in the order of their lines: the new one is last  *)
(* in both.                                                                *)
(***************************************************************************)
LEMMA MarksStep ==
  ASSUME ConfigOK, MarksFromLines, ReadLine
  PROVE  MarksFromLines'
<1>1. lineno \in Nat /\ file' = file /\ MarkLines \subseteq 1 .. lineno
  BY LinesRead, MarkLineStep
<1>2. MarksReadable' => MarksReadable
  <2>1. MarkLines \subseteq MarkLines'
    BY MarkLineStep
  <2> QED
    BY <1>1, <2>1, ErangeStays DEF MarksReadable
<1>3. PICK at : InOrder(at)
  BY DEF MarksFromLines
<1>4. CASE ~(IsAbout("bymark") /\ NextLine[2] # "k")
  <2>1. MarkLines' = MarkLines /\ marks' = marks
    BY <1>4, MarkLineStep
  <2>2. InOrder(at)'
    <3>1. /\ DOMAIN at = 1 .. Len(marks')
          /\ \A i \in 1 .. Len(marks') : at[i] \in MarkLines'
          /\ \A i, j \in 1 .. Len(marks') : i < j => at[i] < at[j]
          /\ \A n \in MarkLines' : \E i \in 1 .. Len(marks') : at[i] = n
      BY <1>3, <2>1 DEF InOrder
    <3>2. MarksReadable' =>
            \A i \in 1 .. Len(marks') : /\ marks'[i].mark = Atoi(file[at[i]][2])
                                        /\ marks'[i].w = Digits(file[at[i]][3])
      BY <1>2, <1>3, <2>1 DEF InOrder
    <3> QED
      BY <1>1, <3>1, <3>2 DEF InOrder
  <2> QED
    BY <2>1, <2>2 DEF MarksFromLines
<1>5. CASE IsAbout("bymark") /\ NextLine[2] # "k"
  <2> DEFINE n == Len(marks)
             entry == [mark |-> IF erange \/ OutOfRange(NextLine[2]) THEN 0
                                ELSE Wrap(Strtoll(NextLine[2]), IntMod),
                       w |-> Digits(p2')]
  <2>1. /\ MarkLines' = MarkLines \cup {lineno + 1}
        /\ marks' = Append(marks, entry)
        /\ erange' = (erange \/ OutOfRange(NextLine[2]))
    BY <1>5, MarkLineStep DEF AddMark
  <2>2. marks \in Seq([mark : Int, w : Int]) /\ n \in Nat
    BY DEF MarksFromLines
  <2>3. entry \in [mark : Int, w : Int]
    <3>1. Wrap(Strtoll(NextLine[2]), IntMod) \in Int
      BY NumbersAreIntegers DEF Atoi
    <3>2. Digits(p2') \in Int
      BY NumbersAreIntegers
    <3> QED
      BY <3>1, <3>2
  <2>4. ~erange' => entry.mark = Atoi(NextLine[2])
    BY <2>1 DEF Atoi
  <2>5. Len(NextLine) = 3 => entry.w = Digits(NextLine[3])
    <3>1. lineno' = lineno + 1
      BY LinesRead
    <3>2. p2' = IF Len(NextLine) >= 3 THEN NextLine[3] ELSE p2
      BY <3>1, Zenon DEF ReadLine, ThirdWord, NextLine
    <3>3. Len(NextLine) = 3 => p2' = NextLine[3]
      BY <3>2
    <3> QED
      BY <3>3
  <2> HIDE DEF entry
  <2>6. /\ marks' \in Seq([mark : Int, w : Int]) /\ Len(marks') = n + 1
        /\ marks'[n + 1] = entry
        /\ \A i \in 1 .. n : marks'[i] = marks[i]
    BY <2>1, <2>2, <2>3
  <2>7. IsFiniteSet(MarkLines') /\ Len(marks') = Cardinality(MarkLines')
    <3>1. lineno + 1 \notin MarkLines
      BY <1>1
    <3> QED
      BY <2>1, <2>6, <3>1, FS_AddElement DEF MarksFromLines
  <2>8. PICK at2 : /\ DOMAIN at2 = 1 .. n + 1
                   /\ at2[n + 1] = lineno + 1
                   /\ \A i \in 1 .. n : at2[i] = at[i]
    <3>1. n + 1 \in 1 .. n + 1 /\ \A i \in 1 .. n : i \in 1 .. n + 1 /\ i # n + 1
      BY <2>2
    <3> DEFINE a == [i \in 1 .. n + 1 |-> IF i = n + 1 THEN lineno + 1 ELSE at[i]]
    <3>2. /\ DOMAIN a = 1 .. n + 1
          /\ a[n + 1] = lineno + 1
          /\ \A i \in 1 .. n : a[i] = at[i]
      BY <3>1
    <3> QED
      BY <3>2
  <2>9. InOrder(at2)'
    <3>1. \A i \in 1 .. n + 1 : i = n + 1 \/ i \in 1 .. n
      BY <2>2
    <3>2. \A i \in 1 .. n : at[i] \in MarkLines /\ at[i] \in 1 .. lineno
      BY <1>1, <1>3 DEF InOrder
    <3>3. \A i \in 1 .. n + 1 : at2[i] \in MarkLines'
      BY <2>1, <2>8, <3>1, <3>2
    <3>4. \A i, j \in 1 .. n + 1 : i < j => at2[i] < at2[j]
      <4> SUFFICES ASSUME NEW i \in 1 .. n + 1, NEW j \in 1 .. n + 1, i < j
                   PROVE  at2[i] < at2[j]
        OBVIOUS
      <4>1. i \in 1 .. n /\ at2[i] = at[i]
        BY <2>2, <2>8, <3>1
      <4>2. CASE j = n + 1
        BY <1>1, <2>8, <3>2, <4>1, <4>2
      <4>3. CASE j \in 1 .. n
        BY <1>3, <2>8, <4>1, <4>3 DEF InOrder
      <4> QED
        BY <3>1, <4>2, <4>3
    <3>5. \A x \in MarkLines' : \E i \in 1 .. n + 1 : at2[i] = x
      <4> SUFFICES ASSUME NEW x \in MarkLines'
                   PROVE  \E i \in 1 .. n + 1 : at2[i] = x
        OBVIOUS
      <4>1. CASE x = lineno + 1
        BY <2>2, <2>8, <4>1
      <4>2. CASE x \in MarkLines
        <5>1. PICK i \in 1 .. n : at[i] = x
          BY <1>3, <4>2 DEF InOrder
        <5> QED
          BY <2>2, <2>8, <5>1
      <4> QED
        BY <2>1, <4>1, <4>2
    <3>6. ASSUME MarksReadable', NEW i \in 1 .. n + 1
          PROVE  /\ marks'[i].mark = Atoi(file[at2[i]][2])
                 /\ marks'[i].w = Digits(file[at2[i]][3])
      <4>1. CASE i = n + 1
        <5>1. ~erange' /\ Len(NextLine) = 3
          BY <1>1, <2>1, <3>6 DEF MarksReadable, NextLine
        <5>2. marks'[i] = entry /\ file[at2[i]] = NextLine
          BY <2>6, <2>8, <4>1 DEF NextLine
        <5> QED
          BY <2>4, <2>5, <5>1, <5>2
      <4>2. CASE i \in 1 .. n
        BY <1>2, <1>3, <2>6, <2>8, <3>6, <4>2 DEF InOrder
      <4> QED
        BY <3>1, <4>1, <4>2
    <3>7. /\ DOMAIN at2 = 1 .. Len(marks')
          /\ \A i \in 1 .. Len(marks') : at2[i] \in MarkLines'
          /\ \A i, j \in 1 .. Len(marks') : i < j => at2[i] < at2[j]
          /\ \A x \in MarkLines' : \E i \in 1 .. Len(marks') : at2[i] = x
      BY <2>6, <2>8, <3>3, <3>4, <3>5
    <3>8. MarksReadable' =>
            \A i \in 1 .. Len(marks') : /\ marks'[i].mark = Atoi(file[at2[i]][2])
                                        /\ marks'[i].w = Digits(file[at2[i]][3])
      BY <2>6, <3>6
    <3> QED
      BY <1>1, <3>7, <3>8 DEF InOrder
  <2> QED
    BY <2>6, <2>7, <2>9 DEF MarksFromLines
<1> QED
  BY <1>4, <1>5


(***************************************************************************)
(* All of it, while the file is read, and where main crashes reading it;   *)
(* otherwise it is left behind.                                            *)
(***************************************************************************)
LinesDecide == FieldsFromLines /\ ParamsFromLines /\ MarksFromLines

AsRead ==
  /\ pc \in {"fopen", "config_read"} \/ lineno # 0 => LinesDecide
  /\ pc \notin {"config_read", "crashed"} => lineno = 0

(***************************************************************************)
(* Before the first line there are the defaults.                           *)
(***************************************************************************)
LEMMA NothingRead ==
  ASSUME Init
  PROVE  LinesDecide
<1>1. lineno = 0 /\ marks = <<>> /\ conf = UnsetConf /\ param = UnsetParam
  BY Zenon DEF Init, ConfigInit
<1>2. /\ \A cmd : LinesOf(cmd) = {}
      /\ \A m, p : LinesAbout(m, p) = {}
      /\ MarkLines = {}
  <2>1. \A n \in 1 .. 0 : FALSE
    OBVIOUS
  <2>2. ReadLines = {}
    BY <1>1, <2>1, Zenon DEF ReadLines
  <2> QED
    BY <2>2 DEF LinesOf, LinesAbout, MarkLines
<1>3. FieldsFromLines
  <2>1. conf["stat"] = FALSE /\ conf["wchart"] = FALSE
    BY <1>1 DEF UnsetConf
  <2> QED
    BY <1>1, <1>2, <2>1 DEF FieldsFromLines
<1>4. ParamsFromLines
  <2>1. /\ DOMAIN param = AllModules
        /\ DOMAIN param["bymark"] = {"k"}
        /\ \A m \in AllModules : "k" \in DOMAIN param[m]
    BY <1>1 DEF UnsetParam, AllModules, TableModules
  <2> QED
    BY <1>1, <1>2, <2>1, Zenon DEF ParamsFromLines
<1>5. MarksFromLines
  <2>1. marks \in Seq([mark : Int, w : Int]) /\ Len(marks) = 0
    <3>1. marks = <<>>
      BY <1>1
    <3> QED
      BY <3>1
  <2>2. IsFiniteSet(MarkLines) /\ Cardinality(MarkLines) = 0
    BY <1>2, FS_EmptySet
  <2>3. InOrder([i \in {} |-> 0])
    BY <1>2, <2>1 DEF InOrder
  <2> QED
    BY <2>1, <2>2, <2>3 DEF MarksFromLines
<1> QED
  BY <1>3, <1>4, <1>5 DEF LinesDecide

(***************************************************************************)
(* Nothing leads back to reading the file.                                 *)
(***************************************************************************)
LEMMA WhereMainGoes ==
  ASSUME Inv, [Next]_vars
  PROVE  \/ ReadConfig \/ pc' = pc
         \/ /\ pc \notin {"config_read", "crashed"}
            /\ pc = "fopen" \/ pc' \notin {"fopen", "config_read"}
<1>1. CASE Start
  <2>1. CASE ReadConfig
    BY <2>1
  <2>2. CASE OpenConfig
    BY <2>2 DEF OpenConfig
  <2>3. CASE Allocate \/ PostConf \/ PostConfOfNull
    BY <2>3, Zenon DEF Allocate, PostConf, PostConfOfNull, Goto
  <2>4. CASE OpenHandle \/ BindHandle \/ CreateQueue \/ SetMode
             \/ InstallHandlers \/ CreateThreads
    BY <2>4
       DEF OpenHandle, BindHandle, CreateQueue, SetMode, InstallHandlers,
           CreateThreads, Goto
  <2> QED
    BY <1>1, <2>1, <2>2, <2>3, <2>4, Zenon DEF Start
<1>2. CASE Stop
  BY <1>2
     DEF Stop, JoinStatThread, DestroyQueue, CloseHandle, FreeModules,
         FreeUserdata, Exit, Goto
<1>3. CASE Recv \/ CheckDone \/ OnTerm \/ Arrive \/ StatWhile \/ StatTick
  BY <1>3
     DEF Recv, CheckDone, HandlePacket, OnTerm, Arrive, StatWhile, StatTick,
         Goto
<1>4. CASE SenderThread \/ DebugThread
  <2>1. pc' = pc \/ pc' \in {"sender crashed", "debug crashed"}
    BY <1>4, Zenon DEF SenderThread, DebugThread, Goto
  <2>2. pc \notin {"config_read", "crashed"}
    <3>1. ~Ended /\ (senderThread = "running" \/ \E m \in debugThreads : TRUE)
      BY <1>4, Zenon DEF SenderThread, DebugThread
    <3> QED
      BY <3>1 DEF Inv, SenderOK, StatesOK, ObjectsOK, Ended, Starting, Unopened
  <2> QED
    BY <2>1, <2>2
<1>5. CASE UNCHANGED vars
  BY <1>5, Zenon DEF vars
<1> QED
  BY <1>1, <1>2, <1>3, <1>4, <1>5, Zenon DEF Next, Main, StatThread

(***************************************************************************)
(* No step of main or of another thread disturbs what was read.            *)
(***************************************************************************)
LEMMA AsReadStep ==
  ASSUME Inv, AsRead, [Next]_vars
  PROVE  AsRead'
<1>1. ASSUME UNCHANGED confVars
      PROVE  LinesDecide' <=> LinesDecide
  <2>1. UNCHANGED <<file, lineno, p2, erange, conf, param, marks>>
    BY <1>1, Zenon DEF confVars
  <2>2. /\ \A cmd : LinesOf(cmd)' = LinesOf(cmd)
        /\ \A m, p : LinesAbout(m, p)' = LinesAbout(m, p)
        /\ MarkLines' = MarkLines
    BY <2>1 DEF LinesOf, LinesAbout, ReadLines, MarkLines, Ignored
  <2>3. FieldsFromLines' <=> FieldsFromLines
    BY <2>1, <2>2, SettingIsFixed DEF FieldsFromLines, UnsetConf
  <2>4. ParamsFromLines' <=> ParamsFromLines
    BY <2>1, <2>2 DEF ParamsFromLines, ParameterOf, UnsetParam
  <2>5. MarksFromLines' <=> MarksFromLines
    BY <2>1, <2>2 DEF MarksFromLines, InOrder, MarksReadable
  <2> QED
    BY <2>3, <2>4, <2>5, Zenon DEF LinesDecide
<1>2. CASE ReadConfig
  <2>1. pc = "config_read" /\ LinesDecide
    BY <1>2, Zenon DEF ReadConfig, AsRead
  <2>2. CASE ReadLine /\ UNCHANGED pc
    <3>1. ConfigOK
      BY Zenon DEF Inv
    <3>2. FieldsFromLines'
      BY <2>1, <2>2, <3>1, FieldsStep, Zenon DEF LinesDecide
    <3>3. ParamsFromLines'
      BY <2>1, <2>2, <3>1, ParamsStep, Zenon DEF LinesDecide
    <3>4. MarksFromLines'
      BY <2>1, <2>2, <3>1, MarksStep, Zenon DEF LinesDecide
    <3> QED
      BY <2>1, <2>2, <3>2, <3>3, <3>4, Zenon DEF AsRead, LinesDecide
  <2>3. CASE EndOfFile /\ Goto("userdata_init")
    BY <2>3 DEF EndOfFile, Goto, AsRead
  <2>4. CASE Goto("crashed") /\ UNCHANGED confVars
    BY <1>1, <2>1, <2>4 DEF Goto, AsRead
  <2> QED
    BY <1>2, <2>2, <2>3, <2>4, Zenon DEF ReadConfig
<1>3. CASE StatTick
  <2>1. UNCHANGED <<pc, lineno>> /\ statThread = "sleep" /\ ~Ended
    BY <1>3, Zenon DEF StatTick
  <2>2. pc \notin {"fopen", "config_read", "crashed"}
    BY <2>1 DEF Inv, ThreadsOK, Starting, Ended
  <2> QED
    BY <2>1, <2>2 DEF AsRead
<1>4. CASE UNCHANGED confVars /\ ~ReadConfig
  <2>1. LinesDecide' <=> LinesDecide
    BY <1>1, <1>4
  <2>2. \/ pc' = pc
        \/ /\ pc \notin {"config_read", "crashed"}
           /\ pc = "fopen" \/ pc' \notin {"fopen", "config_read"}
    BY <1>4, WhereMainGoes
  <2> QED
    BY <1>4, <2>1, <2>2 DEF AsRead, confVars
<1> QED
  BY <1>2, <1>3, <1>4, OthersKeepConfig, Zenon

(***************************************************************************)
(* The entry of bymark_weight's loop and the first line about a mark are   *)
(* the same, since the entries are in the order of the lines.              *)
(***************************************************************************)
LEMMA FirstMarkLine ==
  ASSUME ConfigOK, MarksFromLines, MarksReadable, NEW mark
  PROVE  LET lines == {i \in MarkLines : Atoi(file[i][2]) = mark}
         IN  MarkWeight(mark) = IF lines = {} THEN NoMark
                                ELSE Digits(file[Min(lines)][3])
<1> DEFINE lines == {i \in MarkLines : Atoi(file[i][2]) = mark}
           found == {k \in DOMAIN marks : marks[k].mark = mark}
<1>1. PICK at : InOrder(at)
  BY DEF MarksFromLines
<1>2. DOMAIN marks = 1 .. Len(marks) /\ Len(marks) \in Nat
  BY DEF MarksFromLines
<1>3. \A k \in 1 .. Len(marks) : k \in found <=> at[k] \in lines
  BY <1>1, <1>2 DEF InOrder
<1>4. \A x \in lines : \E k \in found : at[k] = x
  BY <1>1, <1>2, <1>3 DEF InOrder
<1>5. found \subseteq Nat /\ found \subseteq 1 .. Len(marks)
  BY <1>2
<1>6. lines \subseteq Int
  <2>1. lineno \in Nat
    BY DEF ConfigOK
  <2>2. lines \subseteq MarkLines /\ MarkLines \subseteq 1 .. lineno
    BY DEF MarkLines, LinesOf, ReadLines
  <2> HIDE DEF lines
  <2> QED
    BY <2>1, <2>2
<1>7. \A i, j \in found : i <= j => at[i] <= at[j]
  <2> SUFFICES ASSUME NEW i \in found, NEW j \in found, i <= j
               PROVE  at[i] <= at[j]
    OBVIOUS
  <2>1. at[i] \in lines /\ at[j] \in lines
    BY <1>3, <1>5
  <2>2. i \in Nat /\ j \in Nat /\ (i < j => at[i] < at[j])
    BY <1>1, <1>5 DEF InOrder
  <2>3. at[i] \in Int /\ at[j] \in Int
    BY <1>6, <2>1
  <2>4. i = j \/ i < j
    BY <2>2
  <2> HIDE DEF lines, found
  <2> QED
    BY <2>2, <2>3, <2>4
<1>8. \A k \in found : marks[k].w = Digits(file[at[k]][3])
  BY <1>1, <1>5 DEF InOrder
<1>9. MarkWeight(mark) = IF found = {} THEN NoMark ELSE marks[Min(found)].w
  BY DEF MarkWeight
<1> HIDE DEF lines, found
<1>10. CASE found = {}
  BY <1>4, <1>9, <1>10 DEF lines
<1>11. CASE found # {}
  <2>1. PICK m \in found : \A k \in found : m <= k
    BY <1>5, <1>11, HasMin
  <2>2. Min(found) = m
    <3>1. found \subseteq Int
      BY <1>5
    <3> QED
      BY <2>1, <3>1, LeastIs
  <2>3. at[m] \in lines /\ \A x \in lines : at[m] <= x
    BY <1>3, <1>4, <1>5, <1>7, <2>1
  <2>4. Min(lines) = at[m]
    BY <1>6, <2>3, LeastIs
  <2> QED
    BY <1>8, <1>9, <1>11, <2>1, <2>2, <2>3, <2>4 DEF lines
<1> QED
  BY <1>10, <1>11

(***************************************************************************)
(* So at every moment the lines read decide all settings.                  *)
(***************************************************************************)
LEMMA LinesDecideEverything == Spec => [](Inv /\ AsRead)
<1>1. Init => AsRead
  BY NothingRead, Zenon DEF Init, ConfigInit, AsRead
<1>2. Inv /\ AsRead /\ [Next]_vars => AsRead'
  BY AsReadStep
<1> QED
  BY <1>1, <1>2, Invariance, PTL DEF Spec

(***************************************************************************)
(* Whatever lines the file has and in whatever order, a setting, and each  *)
(* module's coefficient and parameters, have the value that the last line  *)
(* about them gives them, or the one they began with; but for parameters   *)
(* whose last line lacks its third word. bymark has an entry for each of   *)
(* its lines.                                                              *)
(***************************************************************************)
THEOREM LastLineDecides == Spec => []SettingsComeFromLines
<1>1. ASSUME Inv, AsRead
      PROVE  SettingsComeFromLines
  <2> SUFFICES ASSUME lineno > 0
               PROVE  SettingsComeFromLines
    BY DEF SettingsComeFromLines
  <2>1. LinesDecide
    <3>1. lineno # 0
      OBVIOUS
    <3> QED
      BY <1>1, <3>1, Zenon DEF AsRead
  <2>2. DOMAIN conf = Fields
    BY <1>1, Zenon DEF Inv, ConfigOK, ConfOK
  <2>3. \A cmd \in DOMAIN conf \ {"stat", "wchart"} :
          LET lines == LinesOf(cmd)
          IN  conf[cmd] = IF lines = {} THEN UnsetConf[cmd]
                          ELSE SettingOf(cmd, file[Max(lines)][2])
    BY <2>1, <2>2, Zenon DEF LinesDecide, FieldsFromLines
  <2>4. \A cmd \in {"stat", "wchart"} :
          conf[cmd] = (LinesAbout(cmd, "yes") # {})
    BY <2>1, Zenon DEF LinesDecide, FieldsFromLines
  <2>5. \A m \in AllModules : \A p \in DOMAIN param[m] :
          LET about == LinesAbout(m, p)
          IN  /\ about = {} => param[m][p] = UnsetParam[m][p]
              /\ about # {} /\ Len(file[Max(about)]) >= 3 =>
                   param[m][p] = ParameterOf(p, file[Max(about)][3])
    BY <2>1, Zenon DEF LinesDecide, ParamsFromLines
  <2>6. Len(marks) = Cardinality(MarkLines)
    BY <2>1, Zenon DEF LinesDecide, MarksFromLines
  <2> QED
    BY <2>3, <2>4, <2>5, <2>6, Zenon DEF SettingsComeFromLines
<1> QED
  BY <1>1, LinesDecideEverything, PTL

(***************************************************************************)
(* The line decides the limit, and Str2Bps is exact.                       *)
(***************************************************************************)
LEMMA LimitLineIsEnough ==
  ASSUME FieldsFromLines
  PROVE  LimitAsWritten
<1> SUFFICES ASSUME LinesOf("limit") # {}
             PROVE  LimitAsWritten
  BY DEF LimitAsWritten
<1> DEFINE word == file[Max(LinesOf("limit"))][2]
           bits == Digits(word) * Unit[Numeral[word].suffix]
<1>1. conf.limit = LimitOf(word)
  <2>1. conf["limit"] = SettingOf("limit", word)
    BY DEF FieldsFromLines, Fields
  <2> QED
    BY <2>1 DEF SettingOf, LimitOf
<1>2. (conf.limit = UINT64_MAX) <=> (word = "no")
  BY <1>1, Str2BpsIsNotNo DEF LimitOf
<1>3. ASSUME word \in DOMAIN Numeral, 2 * Digits(word) < LongMod - 2,
             bits \in 0 .. LongMod - 1
      PROVE  8 * conf.limit \in bits - 7 .. bits
  <2>1. conf.limit = Str2Bps(word)
    BY <1>1, <1>3, ConfigAssumption DEF LimitOf
  <2> HIDE DEF word
  <2> QED
    BY <1>3, <2>1, Str2BpsExact
<1> QED
  BY <1>2, <1>3 DEF LimitAsWritten

(***************************************************************************)
(* Whatever lines there are, the limit is what its last line says, to the  *)
(* octet, and "no" if and only if it says "no".                            *)
(***************************************************************************)
THEOREM LimitHolds == Spec => []LimitAsWritten
<1>1. ASSUME AsRead
      PROVE  LimitAsWritten
  <2>1. CASE lineno = 0
    <3>1. LinesOf("limit") = {}
      BY <2>1 DEF LinesOf, ReadLines
    <3> QED
      BY <3>1 DEF LimitAsWritten
  <2>2. CASE lineno # 0
    BY <1>1, <2>2, LimitLineIsEnough, Zenon DEF AsRead, LinesDecide
  <2> QED
    BY <2>1, <2>2
<1> QED
  BY <1>1, LinesDecideEverything, PTL

(***************************************************************************)
(* A mark has the weight of the first line about it, however many lines    *)
(* there are, and in whatever order the others stand, as long as the       *)
(* numbers of the file are in range and its mark lines complete.           *)
(***************************************************************************)
THEOREM FirstMarkDecides == Spec => []MarksWeighAsWritten
<1>1. ASSUME Inv, AsRead
      PROVE  MarksWeighAsWritten
  <2> SUFFICES ASSUME MarksReadable, lineno > 0
               PROVE  MarksWeighAsWritten
    BY DEF MarksWeighAsWritten, MarksReadable
  <2>1. lineno # 0
    OBVIOUS
  <2>2. MarksFromLines /\ ConfigOK
    BY <1>1, <2>1, Zenon DEF AsRead, LinesDecide, Inv
  <2> QED
    BY <2>2, FirstMarkLine DEF MarksWeighAsWritten
<1> QED
  BY <1>1, LinesDecideEverything, PTL

===============================================================================
