------------------------------ MODULE Lifecycle ------------------------------
(***************************************************************************)
(* The life of a damper process: main, userdata_init, userdata_destroy and *)
(* the signal handler of damper.c, with the configuration they begin with  *)
(* (module Config), the threads they start and the objects these threads   *)
(* use. What the threads do with packets and statistics is the subject of  *)
(* Shaper and StatWriter; here a thread uses its objects, and may crash    *)
(* when they are gone.                                                     *)
(***************************************************************************)
EXTENDS Config

VARIABLES pc,             \* where main is
          damper_done,
          signalled,      \* ghost: a SIGTERM or SIGINT was delivered
          backlog,        \* is a message waiting on the netlink socket?
          waiting,        \* does a packet wait in u->prioarray?
          mptr,           \* the modules whose modules[m].mptr is not NULL
          userdata,       \* u, with u->packets, u->prioarray and u->lock
          handle,         \* h, of nfq_open
          queue,          \* u->qh, of nfq_create_queue
          statf,          \* u->statf
          flows,          \* flows[m]: module m's recent_flows
          enabled,        \* modules[m].enabled
          debugThreads,   \* modules whose debug thread runs
          senderThread,
          statThread,
          ticked          \* ghost: the statistics thread has run once

traffic == <<backlog, waiting>>
objects == <<mptr, userdata, handle, queue, statf, flows, enabled>>
threads == <<debugThreads, senderThread, statThread, ticked>>
vars == <<pc, damper_done, signalled, traffic, objects, threads, confVars>>

ObjectStates == {"none", "live", "freed"}

Starting == {"fopen", "config_read", "userdata_init", "postconf", "nfq_open",
             "nfq_bind", "nfq_create_queue", "nfq_set_mode", "sigaction"}

Labels == Starting \cup
          {"pthread_create", "recv", "damper_done?", "pthread_join",
           "nfq_destroy_queue", "nfq_close", "done", "userdata_destroy",
           "exit", "exited", "crashed", "sender crashed", "debug crashed"}

Ended == pc \in {"exited", "crashed", "sender crashed", "debug crashed"}

Goto(label) == pc' = label

-----------------------------------------------------------------------------
(***************************************************************************)
(* userdata_init. Its own failures free what it has allocated and end the  *)
(* program. A module's constructor that finds no memory returns NULL,      *)
(* which nobody tests; random's functions do not look at it.               *)
(***************************************************************************)
Dereferencing == AllModules \ {"random"}

OpenConfig ==
  /\ pc = "fopen"
  /\ mptr' \in SUBSET Dereferencing
  /\ \/ userdata' = "live" /\ Goto("config_read")
     \/ userdata' = "freed" /\ Goto("exited")        \* fail_conf
  /\ UNCHANGED <<damper_done, signalled, traffic, handle, queue, statf, flows,
                 enabled, threads, confVars>>

ConfOfNull ==            \* the next line makes a module's *_conf use NULL
  /\ lineno < Len(file)
  /\ LET line == file[lineno + 1]
     IN  ~Ignored(line) /\ line[1] \in Dereferencing \ mptr /\ line[2] # "k"

ReadConfig ==
  /\ pc = "config_read"
  /\ \/ ~ConfOfNull /\ ReadLine /\ UNCHANGED pc
     \/ ConfOfNull /\ Goto("crashed") /\ UNCHANGED confVars
     \/ EndOfFile /\ Goto("userdata_init")
  /\ UNCHANGED <<damper_done, signalled, traffic, objects, threads>>

(***************************************************************************)
(* u->packets and u->prioarray. A negative number of packets is a size     *)
(* that malloc refuses; one that was never set may be anything.            *)
(***************************************************************************)
TooMany(qlen) == qlen # Uninit /\ 2 * qlen >= LongMod

Allocate ==
  /\ pc = "userdata_init"
  /\ \/ /\ ~TooMany(conf.packets)
        /\ Goto("postconf")
        /\ UNCHANGED userdata
     \/ /\ userdata' = "freed"              \* fail_packets, fail_prio_array
        /\ Goto("exited")
  /\ UNCHANGED <<damper_done, signalled, traffic, mptr, handle, queue, statf,
                 flows, enabled, threads, confVars>>

(***************************************************************************)
(* A module whose postconf fails is disabled: because of its number of     *)
(* flows, or because malloc fails, or, when it has got its table, because  *)
(* its debug file cannot be opened. bymark and random do not fail. The     *)
(* postconf of a module without memory crashes.                            *)
(***************************************************************************)
PostConfUnchecked ==           \* mutated form: the result is not looked at
  /\ pc = "postconf"
  /\ TableModules \subseteq mptr
  /\ \E tables \in SUBSET {m \in TableModules : param[m].nrecent >= 1} :
       flows' = [m \in TableModules |->
                   IF m \in tables THEN "live" ELSE "none"]
  /\ enabled' = TableModules
  /\ debugThreads' = {}
  /\ Goto("nfq_open")
  /\ UNCHANGED <<damper_done, signalled, traffic, mptr, userdata, handle,
                 queue, statf, senderThread, statThread, ticked, confVars>>

PostConf ==
  /\ pc = "postconf"
  /\ TableModules \subseteq mptr
  /\ \E tables \in SUBSET {m \in TableModules : param[m].nrecent >= 1} :
       /\ flows' = [m \in TableModules |->
                      IF m \in tables THEN "live" ELSE "none"]
       /\ \E noFile \in SUBSET {m \in tables : param[m].debug # 0} :
            enabled' = tables \ noFile
  /\ debugThreads' = {m \in enabled' : param[m].debug # 0}
  /\ Goto("nfq_open")
  /\ UNCHANGED <<damper_done, signalled, traffic, mptr, userdata, handle,
                 queue, statf, senderThread, statThread, ticked, confVars>>

PostConfOfNull ==
  /\ pc = "postconf"
  /\ ~(TableModules \subseteq mptr)
  /\ Goto("crashed")
  /\ UNCHANGED <<damper_done, signalled, traffic, objects, threads, confVars>>

-----------------------------------------------------------------------------
(***************************************************************************)
(* main, up to its receive loop.                                           *)
(***************************************************************************)
OpenHandle ==
  /\ pc = "nfq_open"
  /\ \/ handle' = "live" /\ Goto("nfq_bind")
     \/ handle' = "none" /\ Goto("exited")
  /\ UNCHANGED <<damper_done, signalled, traffic, mptr, userdata, queue,
                 statf, flows, enabled, threads, confVars>>

BindHandle ==      \* nfq_unbind_pf and nfq_bind_pf
  /\ pc = "nfq_bind"
  /\ Goto("nfq_create_queue") \/ Goto("nfq_close")
  /\ UNCHANGED <<damper_done, signalled, traffic, objects, threads, confVars>>

CreateQueueLosingHandle ==    \* mutated form: "goto" past nfq_close
  /\ pc = "nfq_create_queue"
  /\ \/ queue' = "live" /\ Goto("nfq_set_mode")
     \/ queue' = "none" /\ Goto("userdata_destroy")
  /\ UNCHANGED <<damper_done, signalled, traffic, mptr, userdata, handle,
                 statf, flows, enabled, threads, confVars>>

CreateQueue ==
  /\ pc = "nfq_create_queue"
  /\ \/ queue' = "live" /\ Goto("nfq_set_mode")
     \/ queue' = "none" /\ Goto("nfq_close")
  /\ UNCHANGED <<damper_done, signalled, traffic, mptr, userdata, handle,
                 statf, flows, enabled, threads, confVars>>

SetMode ==         \* nfq_set_mode and nfq_set_queue_maxlen
  /\ pc = "nfq_set_mode"
  /\ Goto("sigaction") \/ Goto("nfq_destroy_queue")
  /\ UNCHANGED <<damper_done, signalled, traffic, objects, threads, confVars>>

InstallHandlers ==
  /\ pc = "sigaction"
  /\ Goto("pthread_create")
  /\ UNCHANGED <<damper_done, signalled, traffic, objects, threads, confVars>>

CreateThreads ==
  /\ pc = "pthread_create"
  /\ senderThread' = "running"
  /\ statThread' = "while"
  /\ Goto("recv")
  /\ UNCHANGED <<damper_done, signalled, traffic, objects, debugThreads,
                 ticked, confVars>>

(***************************************************************************)
(* The receive loop: recv returns with a message, or, interrupted by the   *)
(* handler, with EINTR; other errors go back to recv at once.              *)
(***************************************************************************)
Recv ==
  /\ pc = "recv"
  /\ backlog
  /\ backlog' = FALSE
  /\ Goto("damper_done?")
  /\ UNCHANGED <<damper_done, signalled, waiting, objects, threads, confVars>>

(***************************************************************************)
(* nfq_handle_packet: on_packet of module Shaper, after which a packet may *)
(* wait, if traffic is shaped and there is room for one. Then bymark is    *)
(* asked, which is always enabled.                                         *)
(***************************************************************************)
Shaping == conf.limit \notin {0, UINT64_MAX}

HandlePacket ==
  \/ /\ waiting' \in {waiting, waiting \/ (Shaping /\ conf.packets # 0)}
     /\ Goto("recv")
  \/ /\ Shaping /\ "bymark" \notin mptr       \* bymark_weight(NULL, ...)
     /\ Goto("crashed")
     /\ UNCHANGED waiting

CheckDoneAfterHandling ==      \* mutated form: no test, the loop is for ever
  /\ pc = "damper_done?"
  /\ HandlePacket
  /\ UNCHANGED <<damper_done, signalled, backlog, objects, threads, confVars>>

CheckDone ==
  /\ pc = "damper_done?"
  /\ \/ damper_done /\ Goto("pthread_join") /\ UNCHANGED waiting
     \/ ~damper_done /\ HandlePacket
  /\ UNCHANGED <<damper_done, signalled, backlog, objects, threads, confVars>>

JoinNobody ==      \* mutated form: the join is missing
  /\ pc = "pthread_join"
  /\ Goto("nfq_destroy_queue")
  /\ UNCHANGED <<damper_done, signalled, traffic, objects, threads, confVars>>

JoinStatThread ==
  /\ pc = "pthread_join"
  /\ statThread = "ended"
  /\ Goto("nfq_destroy_queue")
  /\ UNCHANGED <<damper_done, signalled, traffic, objects, threads, confVars>>

(***************************************************************************)
(* on_term runs once sigaction has installed it: anywhere in main, and     *)
(* ends a recv that waits. Before, the signal ends the process.            *)
(***************************************************************************)
Installed == pc \notin Starting

OnTerm ==
  /\ Installed /\ ~Ended /\ ~signalled
  /\ signalled' = TRUE
  /\ damper_done' = TRUE
  /\ IF pc = "recv" /\ ~backlog THEN Goto("damper_done?") ELSE UNCHANGED pc
  /\ UNCHANGED <<traffic, objects, threads, confVars>>

-----------------------------------------------------------------------------
(***************************************************************************)
(* The labels at the end of main, and userdata_destroy.                    *)
(***************************************************************************)
DestroyQueue ==
  /\ pc = "nfq_destroy_queue"
  /\ queue' = "freed"
  /\ Goto("nfq_close")
  /\ UNCHANGED <<damper_done, signalled, traffic, mptr, userdata, handle,
                 statf, flows, enabled, threads, confVars>>

CloseHandle ==
  /\ pc = "nfq_close"
  /\ handle' = "freed"
  /\ Goto("done")
  /\ UNCHANGED <<damper_done, signalled, traffic, mptr, userdata, queue,
                 statf, flows, enabled, threads, confVars>>

(***************************************************************************)
(* The modules' destructors close the debug file and free recent_flows, of *)
(* a disabled module too: what was never opened or allocated holds NULL,   *)
(* which fclose does not take, or what malloc found there. bymark_free     *)
(* looks for its marks at NULL.                                            *)
(***************************************************************************)
LacksDebugFile(m) == param[m].debug # 0 /\ m \notin enabled

FreeModules ==
  /\ pc = "done"
  /\ \/ /\ \A m \in TableModules : ~LacksDebugFile(m)
        /\ "bymark" \in mptr
        /\ flows' = [m \in TableModules |-> "freed"]
        /\ Goto("userdata_destroy")
     \/ /\ \/ \E m \in TableModules : flows[m] = "none" \/ LacksDebugFile(m)
           \/ "bymark" \notin mptr
        /\ UNCHANGED flows
        /\ Goto("crashed")
  /\ UNCHANGED <<damper_done, signalled, traffic, mptr, userdata, handle,
                 queue, statf, enabled, threads, confVars>>

FreeUserdata ==
  /\ pc = "userdata_destroy"
  /\ \/ /\ conf.stat => statf = "live"
        /\ statf' = IF conf.stat THEN "freed" ELSE statf
        /\ userdata' = "freed"
        /\ Goto("exit")
     \/ /\ conf.stat /\ statf # "live"          \* fclose(NULL)
        /\ UNCHANGED <<statf, userdata>>
        /\ Goto("crashed")
  /\ UNCHANGED <<damper_done, signalled, traffic, mptr, handle, queue, flows,
                 enabled, threads, confVars>>

(***************************************************************************)
(* main returns, and all threads end with the process.                     *)
(***************************************************************************)
Exit ==
  /\ pc = "exit"
  /\ Goto("exited")
  /\ debugThreads' = {}
  /\ senderThread' = IF senderThread = "running" THEN "ended" ELSE senderThread
  /\ UNCHANGED <<damper_done, signalled, traffic, objects, statThread, ticked,
                 confVars>>

-----------------------------------------------------------------------------
(***************************************************************************)
(* The statistics thread: "while (!damper_done)", a sleep to the next      *)
(* second, and stat_write, which the first time opens the day's file or    *)
(* clears u->stat.                                                         *)
(***************************************************************************)
StatWhile ==
  /\ statThread = "while" /\ ~Ended
  /\ statThread' = IF damper_done THEN "ended" ELSE "sleep"
  /\ UNCHANGED <<pc, damper_done, signalled, traffic, objects, debugThreads,
                 senderThread, ticked, confVars>>

StatTickGoingOn ==         \* mutated form: u->stat is not cleared
  /\ statThread = "sleep" /\ ~Ended
  /\ statThread' = "while"
  /\ ticked' = TRUE
  /\ IF conf.stat THEN statf' \in {"live", "none"} ELSE UNCHANGED statf
  /\ UNCHANGED <<pc, damper_done, signalled, traffic, mptr, userdata, handle,
                 queue, flows, enabled, debugThreads, senderThread, confVars>>

StatTick ==
  /\ statThread = "sleep" /\ ~Ended
  /\ statThread' = "while"
  /\ ticked' = TRUE
  /\ \/ conf.stat /\ statf' = "live" /\ UNCHANGED conf
     \/ conf.stat /\ statf' = "none" /\ conf' = [conf EXCEPT !.stat = FALSE]
     \/ ~conf.stat /\ UNCHANGED <<statf, conf>>
  /\ UNCHANGED <<pc, damper_done, signalled, traffic, mptr, userdata, handle,
                 queue, flows, enabled, debugThreads, senderThread, file,
                 lineno, p2, erange, param, marks>>

-----------------------------------------------------------------------------
(***************************************************************************)
(* The threads that nobody stops. The sender sends the last packet that    *)
(* waits; it locks u->lock each time it wakes, and passes u->qh to the     *)
(* library for a packet. A debug thread prints recent_flows into fdbg.     *)
(* Whether the use of what has been released crashes is left open: a step  *)
(* that goes on then changes nothing here.                                 *)
(***************************************************************************)
SenderThread ==
  /\ senderThread = "running" /\ ~Ended
  /\ \/ waiting /\ waiting' = FALSE /\ UNCHANGED pc
     \/ /\ userdata = "freed" \/ (waiting /\ queue = "freed")
        /\ Goto("sender crashed")
        /\ UNCHANGED waiting
  /\ UNCHANGED <<damper_done, signalled, backlog, objects, threads, confVars>>

DebugThread ==
  /\ ~Ended
  /\ \E m \in debugThreads : flows[m] = "freed"
  /\ Goto("debug crashed")
  /\ UNCHANGED <<damper_done, signalled, traffic, objects, threads, confVars>>

(***************************************************************************)
(* A packet reaches the queue.                                             *)
(***************************************************************************)
Arrive ==
  /\ queue = "live" /\ ~backlog /\ ~Ended
  /\ backlog' = TRUE
  /\ UNCHANGED <<pc, damper_done, signalled, waiting, objects, threads,
                 confVars>>

Init ==
  /\ ConfigInit
  /\ pc = "fopen"
  /\ damper_done = FALSE /\ signalled = FALSE
  /\ backlog = FALSE /\ waiting = FALSE
  /\ mptr = {}
  /\ userdata = "none" /\ handle = "none" /\ queue = "none"
  /\ statf = "none"
  /\ flows = [m \in TableModules |-> "none"]
  /\ enabled = {}
  /\ debugThreads = {} /\ senderThread = "none" /\ statThread = "none"
  /\ ticked = FALSE

Start == \/ OpenConfig \/ ReadConfig \/ Allocate \/ PostConf
         \/ PostConfOfNull \/ OpenHandle \/ BindHandle \/ CreateQueue
         \/ SetMode \/ InstallHandlers \/ CreateThreads

Stop == \/ JoinStatThread \/ DestroyQueue \/ CloseHandle \/ FreeModules
        \/ FreeUserdata \/ Exit

Main == Start \/ Recv \/ CheckDone \/ Stop

StatThread == StatWhile \/ StatTick

Next == \/ Main \/ StatThread \/ SenderThread \/ DebugThread
        \/ OnTerm \/ Arrive

(***************************************************************************)
(* main and the statistics thread go on as long as they can.               *)
(***************************************************************************)
Spec == Init /\ [][Next]_vars /\ WF_vars(Main) /\ WF_vars(StatThread)

(***************************************************************************)
(* A host on which packets keep coming.                                    *)
(***************************************************************************)
SpecWithTraffic == Spec /\ WF_vars(Arrive)

-----------------------------------------------------------------------------
(***************************************************************************)
(* Type correctness; and a module that is enabled, or has a debug thread,  *)
(* has got its table of flows. The limit fits in 64 bits.                  *)
(***************************************************************************)
TypeOK ==
  /\ pc \in Labels
  /\ lineno \in 0 .. Len(file)
  /\ conf.limit = Uninit \/ conf.limit \in 0 .. LongMod - 1
  /\ {userdata, handle, queue, statf} \subseteq ObjectStates
  /\ {damper_done, signalled, backlog, waiting, ticked, conf.stat}
       \subseteq BOOLEAN
  /\ mptr \subseteq Dereferencing
  /\ flows \in [TableModules -> ObjectStates]
  /\ enabled \subseteq {m \in TableModules : flows[m] # "none"}
  /\ debugThreads \subseteq enabled
  /\ senderThread \in {"none", "running", "ended"}
  /\ statThread \in {"none", "while", "sleep", "ended"}

(***************************************************************************)
(* Whichever label main jumps to, it leaves nothing of netfilter behind    *)
(* when it returns: the queue is destroyed if it was created, and before   *)
(* the handle, the handle is closed if it was opened.                      *)
(***************************************************************************)
ReleasedAtExit ==
  /\ handle = "freed" => queue # "live"
  /\ pc = "exited" => /\ handle # "live"
                      /\ handle = "freed" => userdata = "freed"

(***************************************************************************)
(* The statistics thread, which is joined, never uses freed user data.     *)
(***************************************************************************)
StatThreadUsesLiveData ==
  statThread \in {"while", "sleep"} => userdata = "live"

(***************************************************************************)
(* Whatever the file says, the threads find what the other modules assume  *)
(* of the configuration: Shaper a queue for the kernel and a number of     *)
(* buffers that malloc took, StatWriter a directory and a number of days,  *)
(* Weights a table for each enabled module.                                *)
(***************************************************************************)
StartsAsAssumed ==
  pc \notin {"fopen", "config_read", "userdata_init", "exited", "crashed"} =>
    /\ conf.nfqlen > 0
    /\ conf.packets # Uninit => conf.packets >= 0 /\ ~TooMany(conf.packets)
    /\ conf.stat => conf.keepstat > 0 /\ conf.statdir # ""
    /\ \A m \in enabled : param[m].nrecent >= 1 /\ param[m].debug >= 0

(***************************************************************************)
(* What a crash takes. main crashes if a constructor found no memory, or   *)
(* in userdata_destroy, with the handle closed, after a module lacked its  *)
(* table or its debug file or before the statistics thread has run once:   *)
(* not while it serves. The sender, which nobody stops ("FIXME: sender     *)
(* thread?", comment in main), and the debug threads crash only after a    *)
(* signal: the sender once the statistics thread has ended and main has    *)
(* destroyed the queue, a debug thread once the handle is closed and its   *)
(* module's table freed.                                                   *)
(***************************************************************************)
CrashesOnlyInRelease ==
  /\ pc = "crashed" =>
       \/ mptr # Dereferencing
       \/ handle = "freed" /\ (enabled # TableModules \/ ~ticked)
  /\ pc = "sender crashed" =>
       damper_done /\ statThread = "ended" /\ queue = "freed"
  /\ pc = "debug crashed" =>
       handle = "freed" /\ \E m \in debugThreads : flows[m] = "freed"

(***************************************************************************)
(* "indicate termination by signal", "handle term and int signals"         *)
(* (comments on damper_done and in main): a signal ends the program. It    *)
(* does if packets keep coming; otherwise main may wait in recv for ever.  *)
(***************************************************************************)
SignalEndsProgram == damper_done ~> Ended

=============================================================================
