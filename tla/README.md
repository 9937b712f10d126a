# damper: specifications, checks and proofs

damper is a userspace traffic shaper for Linux. It receives packets from the
kernel's NFQUEUE, gives each a weight, keeps the heaviest in a bounded queue and
tells the kernel to let them pass one at a time, at the pace of a configured
limit. This directory holds TLA+ specifications of it, the TLC configurations
that check them on small instances, and TLAPS proofs of all their safety properties.
`PROJECT.json` maps every definition to the lines of source it stands for.

## 1. The system

### Components

| Component | Source | State | Operations | Modules here |
|---|---|---|---|---|
| packet queue | `damper.c` `add_to_queue`, the scan in `sender_thread` | `packets[]`, `prioarray[]` (one priority per buffer, `DBL_MIN` = empty) | store or displace; find the heaviest; empty | `PrioArray`, `PrioScan`, `ShapingQueue` |
| capture thread | `damper.c` `main`'s loop, `on_packet` | locals of the callback: weight, copy of `wchart` | receive, special limits, weigh by each module, store or drop | `Shaper` |
| sender thread | `damper.c` `sender_thread` | `idx`, the sleep | scan, accept, count, sleep | `Shaper`, `SendRate` |
| statistics thread | `damper.c` `stat_init`, `stat_thread`, `stat_write`, `stat_remove_old`; `day2epoch.h` | `stat_info`, `curr_timestamp`, `cday`, `daystart`, open streams, the files in `statdir` | tick, write records, change day, remove old files | `StatLog`, `StatWriter` |
| process life cycle | `damper.c` `main`, `userdata_init`, `userdata_destroy`, `on_term` | netlink handle and queue, `damper_done`, threads, what was allocated | start-up and its failure labels, signal, join, release | `Lifecycle`, `MCLifecycle` |
| configuration | `damper.c` `config_read`, `str2bps`, `userdata_init`'s defaults; the modules' `*_conf` | fields of `struct userdata`, of the modules; the third word and `errno` left by earlier lines | read a line, apply defaults | `Config` |
| module table | `modules.conf.c` | none: a constant | names, order, callbacks | `Config`, `Lifecycle`, `Weights` |
| module `inhibit_big_flows` | `inhibit_big_flows.c` | table of flows, `currflow`, `flow_octets` | configure, weigh, release | `InhibitBigFlows`, `Weights`, `Config`, `Lifecycle` |
| module `bymark` | `bymark.c` | table of marks | configure, weigh | `Config`; its sign in `Weights` |
| module `entropy` | `entropy.c` | table of flows with symbol counts | configure, weigh, debug dump, release | `Entropy`, `Weights`, `Config`, `Lifecycle` |
| module `random` | `random.c` | none but `rand()` | weigh | `Weights` |
| statistics reader | `stat/stats.c` | cursor, open file | open, seek, next, close | `StatReader` |
| chart server | `stat/damper_img.c` | one request, `line_prev`, `row[]` | parameters, peak, plot, answer | `Chart`, `MCChart` |
| image encoding | `stat/image.c` | none | base64, PNG, colours | base64 in `Base64` |
| web page | `stat/html` | none | user interface | not modelled |

### Interactions

The capture, sender and statistics threads share `struct userdata` and the
modules' samples under one mutex, `u->lock`. No thread holds it while it waits for
anything but the lock's own work (verdicts, file writes). The kernel holds each
packet until damper sets a verdict for it, and refuses new packets above
`nfqlen`. The capture thread leaves and takes the lock again for every packet:
the special limits, one section per weight sample, and the final store; the
sender may run in each gap. The statistics thread writes and clears the
counters the two others add to. Modules are called by the capture thread only;
with `debug` on, a module's own thread reads its table under the module's own
lock. `damper_img` is another process that reads the statistics files while damper
writes them.

### What is hard

* Three threads and a kernel queue: when does a buffer belong to whom, and who
  sets the verdict? A packet must have exactly one, and what the sender reads
  from a buffer must be about that packet.
* The bounded queue: what becomes of a newcomer to a full one.
* Arithmetic: the sleep is an integer division split into seconds and
  nanoseconds; the counters are 32 bits wide.
* Partial failure: a verdict, a payload, a day's file, one module's file, any
  step of the start-up.
* The end: a signal at any moment, threads that outlive their data.
* Time and files: day changes, restarts, old files, a shared `struct tm`.
* What one line of the configuration leaves behind for the next, and what a field
  holds that no line has set.
* Several cursors that advance side by side: a reader's time and its place in a
  file, a chart's seconds and its columns.

The hazards are listed in `PROJECT.json`, each at its line, with the properties
that would show it going wrong.

## 2. The modules

### PrioArray and PrioScan: the queue's array

`PrioArray` says at which slot each of the two scans stops (`IsTop`,
`IsBottom`) and when a newcomer displaces it (`Displaces`), as predicates.
`PrioScan` writes the loops as they are in the code, as recursive functions, and
drives the array through every sequence of `add_to_queue` and send. `Shaper` uses
the predicates, so that it can be proved about; the run `prio_scan` and
`PrioScanProofs` justify them.

Priorities are doubles in the code. Only their order matters, and that
`0.0 < DBL_MIN < DBL_EPSILON`; here they are integers with 0, 1 and 2 for these
three. The module coefficients `k` are taken to be at least 0, as in the sample
configuration: a weight that modules return as non-negative stays so.

### Shaper: the three threads

| In the model | In the code |
|---|---|
| `Arrive` | the kernel queues a packet, or refuses it when `nfqlen` are waiting |
| `Recv` | `recv` and the head of `on_packet`; with the fault `"payload"` the callback returns without a verdict |
| `CheckLimit` | first critical section: traffic disabled, no shaping, or start weighing with a copy of `wchart` |
| `Weigh` | one round of the loop over the modules, with its sample |
| `StoreOrDrop` | last critical section: negative weight, or `add_to_queue` |
| `SendBest`, `FindNothing`, `WakeUp` | the sender's round and its sleep |
| `Statistics` | one `stat_write`, as `StatLog` has it |
| `Settle` | `nfq_set_verdict`; with the fault `"verdict"` the call may fail and the callers go on |

One critical section of `u->lock` is one action; the locals that live from one
section to the next (`cur`, `weight`, `next_module`, `wchartstat`) are
variables. What a module does with a packet is any weight of `ModWeights`;
netfilter ids are taken to be unique. `accepts` and `drops` are ghosts that count
the verdicts asked for, and `logged` sums the records written.

`ShapingQueue` is the abstract specification: a set of packets with priorities,
without slots or threads. `Shaper` implements it under the mapping `held <-
HeldPriorities` (`ImplementsQueue`): a packet is admitted if there is room,
displaces the lightest only if it outranks it, is released only as the heaviest,
and nobody is judged twice.

### SendRate: the sender's pace

Each round adds the time that the computed `timespec` really sleeps: nothing if
`clock_nanosleep` refuses it. A window of time may begin before any round
(`NewWindow`), so that `RateBound` speaks of every window. The error allowed is the
nanosecond each division may lose. Signals that cut a sleep short are not
modelled (the handler is usually run by the main thread).

### StatLog and StatWriter: statistics

`StatLog` is what the counting threads may rely on: counters of width `U32`,
three outcomes of `stat_write` (written and cleared; statistics off; chart off).
`StatWriter` is `stat_write` in detail, with days, streams, files on disk,
removal of old files, failing opens and restarts, and implements `StatLog`
(`ImplementsStatLog`, with `logged` mapped to the sum of this process's records).
With the fault `"sharedtm"` the struct tm of `gmtime` may hold the local time
wherever `stat_write` looks at it, even after it has zeroed hours, minutes and seconds
for `daystart` (`TmDays`, `TmStarts`); mixtures that make `daystart` later than the
record are left out. A process that begins anew has fresh counters, and what the old one
had not written is lost: `StatLog` allows that by `StatInit`, at any time.
Left out: stdio's buffering, so what a crash may lose of the last records; a
failing `fwrite`; ticks that come late, since the thread's own count is the time;
the averages in the modules' files. The zone of the host is UTC or west of it.

### Config: what a file says

One line is one step (`ReadLine`), because two things reach from a line into the
lines after it: `p2`, the third word, which `sscanf` leaves in place when a line
has two (and which a comment sets as well), and `erange`, the `errno` that
`bymark_conf` tests and nobody clears. `Setting` is the chain of `strcmp` about
`struct userdata`, `ModuleLine` the rest, with the three `*_conf` that do
something. `EndOfFile` applies the defaults of `userdata_init` and `stat_init`. A field
that `malloc` has left as it was is `Uninit`.

Words are strings; those that are numbers are listed in the constant `Numeral` with
their digits and their suffix, so that no character is ever looked at.
Arithmetic is exact in its widths: `Atoi` cuts to `IntMod`, `Strtoll` stops at the ends
of `LongMod`, and `Str2Bps` multiplies modulo `LongMod` before it divides. Not
modelled: lines longer than `LINE_MAX`, `realloc` failing in `bymark_conf`, and
what garbage in `p2` other than `GarbageWords` would do. Coefficients and
weights are doubles in the code and the numbers of their words here.
`SettingsComeFromLines` speaks of every field and every parameter of every module; of a
parameter's line without a third word it says nothing, and `MarksWeighAsWritten`
nothing of a file with a number out of range.

### Lifecycle: start and end of the process

`Lifecycle` extends `Config` and goes on from the file it has read. `pc` walks
through `main`'s steps and labels, each of which may fail where the code tests
for failure; a negative `packets` is a size that `malloc` refuses (`Allocate`). `PostConf`
decides which modules have a table, are enabled, and run a debug thread. Objects
are `none`, `live` or `freed`. `OnTerm` may run at any moment after `sigaction` and
interrupts a waiting `recv`. One signal is modelled: a second one sets the same flag.

Where the code uses what is not there, the program may crash, and the models have
these crashes as steps:

| `pc` | Where | Because of |
|---|---|---|
| `"crashed"` | `ReadConfig`, `PostConfOfNull`, `HandlePacket`, `FreeModules` | a module's constructor returned `NULL` (`m` is not in `mptr`) |
| `"crashed"` | `FreeModules` | a disabled module's destructor frees an uninitialised pointer, or closes a debug file it does not have |
| `"crashed"` | `FreeUserdata` | `fclose` of a day's file that was never opened |
| `"sender crashed"` | `SenderThread` | the sender, which nobody stops, locks `u->lock` after it was freed, or passes a packet that `waiting` says is there to the destroyed queue |
| `"debug crashed"` | `DebugThread` | a debug thread prints a table that was freed |

The use of `NULL`, in `fclose` too, always crashes; to free an uninitialised pointer and to
use what was freed may crash or go on, which changes nothing else of the model.
`CrashesOnlyInRelease` says when each can happen: not while the
program serves. It does not say that releasing is safe; it is not.

`StartsAsAssumed` joins this module to the others: it states, of every file, what
`Shaper` (`QLenAssumption`), `StatWriter` (a number of days, a directory) and
`Weights` (`nflows` at least 1) assume of their constants.

### InhibitBigFlows, Entropy and Weights: what makes a weight

`InhibitBigFlows` has its table, the entry that a new flow replaces, the running
total, and weights as exact fractions. Its counters are unbounded; `int` overflow
is not modelled. `Entropy` has the same kind of table with 32-bit counts, and
of a weight the sign: `entropy_calc`'s sum of `f * log2(f)` is compared with 0 in
integers, as `stream_len ^ n` against the product of `map[s] ^ map[s]`, so that the
rounding of doubles is not modelled. The ghost `real` knows what was truly counted
in an entry. `Weights` asks the modules in the order of `modules.conf.c` until
one objects, in any combination of enabled modules; a packet is what they look at:
addresses, port, mark, payload symbols, and how many octets it falls short of its
headers. One `nrecent` serves both tables, and one port stands for both. `random`
is a choice that matters only where `rand() + 1` overflows.

### StatReader: reading while damper writes

`Tick` is `damper`, as `StatWriter` shows it: a second's record stands at its
offset in the file of its day, files go when they are old, and the last second's
record may be written once more, by a process that was restarted within the second. The
rest is the cursor of `stat/stats.c`: list the directory (`ListDir`), take the size of one
file after the other (`FillDayInfo`), `Seek`, `NextRecord`, `Close`. Damper may write or
unlink between any two of these steps. The directory is read in one step, as a snapshot (the
C library fetches a directory of this size by one call), and a `Seek` or `NextRecord` that
opens a file reads its first record in the same step. A record is one number below `U32`, and
carries as a ghost the second it belongs to. `GarbageEnds` are what an
uninitialised `struct stat` may give, for each vanished file anew. Not modelled: files of
other sets, and stdio's buffers on both sides (a record reaches the disk with its
second; a reader may in fact see a few seconds less, or the last record as it was before it
was rewritten).

### Chart and Base64: one request

`Chart` drives the cursor, as `build_chart` does.

| In the model | In the code |
|---|---|
| `Request` | `parse_params`: the first too short parameter ends the parsing, the last of a name counts, a range not given is what the stack held |
| `List`, `TakeSize`, `ListFails` | `stat_data_open`: its directory, its files, its failures |
| `Listed`, `SeekStart` | the range of "all", `stat_data_seek` |
| `TakePeak` | one round of the loop of `chart_get_peak` |
| `Plot` | one round of the loop of `chart_plot`, with all columns of that second (`FillColumns`) |
| `Crash` | the division by `peak + 1` where that is 0 in 32 bits (`Divisor`), or a bar that leaves `row[]` |
| `BeginPlot`, `EndPasses` | the end of a pass: `stat_data_close` |
| `Encode`, `Finish`, `FinishFailed` | `mk_mempng` and `b64encode`, the answer, its failures |

Of `row[]` the model keeps its height and, as a ghost, the seconds added since it
was cleared; `drawn` is what `chart_draw_row` has just been given. A bar that is higher than
`row[]` overwrites what lies behind it: the program may crash (`Crash`), or go on (`Plot`),
what it has overwritten being left out.
`Base64` has `b64encode` as a function of the position, the length of the buffer
that `build_chart` allocates, and the decoder of RFC 4648, which is the browser's. Not modelled:
the text of SCGI and JSON, a width of 0 (a division by zero in `chart_plot`, which `index.html`
does not ask for), negative times, the colours of pixels and the grid, and what libpng
compresses (any octets, or none where it fails).

## 3. The runs

| Run | Instance | Shows |
|---|---|---|
| `prio_scan` | 3 slots, 4 weights, 6 offers between sends | both loops stop where `PrioArray` says, for any leftover `idx`; a burst leaves the heaviest packets |
| `shaper_safety` | 2 slots, kernel queue 3, 3 packets of sizes 1, 2, 3, 2 modules, counters modulo 4, both faults, limits 0, 10 and "no" | one verdict per packet, buffers hold what they should, the special limits, statistics account for all verdicts, order of leaving, refinement of `ShapingQueue` |
| `shaper_liveness` | 2 slots, kernel queue 3, 3 packets, no faults | a queue of several packets drains, the light one behind a heavier one included; without shaping every queued packet is answered |
| `shaper_forgets` | 1 slot, kernel queue 2, 3 packets | **violated**: a newcomer to a full queue that is not heavier than its lightest packet gets neither a buffer nor a verdict |
| `send_rate` | a second of 10 ns, limits 3, 7, 30, sizes up to 6 with none taking exactly a second | the rate bound, for sleeps below and above a second and for limits beyond one octet per nanosecond |
| `send_rate_boundary` | sizes 1, 3, 4 with a limit of 3 | **violated**: a packet of exactly one second is followed by no sleep |
| `stat_writer` | days of 2 s, 7 s, keep 1 day, 1 module, failing opens, 1 restart | records in place, old files go, no record of a kept day is lost, streams are open when used, refinement of `StatLog` |
| `stat_writer_sharedtm` | with the entropy module's debug thread | **violated**: records at the wrong offset, or in another day's file |
| `lifecycle` | 1202 files: up to two of 24 lines, alone and after a working configuration of 7 lines; `int` of 12 bits, `int64_t` of 16, k = 10; packets keep coming | settings come from their lines, the limit and the marks are as written, the threads start with what they assume; what `main` releases, the statistics thread's data, when a thread may crash on what is missing or released, a signal ends the program |
| `weights` | 2 entries per table, 3 address pairs, 2 ports, 2 symbols, counts modulo 4, 8 kinds of packets, 5 packets, any modules enabled | the total is the sum of the table, one entry per flow, symbols match stream lengths, and no packet is dropped without a known reason |
| `weights_entropy` | the same without short packets | **violated**: a flow that has wrapped its 32-bit length gets a negative weight and its packets are dropped |
| `stat_reader` | days of 3 s, keep 1 day, 5 s from the last second of a day on, counters modulo 8 with values 1 and 7; a range in 4 columns of 1.5 s, "all" in 9 columns shorter than a second, and a query cut off; chart height 4; images of 0 to 4 octets | the cursor returns each second's own record, all that is on disk, each column shows its own seconds, the plot of a range that was over fits under the peak, the image survives, every request is answered or crashes the program |

Why the bounds are enough. Two slots and three packets give every case of the
queue (empty, partly full, full with a lighter, equal or heavier newcomer) and
every gap of `on_packet` for the sender to run in; two modules, so that weights add
up and the loop may stop early; counters modulo 4 wrap within a run. Liveness has the
same two slots, so that a light packet waits behind a heavier one, and a kernel queue for one
more packet than they hold. Seven seconds of two-second days give four
days, so files of more than `keep_stat` days and a restart within and across
days. Five packets and three flows in two entries evict each flow and bring it
back, and the counts wrap after four octets. The reader's five seconds
touch three days, so that a range begins in a gap, crosses two ends of files, and
loses its first file. The greater value is that of `UINT32_MAX`, so that `peak + 1` wraps; the
range to 8 may be over, while that to 10 and "all" reach to the present, and outgrow the
peak. Two lines after a working configuration give every pair
of lines that may disturb each other (a number out of range before or after a
mark, a comment before a line of two words, "no" after a number, two lines
about one mark); with such widths `-1`, `huge` and a product that wraps are
within reach, and a file of fewer lines leaves each field unset.

Deadlock is not checked in `Lifecycle` (the process ends) nor where a bound ends
the behaviours (`StatWriter`: `MaxTime`; `Weights`: `MaxPackets`).

### Fairness

`Shaper` assumes weak fairness of `Capture` and of `Sender`: each is a loop that
waits only for the lock, which every holder releases, for a message, or for a
finite sleep. None is assumed of the kernel, of arrivals, or of the statistics
thread. `QueueDrains` is a statement about finitely many packets: while heavier
ones keep coming, a light packet may wait for ever, as the code has it.
`Lifecycle` assumes that `main` and the statistics thread go on, and
`SpecWithTraffic` that packets keep arriving: a signal between the test of
`damper_done` and `recv` is otherwise noticed by nobody (see below).
`Chart` assumes that the thread of a chart, which waits for nobody, goes on.

### Where code and documents disagree

1. `damper.c:576`: a packet refused by a full queue gets no verdict. The kernel
   keeps it, and with enough of them `nfqlen` is used up.
2. `damper.c:544`: a sleep of exactly one second is passed as 10^9 nanoseconds,
   which is refused.
3. `damper.c:234`: the `struct tm` of `gmtime` is read after calls during which
   `entropy_debug` may overwrite it, for the day or for the time within it.
4. `entropy.c:254`: after 2^32 octets of a flow the two counts of its octets
   disagree, the entropy is negative, and the flow's packets are dropped.

Seen in the models, but promised by no document, so that no run states it: between
the test of `damper_done` and `recv` (`damper.c:774`) a signal interrupts nothing, and
without further packets `main` stays there; `main` releases queue and user data under
the running sender (`damper.c:787`, with a FIXME in the code) and the debug threads;
`userdata_destroy` may close a file that was never opened (`damper.c:483`), and a disabled
module's destructor may free what was never allocated (`damper.c:473`); a constructor's `NULL`
is tested by nobody (`damper.c:389`); a chart of a range
that reaches to the present may outgrow its peak and leave `row[]` (`damper_img.c:319`); a
record of 2^32 - 1 divides by zero (`damper_img.c:294`); the first
second of each day is read as zeros (`stats.c:170`); `rand() + 1` may overflow
(`random.c:51`); after a number out of range, in whatever line, every later mark
is read as 0 (`bymark.c:46`: `errno` is not cleared, hence the `~erange` of
`MarksWeighAsWritten`); a module's line without a value takes the third word of an
earlier line, even of a comment (`damper.c:312`); `limit`, `packets` and `queue`
hold whatever `malloc` found if no line sets them; a limit beyond 64 bits wraps, and
one with an unknown suffix is 0 (`damper.c:72`); a chart never shows its first
second, its first column or the last one it has filled (`damper_img.c:309`).

## 4. The proofs

Every invariant, action property and refinement that a passing run checks is also
proved, for all values of the constants that the named assumptions allow (six
theorems have a hypothesis of their own, named below). Each invariant is proved by
way of an inductive one, with a lemma per action (or per shape of action). The
assumptions give the constants their types; those that say more are:
`DBL_MIN < DBL_MAX` for the priorities, with all weights below `DBL_MAX` (`PrioScan`); the zone
is UTC or west of it, 1970 is over by at least the zone's offset, and a packet's
length fits in the counters' width (`StatWriter`; the IP header gives it 16 bits);
1970 is over by a day (`StatReader`, where a start of 0 stands for "all") and a record is below
`U32`; packets shorter than their headers have no payload (`Weights`).

`NumberLemmas` holds what the other modules share and the library lacks: least and
largest elements, the order of products and quotients, induction over the numbers up
to `n` (`NumberInduction`), and sums and products over finite sets. The fold of the
community modules is a recursion over sets; that it has a unique value is proved
from the well-foundedness of strict inclusion. With that, adding, changing or taking
away one member changes a sum by that member's term.

### The queue

`PrioScanProofs`, for every length of the array and all weights:
`LoopsStopWhereSpecified` (`ScansStopWhereSpecified`) and `HeaviestAreKept`
(`KeepsTheHeaviest`). `HighestOf` and `LowestOf` are the loop invariants, of the
best slot among the first `n`; `NumberInduction` takes them through the recursive
functions. With the scans settled, `AddCounts` counts the packets of each weight or
more: displacing a lightest one leaves the count alone for any weight that is above
it.

### The threads

`ShaperProofs`, for every queue length, set of packets, sizes, limits, weights and
number of modules:

| Theorem | States | Needs |
|---|---|---|
| `TypeCorrect` | `TypeOK` | |
| `VerdictsAreUnique` | `OneVerdict` | |
| `BuffersHoldUnjudged` | `SlotsHoldUnjudged` | |
| `SpecialLimitsHold` | `SpecialLimits` | |
| `HeaviestAreSent` | `HeaviestFirst`, an action property | |
| `VerdictsAreCounted` | `StatsAccountForVerdicts` | finitely many packets (netfilter ids have 32 bits) |
| `QueueIsImplemented` | `ImplementsQueue`, a refinement | |

`OneVerdict` is not inductive: that a packet has no verdict yet must be known of
whatever may be judged next. `Inv` adds that for each of the three places a packet
may be in: a buffer (`SlotsHoldUnjudged`), the capture thread's hands (`InHand`),
and not yet received (`NotReceivedNotJudged`); `WeighsToShape` says that packets are
weighed for a finite limit only, which `SpecialLimits` needs. The lemmas
`FirstVerdict`, `VerdictInHand`, `QuietStep`, `FillStep` and `SendStep` are the four
shapes of steps: judge the packet in hand, leave buffers alone, fill a buffer, empty
one. `StatsAccountForVerdicts` adds sizes over sets of packets, and each verdict
puts one packet into one set: `OneVerdict` is what makes that packet new there. For
the refinement, buffers become a set of packets with their priorities;
`OneVerdict`'s invariant says that no two buffers hold the same packet, so that
filling and emptying one buffer adds and removes one member.

`SendRateProofs`, for any limits and sizes: `TypeCorrect`, and `SpeedIsLimited`
(`RateBound`) under `NoSizeTakesOneSecond`; the run `send_rate_boundary` shows that
this assumption is needed. Its heart is `DivisionLoss`: an integer division loses
less than one divisor.

### The modules' weights

`WeightsProofs`, for any length of the tables, width of the counters, traffic and
set of enabled modules: `TablesTyped` (`TypeOK`), `TotalFollowsTable`
(`TotalIsSum`), `FlowsHaveOneEntry` (`OneEntryPerFlow`), `CountsOfFlowAgree`
(`SymbolsMatchLength`) and `DropsHaveReasons` (`DropsAreExplained`). The total stays
the table's sum because a replaced entry's octets are taken from it first, and it
cannot go below zero for the same reason. `DropsHaveReasons` rests on an inequality:
where the symbols of a flow add up to its length, no count exceeds the length, so
that the product over the flow's octets of their symbols' counts is, factor by
factor, at most that of the lengths, and the entropy is not negative.

### Statistics

`StatWriterProofs`, for any length of a day, `keep_stat`, number of modules, faults
and restarts:

| Theorem | States | Needs |
|---|---|---|
| `FilesTyped` | `TypeOK` | |
| `LogIsImplemented` | `ImplementsStatLog`, a refinement | |
| `RecordsStandInPlace` | `RecordsInPlace` | `NobodySharesTm` |
| `StreamsStayOpen` | `StreamsOpen` | `NobodySharesTm` |
| `OldFilesAreRemoved` | `OldFilesGo` | `NobodySharesTm`, and that the directory can be listed |
| `HistoryIsKept` | `KeepsHistory`, an action property | `NobodySharesTm` |

`NobodySharesTm` says that no other thread overwrites `gmtime`'s static buffer; the
run `stat_writer_sharedtm` shows that it is needed. `Inv` says that `daystart`
belongs to `cday`, and `cday` to no later day than the clock (`DayOK`); that the
streams of the current day write to files that exist (`OpenOK`); that every record
lies in an existing file, at its own second (`DiskOK`, `RecordsInPlace`).
`RecordsInPlace` alone is not inductive, since `stat_write` does not compute the
place of a record from its time but from `daystart`, which it remembered at the
first record of the day. `StreamsOpen` needs `StreamAhead` besides: after a module's
file could not be opened, the main file's stream is of a newer day than `cday`. The
first two theorems hold with the shared `struct tm` as well, by an invariant of
their own (`TInv`): a record may land at a wrong place, but every count is in one
record.

### The configuration and the life cycle

`LifecycleProofs`, for every file (any words, any number of lines), every width of
the integers and any step failing:

| Theorem | States |
|---|---|
| `TypesKept` | `TypeOK` |
| `LastLineDecides` | `SettingsComeFromLines` |
| `FirstMarkDecides` | `MarksWeighAsWritten` |
| `LimitHolds` | `LimitAsWritten` |
| `ConfigurationHolds` | `StartsAsAssumed` |
| `EverythingReleased` | `ReleasedAtExit` |
| `StatThreadJoined` | `StatThreadUsesLiveData` |
| `NoCrashBeforeRelease` | `CrashesOnlyInRelease` |

`Inv` goes with `main` from label to label: which objects are live at each
(`ObjectsOK`), which threads run (`ThreadsOK`), which modules have been prepared
(`Prepared`), when the sender may have lost the queue (`SenderOK`), and the types of the fields
(`ConfigOK`). `LinesDecide` is the
invariant of the loop of `config_read`: fields and parameters are those of the last
lines about them (`FieldsFromLines`, `ParamsFromLines`), `p2` is the third word of
the last line that had one (`ThirdWordKept`), and the entries of `bymark` correspond
to its lines, in their order (`MarksFromLines`, by a function from entries to line
numbers that increases). The last is what `MarksWeighAsWritten` needs and does not
say: it makes the first entry of `bymark_weight`'s loop the first line. `AsRead`
says that nothing of this is disturbed by another thread, which starts after the
file is read.

### Charts

`ChartProofs`, for any length of a day, gaps, removals, queries, garbage and images:

| Theorem | States |
|---|---|
| `ChartTyped` | `TypeOK` |
| `SecondsDoNotDrift` | `ReadsOwnSecond` |
| `NoSecondSkipped` | `ReadsAllRecorded`, an action property |
| `ColumnsAreComplete` | `ColumnsShowTheirSeconds`, an action property |
| `PlotUnderPeak` | `PlotFitsPeak` |
| `ImageReachesBrowser` | `ImageSurvivesEncoding` |
| `DecodesToImage`, `FitsInBuffer` | octets come back from their encoding, which fits in its buffer |

`CursorOK` ties the two halves of the cursor together: while a file is open, its day
and the position in it add up to the cursor's time. `ListedOK` and `SizesOK` say
what `readdir` and `stat` have told about the seconds that were on disk when the
files were listed, unless their files went since, or had gone before their sizes were taken. `DayIs` and `MaxOfDay` are the
arithmetic of days and of file sizes. `ColumnsOK` says which column is being filled
and with which seconds, by the two divisions of `FillColumns` (`LinesAre`,
`TouchOrder`): the columns that a second's line touches follow one another, and no
earlier or later second touches a column that has been drawn or is still to come. Column 0 and
the last column that is filled are never drawn, and the range's first second belongs to none:
the theorem is about the others.
`PeakOK` compares two passes over files that change in between: what the second pass
may still return of a range that was over was on disk when the chart began, was returned by
the first, has not been rewritten since (only the last second's record can be, `PeakTick`), and is
at most the peak; and `DivisorIs` says that only the greatest peak has no divisor. The encoder's loop is a function of the position in the output, so
that `DecodesToImage` compares one octet of the input with the two or three
characters it went into.

### Only model-checked

Liveness, which the prover cannot treat (`ENABLED`, fairness): `QueueDrains`,
`AnswersWithoutShaping`, `SignalEndsProgram`, `RequestsAnswered`. The four runs that
expect a violation are counterexamples, and stay with TLC.

## 5. Plan

Modelled: `PrioArray`, `PrioScan`, `ShapingQueue`, `StatLog`, `Shaper`, `SendRate`,
`StatWriter`, `Config`, `Lifecycle`, `InhibitBigFlows`, `Entropy`, `Weights`,
`StatReader`, `Chart`, `Base64`. All safety properties of the runs are proved. What
is left:

1. Properties that liveness rests on and that are safety: that whenever the queue
   holds a packet some step of the sender is possible, as an invariant without
   `ENABLED`.
2. The joints between modules as theorems: that `StartsAsAssumed` implies the
   constants' assumptions of the modules it is about.

### Not modelled

* The web page `stat/html`: a user interface, whose one duty towards the code here is
  the query it sends.
* Text: SCGI headers, JSON, the names of statistics files, what debug threads print, lines
  of the configuration longer than `LINE_MAX`.
* Drawing: colours, background and grid, PNG compression. `image.c` other than base64
  and the answer of `mk_mempng` keeps no state.
* What the C library does with data between a call and the disk: stdio's buffers on
  both sides, a failing `fwrite`; and `realloc` failing in `bymark_conf`.
* The real clock: a tick of the statistics thread that comes late, a `sleep` cut
  short by a signal, and negative times in a query.
* A chart of width 0, which divides by zero.
* Rounding of doubles: weights are fractions or signs here.
