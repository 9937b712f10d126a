------------------------------ MODULE StatWriter ------------------------------
(***************************************************************************)
(* The statistics thread of damper.c in detail: stat_init, stat_thread,    *)
(* stat_write and stat_remove_old. Once a second a record is written into  *)
(* the file of the day, at the offset of the second; the first record of a *)
(* day opens the day's files and removes those that are too old. With the  *)
(* weights chart on, every module has a file of its own beside it.         *)
(*                                                                         *)
(* One tick is one critical section of u->lock. The process may be         *)
(* restarted at any time between two ticks.                                *)
(***************************************************************************)
EXTENDS Integers, Functions

CONSTANTS NModules,      \* number of weight modules
          U32,           \* 2^32, the modulus of the counters
          DayLen,        \* seconds in a day
          KeepStat,      \* u->keep_stat, at least 1 after userdata_init
          WestOfUTC,     \* UTC minus local time, in seconds
          Faults,        \* what may go wrong, a subset of FaultKinds
          Octets,        \* sizes of the packets that are counted
          StartTime,     \* time(NULL) when the first process starts
          MaxTime,       \* bound on curr_timestamp
          MaxCount,      \* bound on what is counted in a second
          MaxRestarts    \* bound on restarts

(***************************************************************************)
(* The day's file or a module's file cannot be opened, the directory       *)
(* cannot be listed; "sharedtm": the debug thread of module entropy calls  *)
(* localtime, which writes the struct tm that gmtime returned to           *)
(* stat_write, and takes no lock that stat_write holds.                    *)
(***************************************************************************)
FaultKinds == {"dstat", "chart", "list", "sharedtm"}

ASSUME StatWriterAssumption ==
  /\ NModules \in Nat /\ U32 \in Nat \ {0}
  /\ DayLen \in Nat \ {0} /\ KeepStat \in Nat \ {0}
  /\ WestOfUTC \in 0 .. DayLen - 1      \* east of UTC is not modelled
  /\ Faults \subseteq FaultKinds
  /\ Octets \subseteq 0 .. U32 - 1       \* plen, 16 bits of the IP header
  /\ StartTime \in Nat \ {0} /\ StartTime >= WestOfUTC
  /\ MaxTime \in Nat /\ MaxCount \in Nat /\ MaxRestarts \in Nat

VARIABLES stat, wchart, stat_info, samples,   \* as in StatLog
          curr_timestamp,   \* u->curr_timestamp
          cday,             \* u->cday, here the number of the day
          daystart,         \* u->daystart
          open,             \* the days of u->statf and modules[i].statf
          files,            \* the files in statdir
          disk,             \* the records in these files
          written,          \* ghost: the dstat records of this process
          restarts          \* ghost: how often the process was restarted

sharedVars == <<stat, wchart, stat_info, samples>>
fileVars == <<cday, daystart, open, files, disk, written>>
vars == <<sharedVars, fileVars, curr_timestamp, restarts>>

Dstat  == 0                         \* dstat.DDMMYY.dat
Names  == 0 .. NModules             \* and <module name>.DDMMYY.dat
NoFile == -1                        \* NULL, and no day at all

Day(t) == t \div DayLen

File(name, day) == [name |-> name, day |-> day]

(***************************************************************************)
(* A record: the file and the offset it is written to, and as ghosts the   *)
(* second it is about and the counters in it (0 in a module's file, whose  *)
(* averages are not modelled).                                             *)
(***************************************************************************)
Record(f, offset, t, info) ==
  [file |-> f, offset |-> offset, second |-> t, info |-> info]

SamePlace(r, s) == r.file = s.file /\ r.offset = s.offset

(***************************************************************************)
(* The statistics of this process as StatLog sees them.                    *)
(***************************************************************************)
Total(c) == SumFunction([r \in written |-> r.info[c]])

Log == INSTANCE StatLog WITH
         logged <- [packets_pass |-> Total("packets_pass"),
                    octets_pass  |-> Total("octets_pass"),
                    packets_drop |-> Total("packets_drop"),
                    octets_drop  |-> Total("octets_drop")]

-----------------------------------------------------------------------------
(***************************************************************************)
(* stat_remove_old: the files of more than keep_stat days before t.        *)
(***************************************************************************)
TooOldInclusive(f, t) ==       \* mutated form: "days >= u->keep_stat"
  (t - (f.day * DayLen)) \div DayLen >= KeepStat

TooOldInMonth(f, t) ==         \* mutated form: a day too many is kept
  (t - (f.day * DayLen)) \div DayLen > KeepStat + 1

TooOld(f, t) == (t - (f.day * DayLen)) \div DayLen > KeepStat

RemoveOld(fs, t) ==
  \/ files' = {f \in fs : ~TooOld(f, t)}
  \/ "list" \in Faults /\ files' = fs

(***************************************************************************)
(* The last part of stat_write: the records of second t go to the open     *)
(* streams, at the offset of t in a day that starts at base.               *)
(***************************************************************************)
PositionOneEarly(base, t) == t - base - 1   \* mutated form: seconds from 1

Position(base, t) == t - base

CountersKept == stat_info' = stat_info       \* mutated form: memset is missing

ClearCounters == stat_info' = Log!NoTraffic

WriteRecords(streams, base, t) ==
  LET names  == IF wchart THEN Names ELSE {Dstat}
      new    == {Record(File(n, streams[n]), Position(base, t), t,
                        IF n = Dstat THEN stat_info ELSE Log!NoTraffic)
                   : n \in names}
      stays(r) == r.file \in files' /\ \A s \in new : ~SamePlace(r, s)
  IN  /\ disk' = {r \in disk : stays(r)} \cup new
      /\ written' = written \cup {r \in new : r.file.name = Dstat}
      /\ ClearCounters
      /\ samples' = IF wchart THEN Log!NoSamples ELSE samples
      /\ UNCHANGED <<stat, wchart>>

-----------------------------------------------------------------------------
(***************************************************************************)
(* The days that stat_write may find in its struct tm.                     *)
(***************************************************************************)
TmDays(t) == {Day(t)} \cup
             (IF "sharedtm" \in Faults THEN {Day(t - WestOfUTC)} ELSE {})

(***************************************************************************)
(* What timegm may make of it for daystart. Its hours, minutes and seconds *)
(* are zeroed before, which localtime may undo, wholly or in part. (A      *)
(* mixture of the two that gives a time after t is left out: fseek would   *)
(* fail.)                                                                  *)
(***************************************************************************)
TmSeconds(t) == IF "sharedtm" \in Faults THEN 0 .. (t - WestOfUTC) % DayLen ELSE {0}

TmStarts(t) ==
  {start \in 0 .. t : \E d \in TmDays(t), s \in TmSeconds(t) :
                        start = (d * DayLen) + s}

SameDay(t) ==
  /\ cday \in TmDays(t)
  /\ files' = files
  /\ WriteRecords(open, daystart, t)
  /\ UNCHANGED <<cday, daystart, open>>

(***************************************************************************)
(* The first record of a day. The streams of the old day are closed, the   *)
(* modules' only if the chart is on. fopen_or_create keeps what a file of  *)
(* that name already holds.                                                *)
(***************************************************************************)
Streams(day, opened) ==
  [n \in Names |-> IF n \in opened THEN day
                   ELSE IF n = Dstat \/ wchart THEN NoFile
                   ELSE open[n]]

Created(day, opened) == files \cup {File(n, day) : n \in opened}

NoDayFileCounting(day) ==       \* mutated form: u->stat is not cleared
  /\ "dstat" \in Faults
  /\ stat' = stat /\ cday' = day
  /\ open' = Streams(day, {})
  /\ UNCHANGED <<wchart, stat_info, samples, daystart, files, disk,
                 written>>

NoDayFile(day) ==
  /\ "dstat" \in Faults
  /\ stat' = FALSE
  /\ open' = Streams(day, {})
  /\ UNCHANGED <<wchart, stat_info, samples, cday, daystart, files, disk,
                 written>>

NoChartFile(day) ==
  /\ "chart" \in Faults /\ wchart
  /\ \E m \in Log!Modules :
       /\ open' = Streams(day, 0 .. m - 1)
       /\ files' = Created(day, 0 .. m - 1)
  /\ wchart' = FALSE
  /\ UNCHANGED <<stat, stat_info, samples, cday, daystart, disk, written>>

NewDay(day, t) ==
  LET opened == IF wchart THEN Names ELSE {Dstat}
  IN  /\ open' = Streams(day, opened)
      /\ cday' = day
      /\ daystart' \in TmStarts(t)
      /\ RemoveOld(Created(day, opened), t)
      /\ WriteRecords(open', daystart', t)

StatWrite(t) ==
  \/ SameDay(t)
  \/ \E day \in TmDays(t) \ {cday} : NoDayFile(day) \/ NoChartFile(day)
                                     \/ NewDay(day, t)

(***************************************************************************)
(* stat_thread after its sleep.                                            *)
(***************************************************************************)
Tick ==
  /\ curr_timestamp < MaxTime
  /\ curr_timestamp' = curr_timestamp + 1
  /\ \/ stat /\ StatWrite(curr_timestamp')
     \/ ~stat /\ UNCHANGED <<sharedVars, fileVars>>
  /\ UNCHANGED restarts

-----------------------------------------------------------------------------
(***************************************************************************)
(* stat_init. The clock's second may be one behind that of the process     *)
(* before, whose first tick came less than a second after its start.       *)
(***************************************************************************)
FreshProcess ==
  /\ stat' \in BOOLEAN /\ wchart' \in BOOLEAN
  /\ stat_info' = Log!NoTraffic
  /\ samples' = Log!NoSamples
  /\ cday' = NoFile /\ daystart' = 0
  /\ open' = [n \in Names |-> NoFile]
  /\ written' = {}

Restart ==
  /\ restarts < MaxRestarts
  /\ restarts' = restarts + 1
  /\ FreshProcess
  /\ curr_timestamp' \in curr_timestamp - 1 .. curr_timestamp + DayLen
  /\ curr_timestamp' >= StartTime
  /\ UNCHANGED <<files, disk>>

Init ==
  /\ stat \in BOOLEAN /\ wchart \in BOOLEAN
  /\ stat_info = Log!NoTraffic
  /\ samples = Log!NoSamples
  /\ curr_timestamp = StartTime
  /\ cday = NoFile /\ daystart = 0
  /\ open = [n \in Names |-> NoFile]
  /\ files = {} /\ disk = {} /\ written = {}
  /\ restarts = 0

(***************************************************************************)
(* The capture and the sender thread, between two ticks.                   *)
(***************************************************************************)
CountPacket ==
  /\ stat_info.packets_pass + stat_info.packets_drop < MaxCount
  /\ \E n \in Octets : Log!Count(Log!Passed(n)) \/ Log!Count(Log!Dropped(n))
  /\ UNCHANGED <<stat, wchart, samples, fileVars, curr_timestamp, restarts>>

SampleWeight ==
  /\ \E m \in Log!Modules : samples[m] < MaxCount /\ Log!Sample(m)
  /\ UNCHANGED <<stat, wchart, stat_info, fileVars, curr_timestamp, restarts>>

Next == Tick \/ Restart \/ CountPacket \/ SampleWeight

Spec == Init /\ [][Next]_vars

-----------------------------------------------------------------------------
DaysUntil(t) == {NoFile} \cup 0 .. Day(t)

(***************************************************************************)
(* Type correctness. The thread's day and its streams are never ahead of   *)
(* the clock (the files may be, after a restart that found an earlier      *)
(* second); what is on disk is in files that exist; and no record is       *)
(* written before the start of its file.                                   *)
(***************************************************************************)
TypeOK ==
  /\ Log!StatTypeOK
  /\ curr_timestamp \in Nat /\ curr_timestamp >= StartTime
  /\ cday \in DaysUntil(curr_timestamp)
  /\ daystart \in 0 .. curr_timestamp
  /\ open \in [Names -> DaysUntil(curr_timestamp)]
  /\ files \subseteq [name : Names, day : Nat]
  /\ \A r \in disk : r.file \in files
  /\ \A r \in disk \cup written : r.offset \in Nat
  /\ restarts \in 0 .. MaxRestarts

(***************************************************************************)
(* Whatever happens to files, days and processes, the other threads see    *)
(* the statistics of module StatLog: every counted packet is in exactly    *)
(* one record or still in the counters, unless statistics are switched     *)
(* off.                                                                    *)
(***************************************************************************)
ImplementsStatLog == Log!LogSpec

(***************************************************************************)
(* A record stands where its readers look for its second: in the file of   *)
(* the second's day, that many records from the file's start. (Comment in  *)
(* stat_write: "calculate time_t when day start".)                         *)
(***************************************************************************)
RecordsInPlace ==
  \A r \in disk : /\ r.file.day = Day(r.second)
                  /\ (r.file.day * DayLen) + r.offset = r.second

(***************************************************************************)
(* Once a day's first record is written, nothing of more than keep_stat    *)
(* days before it is left.                                                 *)
(***************************************************************************)
OldFilesGo ==
  stat /\ cday = Day(curr_timestamp) => \A f \in files : f.day >= cday - KeepStat

(***************************************************************************)
(* Of the last keep_stat days no record is ever lost, to a restart, to a   *)
(* failing file or to stat_remove_old; a record may only be replaced by    *)
(* one of the same second.                                                 *)
(***************************************************************************)
Replaced(r) == \E s \in disk' : SamePlace(r, s) /\ s.second = r.second

KeepsHistory ==
  [][\A r \in disk \ disk' :
        Replaced(r) \/ Day(curr_timestamp') - Day(r.second) > KeepStat]_vars

(***************************************************************************)
(* stat_write uses its streams unchecked when the day has not changed:     *)
(* then all those it will use are open, and belong to that day.            *)
(***************************************************************************)
StreamsOpen ==
  stat /\ cday # NoFile =>
    /\ open[Dstat] \in {cday, Day(curr_timestamp)}
    /\ cday = Day(curr_timestamp + 1) =>
         \A n \in Names : (n = Dstat \/ wchart) => open[n] = cday

=============================================================================
