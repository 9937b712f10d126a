------------------------------ MODULE StatReader ------------------------------
(***************************************************************************)
(* Reading the statistics: the cursor of stat/stats.c (stat_data_open,     *)
(* seek, next, close) over files that damper goes on writing. The two are  *)
(* separate processes that share nothing but the files. Who drives the     *)
(* cursor is the subject of Chart.                                         *)
(*                                                                         *)
(* Files are those of the set "dstat"; what is known of them is what       *)
(* module StatWriter shows: a second's record stands in the file of its    *)
(* day at its offset, records are written in the order of time, and files  *)
(* disappear when they are old. A record is the one number that a chart    *)
(* takes from it (octets_or_packets), 0 standing for a second without a    *)
(* record as well, whose place in the file reads as zeros.                 *)
(***************************************************************************)
EXTENDS Integers, FiniteSetsExt

CONSTANTS DayLen,        \* seconds in a day
          KeepStat,      \* u->keep_stat of damper
          U32,           \* 2^32, the modulus of the counters
          Values,        \* what a record may hold
          GarbageEnds,   \* ends that an uninitialised struct stat may give
          StartTime, MaxTime   \* the seconds considered

ASSUME StatReaderAssumption ==
  /\ DayLen \in Nat \ {0} /\ KeepStat \in Nat \ {0}
  /\ U32 \in Nat \ {0}
  /\ Values \subseteq 1 .. U32 - 1
  /\ GarbageEnds \subseteq Nat
  /\ StartTime \in Nat /\ StartTime >= DayLen  \* 1 January 1970 is over
  /\ MaxTime \in Nat /\ StartTime <= MaxTime

VARIABLES now,        \* the last second that damper has come to
          records,    \* records[s]: the record of second s, 0 if none
          removed,    \* the days whose files are unlinked
          names,      \* the days found in the directory
          days,       \* sd->sset->days: a day's end
          t,          \* sd->t
          f,          \* sd->f: the open day and the position in it, or NoFile
          info,       \* the last record returned, with a ghost: whose it is
          seen,       \* ghost: the seconds on disk when the directory was read
          vanished    \* ghost: a listed file was gone when its size was taken

diskVars  == <<now, records, removed>>
sdVars    == <<names, days, t, f, info>>
sdGhosts  == <<seen, vanished>>

Seconds == StartTime .. MaxTime
NoFile  == [day |-> -1, pos |-> 0]
NoDays  == [d \in {} |-> 0]
Zeros   == [second |-> 0, value |-> 0]

Day(s)      == s \div DayLen
DayStart(d) == d * DayLen

RecordOf(s) == IF s \in Seconds THEN records[s] ELSE 0

Recorded == {s \in Seconds : records[s] # 0}
Linked   == {Day(s) : s \in Recorded} \ removed

(***************************************************************************)
(* The number of records in a day's file.                                  *)
(***************************************************************************)
Size(d) == Max({0} \cup {s - DayStart(d) + 1 : s \in {r \in Recorded : Day(r) = d}})

-----------------------------------------------------------------------------
(***************************************************************************)
(* damper: a second passes with a record or, damper being down, without.   *)
(* One that is restarted may begin a second earlier (StatWriter!Restart):  *)
(* it writes the last second's record once more. A process's first record  *)
(* of a day removes old files, if it can.                                  *)
(***************************************************************************)
WriteRecord(s) ==
  /\ \E v \in Values : records' = [records EXCEPT ![s] = v]
  /\ LET old == {d \in Linked : Day(s) - d > KeepStat}
     IN  removed' \in {removed, removed \cup old}

Tick ==
  /\ \/ /\ now < MaxTime /\ now' = now + 1
        /\ WriteRecord(now') \/ UNCHANGED <<records, removed>>
     \/ /\ now \in Seconds /\ now' = now
        /\ WriteRecord(now)
  /\ UNCHANGED <<sdVars, sdGhosts>>

-----------------------------------------------------------------------------
(***************************************************************************)
(* stat_data_fetch for second s. A day is looked for among those that      *)
(* stat_data_open has listed, in the directory's order.                    *)
(***************************************************************************)
Covers(d, s) == s > DayStart(d) /\ s < days[d]

ReadPastEnd(d, pos) ==      \* mutated form: the result of fread not checked
  /\ info' = [second |-> DayStart(d) + pos,
              value  |-> RecordOf(DayStart(d) + pos)]
  /\ f' = [day |-> d, pos |-> pos + 1]

ReadAtEnd(d, pos) ==        \* mutated form: the file stays open at its end
  IF pos < Size(d)
  THEN /\ info' = [second |-> DayStart(d) + pos,
                   value  |-> RecordOf(DayStart(d) + pos)]
       /\ f' = [day |-> d, pos |-> pos + 1]
  ELSE info' = Zeros /\ f' = [day |-> d, pos |-> pos]

Read(d, pos) ==
  IF pos < Size(d)
  THEN /\ info' = [second |-> DayStart(d) + pos,
                   value  |-> RecordOf(DayStart(d) + pos)]
       /\ f' = [day |-> d, pos |-> pos + 1]
  ELSE info' = Zeros /\ f' = NoFile

OffsetFromOne(d, s) == s - DayStart(d) - 1   \* mutated form: seconds from 1

Offset(d, s) == s - DayStart(d)

Fetch(s) ==
  \/ /\ \A d \in DOMAIN days : ~Covers(d, s)
     /\ info' = Zeros /\ f' = NoFile
  \/ \E d \in DOMAIN days :
       /\ Covers(d, s)
       /\ IF d \in Linked THEN Read(d, Offset(d, s))
                          ELSE info' = Zeros /\ f' = NoFile

-----------------------------------------------------------------------------
(***************************************************************************)
(* stat_data_open: the directory is read, then, one after the other, the   *)
(* sizes of its files are taken. A file removed in between leaves struct   *)
(* stat as it was: uninitialised.                                          *)
(***************************************************************************)
ListDir ==
  /\ names' = Linked /\ days' = NoDays
  /\ seen' = Recorded
  /\ UNCHANGED <<t, f, info, vanished>>

FillDayInfo(d) ==
  /\ \E end \in IF d \in Linked THEN {DayStart(d) + Size(d)} ELSE GarbageEnds :
       days' = [e \in DOMAIN days \cup {d} |-> IF e = d THEN end ELSE days[e]]
  /\ vanished' = (vanished \/ d \notin Linked)
  /\ UNCHANGED <<names, t, f, info, seen>>

(***************************************************************************)
(* sd->start, and sd->start + sd->nrec, over all days.                     *)
(***************************************************************************)
DataEnd(ends) == Max({0} \cup {ends[d] : d \in DOMAIN ends})

DataStart(ends) ==
  IF DOMAIN ends = {} THEN 0 ELSE Min({DayStart(d) : d \in DOMAIN ends})

(***************************************************************************)
(* stat_data_seek, stat_data_next and stat_data_close. (feof is never true *)
(* in stat_data_next: a short read closes the file.)                       *)
(***************************************************************************)
Seek(s) ==
  /\ t' = s
  /\ Fetch(t')
  /\ UNCHANGED <<names, days, sdGhosts>>

NextWithinFile ==          \* mutated form: t counts the records read only
  /\ t' = IF f = NoFile THEN t ELSE t + 1
  /\ IF f = NoFile THEN Fetch(t') ELSE Read(f.day, f.pos)
  /\ UNCHANGED <<names, days, sdGhosts>>

NextRecord ==
  /\ t' = t + 1
  /\ IF f = NoFile THEN Fetch(t') ELSE Read(f.day, f.pos)
  /\ UNCHANGED <<names, days, sdGhosts>>

Close ==
  /\ t' = 0 /\ info' = Zeros /\ f' = NoFile /\ names' = {} /\ days' = NoDays
  /\ seen' = {}

DiskInit ==
  /\ now = StartTime - 1
  /\ records = [s \in Seconds |-> 0]
  /\ removed = {}

CursorInit ==
  /\ t = 0 /\ info = Zeros /\ f = NoFile /\ names = {} /\ days = NoDays
  /\ seen = {} /\ vanished = FALSE

-----------------------------------------------------------------------------
(***************************************************************************)
(* Type correctness; no position beyond the end of a day's file.           *)
(***************************************************************************)
CursorTypeOK ==
  /\ now \in StartTime - 1 .. MaxTime
  /\ records \in [Seconds -> Values \cup {0}]
  /\ DOMAIN days \subseteq names
  /\ t \in Nat
  /\ f = NoFile \/ (f.day \in names /\ f.pos \in 1 .. Size(f.day))
  /\ info.value \in Values \cup {0}

(***************************************************************************)
(* What seek and next return for a second is that second's record, or      *)
(* zeros: the cursor's time and its place in the files, which advance      *)
(* separately, do not drift apart over ends of files and days.             *)
(***************************************************************************)
ReadsOwnSecond == info # Zeros => info.second = t

=============================================================================
