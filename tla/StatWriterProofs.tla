--------------------------- MODULE StatWriterProofs ---------------------------
(***************************************************************************)
(* What stands in the files of statistics, for any length of a day, any    *)
(* number of modules, days and restarts, and whatever files fail to open:  *)
(* provided that nobody writes to the struct tm of stat_write (which the   *)
(* debug thread of module entropy does).                                   *)
(***************************************************************************)
EXTENDS StatWriter, NumberLemmas

-----------------------------------------------------------------------------
(***************************************************************************)
(* Days.                                                                   *)
(***************************************************************************)
LEMMA DayFacts ==
  ASSUME NEW t \in Nat
  PROVE  /\ Day(t) \in Nat
         /\ Day(t) * DayLen \in Int
         /\ Day(t) <= Day(t + 1)
BY StatWriterAssumption DEF Day

(***************************************************************************)
(* Positions in the file of a day that is not the clock's, in days.        *)
(***************************************************************************)
LEMMA DaysBetween ==
  ASSUME NEW t \in Nat, NEW d \in Int
  PROVE  (t - (d * DayLen)) \div DayLen = Day(t) - d
<1>1. DayLen \in Nat \ {0} /\ d * DayLen \in Int
  BY StatWriterAssumption
<1> DEFINE q == t \div DayLen
           r == t % DayLen
<1>2. q \in Int /\ r \in 0 .. DayLen - 1 /\ t = q * DayLen + r
  BY <1>1
<1>3. (q - d) * DayLen = q * DayLen - d * DayLen
  BY <1>1, <1>2
<1>4. t - (d * DayLen) = (q - d) * DayLen + r
  BY <1>1, <1>2, <1>3
<1> HIDE DEF q, r
<1>5. ((q - d) * DayLen + r) \div DayLen = q - d
  BY <1>1, <1>2
<1> QED
  BY <1>4, <1>5 DEF Day, q

(***************************************************************************)
(* The records that one stat_write adds and takes away.                    *)
(***************************************************************************)
Used(n) == n = Dstat \/ wchart

IsNew(r, streams, base, t) ==
  \E n \in Names : /\ Used(n)
                   /\ r = Record(File(n, streams[n]), t - base, t, r.info)

(***************************************************************************)
(* What a call of stat_write adds to the disk, and what it takes from it.  *)
(***************************************************************************)
LEMMA WhatIsWritten ==
  ASSUME NEW streams, NEW base, NEW t, WriteRecords(streams, base, t)
  PROVE  /\ \A r \in disk' : \/ r \in disk /\ r.file \in files'
                             \/ IsNew(r, streams, base, t)
         /\ \A r \in disk \ disk' :
              \/ r.file \notin files'
              \/ \E s \in disk' : SamePlace(r, s) /\ IsNew(s, streams, base, t)
         /\ UNCHANGED <<stat, wchart>>
<1> DEFINE names == IF wchart THEN Names ELSE {Dstat}
           info(n) == IF n = Dstat THEN stat_info ELSE Log!NoTraffic
           new == {Record(File(n, streams[n]), Position(base, t), t, info(n))
                    : n \in names}
           stays(r) == r.file \in files' /\ \A s \in new : ~SamePlace(r, s)
<1>1. disk' = {r \in disk : stays(r)} \cup new /\ UNCHANGED <<stat, wchart>>
  BY DEF WriteRecords
<1>2. \A n \in names : n \in Names /\ Used(n)
  BY StatWriterAssumption DEF Used, Names, Dstat
<1>3. \A r \in new : IsNew(r, streams, base, t)
  <2>1. SUFFICES ASSUME NEW n \in names, NEW r,
                        r = Record(File(n, streams[n]), Position(base, t), t,
                                   info(n))
                 PROVE  IsNew(r, streams, base, t)
    OBVIOUS
  <2>2. r.info = info(n)
    BY <2>1 DEF Record
  <2>3. r = Record(File(n, streams[n]), t - base, t, r.info)
    BY <2>1, <2>2 DEF Position
  <2> QED
    BY <1>2, <2>3 DEF IsNew
<1> HIDE DEF new, names
<1> QED
  BY <1>1, <1>3

-----------------------------------------------------------------------------
(***************************************************************************)
(* The inductive invariant: the current day is not ahead of the clock and  *)
(* starts where daystart says, its files are open and exist, and every     *)
(* record stands in its place in a file that exists.                       *)
(***************************************************************************)
NobodySharesTm == "sharedtm" \notin Faults

DayOK ==
  \/ cday = NoFile
  \/ /\ cday \in Nat /\ cday <= Day(curr_timestamp)
     /\ daystart = cday * DayLen

OpenOK ==
  stat /\ cday = Day(curr_timestamp) =>
    \A n \in Names : Used(n) => open[n] = cday /\ File(n, cday) \in files

DiskOK ==
  /\ \A f \in files : f.day \in Int
  /\ \A r \in disk : r.file \in files /\ r.second \in Nat /\ r.offset \in Int

Inv ==
  /\ curr_timestamp \in Nat
  /\ DayOK
  /\ OpenOK
  /\ DiskOK
  /\ RecordsInPlace

(***************************************************************************)
(* Records of second t, written to files of t's day.                       *)
(***************************************************************************)
LEMMA WriteKeepsPlaces ==
  ASSUME DiskOK, RecordsInPlace,
         NEW streams, NEW t \in Nat, WriteRecords(streams, Day(t) * DayLen, t),
         \A n \in Names : Used(n) => /\ streams[n] = Day(t)
                                     /\ File(n, Day(t)) \in files',
         \A f \in files' : f.day \in Int
  PROVE  DiskOK' /\ RecordsInPlace'
<1>1. SUFFICES ASSUME NEW r \in disk'
               PROVE  /\ r.file \in files' /\ r.second \in Nat /\ r.offset \in Int
                      /\ r.file.day = Day(r.second)
                      /\ (r.file.day * DayLen) + r.offset = r.second
  BY DEF DiskOK, RecordsInPlace, Day
<1>2. CASE r \in disk /\ r.file \in files'
  BY <1>2 DEF DiskOK, RecordsInPlace
<1>3. CASE IsNew(r, streams, Day(t) * DayLen, t)
  <2>1. PICK n \in Names :
           /\ Used(n)
           /\ r = Record(File(n, streams[n]), t - Day(t) * DayLen, t, r.info)
    BY <1>3 DEF IsNew
  <2>2. /\ r.file = File(n, Day(t)) /\ r.file \in files'
        /\ r.second = t /\ r.offset = t - Day(t) * DayLen
    BY <2>1 DEF Record
  <2>3. r.file.day = Day(t)
    BY <2>2 DEF File
  <2>4. Day(t) * DayLen \in Int
    BY DayFacts
  <2> QED
    BY <2>2, <2>3, <2>4
<1> QED
  BY <1>2, <1>3, WhatIsWritten

(***************************************************************************)
(* The same for KeepsHistory: what a record takes the place of is of the   *)
(* same second.                                                            *)
(***************************************************************************)
LEMMA WriteReplaces ==
  ASSUME DiskOK', RecordsInPlace, RecordsInPlace', DiskOK,
         NEW streams, NEW base, NEW t \in Nat, WriteRecords(streams, base, t),
         NEW r \in disk \ disk'
  PROVE  r.file \notin files' \/ Replaced(r)
<1>1. SUFFICES ASSUME r.file \in files'
               PROVE  Replaced(r)
  OBVIOUS
<1>2. PICK s \in disk' : SamePlace(r, s)
  BY <1>1, WhatIsWritten
<1>3. r.file = s.file /\ r.offset = s.offset
  BY <1>2 DEF SamePlace
<1>4. (r.file.day * DayLen) + r.offset = r.second
  BY DEF RecordsInPlace
<1>5. (s.file.day * DayLen) + s.offset = s.second
  BY DEF RecordsInPlace
<1>6. r.second = s.second
  BY <1>3, <1>4, <1>5
<1> QED
  BY <1>2, <1>6 DEF Replaced

LEMMA InvStarts ==
  Init => Inv
<1> SUFFICES ASSUME Init PROVE Inv
  OBVIOUS
<1>1. curr_timestamp \in Nat /\ cday = NoFile /\ files = {} /\ disk = {}
  BY StatWriterAssumption DEF Init
<1>2. Day(curr_timestamp) # NoFile
  BY <1>1, DayFacts DEF NoFile
<1> QED
  BY <1>1, <1>2 DEF Inv, DayOK, OpenOK, DiskOK, RecordsInPlace

(***************************************************************************)
(* The day's first record.                                                 *)
(***************************************************************************)
LEMMA NewDayFacts ==
  ASSUME NobodySharesTm, Inv, NEW t \in Nat, NewDay(Day(t), t)
  PROVE  /\ cday' = Day(t) /\ daystart' = Day(t) * DayLen
         /\ WriteRecords(open', Day(t) * DayLen, t)
         /\ \A n \in Names : Used(n) => /\ open'[n] = Day(t)
                                        /\ File(n, Day(t)) \in files'
         /\ \A f \in files' : f.day \in Int
         /\ \A f \in files \ files' : Day(t) - f.day > KeepStat
         /\ "list" \notin Faults => \A f \in files' : Day(t) - f.day <= KeepStat
<1> DEFINE opened == IF wchart THEN Names ELSE {Dstat}
           created == Created(Day(t), opened)
<1>1. TmStarts(t) \subseteq {Day(t) * DayLen}
  <2>1. TmDays(t) = {Day(t)} /\ TmSeconds(t) = {0}
    BY DEF TmDays, TmSeconds, NobodySharesTm
  <2>2. (Day(t) * DayLen) + 0 = Day(t) * DayLen
    BY DayFacts, StatWriterAssumption
  <2> QED
    BY <2>1, <2>2 DEF TmStarts
<1>2. /\ cday' = Day(t) /\ daystart' = Day(t) * DayLen
      /\ open' = Streams(Day(t), opened)
      /\ RemoveOld(created, t)
      /\ WriteRecords(open', Day(t) * DayLen, t)
  BY <1>1 DEF NewDay
<1>3. \A n \in Names : Used(n) => n \in opened
  BY DEF Used
<1>4. \A n \in Names : Used(n) => open'[n] = Day(t)
  BY <1>2, <1>3 DEF Streams
<1>5. \A n \in Names : Used(n) => File(n, Day(t)) \in created
  BY <1>3 DEF Created
<1>6. Day(t) \in Nat /\ KeepStat \in Nat \ {0}
  BY DayFacts, StatWriterAssumption
<1>7. \A f \in created : f.day \in Int
  BY <1>6 DEF Created, File, Inv, DiskOK
<1>8. files \subseteq created
  BY DEF Created
<1> HIDE DEF created, opened
<1>9. \A f \in created : TooOld(f, t) <=> Day(t) - f.day > KeepStat
  BY <1>7, DaysBetween DEF TooOld
<1>10. \A n \in Names : ~TooOld(File(n, Day(t)), t)
  <2>1. SUFFICES ASSUME NEW n \in Names
                 PROVE  ~TooOld(File(n, Day(t)), t)
    OBVIOUS
  <2>2. (t - (Day(t) * DayLen)) \div DayLen = 0
    BY <1>6, DaysBetween
  <2> QED
    BY <1>6, <2>2 DEF TooOld, File
<1>11. CASE files' = {f \in created : ~TooOld(f, t)}
  BY <1>2, <1>4, <1>5, <1>6, <1>7, <1>8, <1>9, <1>10, <1>11
<1>12. CASE "list" \in Faults /\ files' = created
  BY <1>2, <1>4, <1>5, <1>7, <1>8, <1>12
<1> QED
  BY <1>2, <1>11, <1>12 DEF RemoveOld

(***************************************************************************)
(* The steps of the statistics thread, by outcome.                         *)
(***************************************************************************)
LEMMA SameDayStep ==
  ASSUME NobodySharesTm, Inv, stat, NEW t \in Nat, t = curr_timestamp + 1,
         curr_timestamp' = t, SameDay(t)
  PROVE  /\ Inv' /\ cday = Day(t) /\ cday = Day(curr_timestamp)
         /\ WriteRecords(open, Day(t) * DayLen, t)
         /\ UNCHANGED <<cday, open, files, stat, wchart>>
<1>1. TmDays(t) = {Day(t)}
  BY DEF TmDays, NobodySharesTm
<1>2. /\ cday = Day(t) /\ WriteRecords(open, daystart, t)
      /\ UNCHANGED <<cday, daystart, open, files>>
  BY <1>1 DEF SameDay
<1>3. UNCHANGED <<stat, wchart>>
  BY <1>2 DEF WriteRecords
<1>4. Day(t) \in Nat /\ Day(curr_timestamp) \in Nat /\ Day(curr_timestamp) <= Day(t)
  BY DayFacts DEF Inv
<1>5. cday <= Day(curr_timestamp) /\ daystart = Day(t) * DayLen
  BY <1>2, <1>4 DEF Inv, DayOK, NoFile
<1>6. cday = Day(curr_timestamp)
  BY <1>2, <1>4, <1>5
<1>7. \A n \in Names : Used(n) => open[n] = Day(t) /\ File(n, Day(t)) \in files'
  BY <1>2, <1>6 DEF Inv, OpenOK
<1>8. DiskOK' /\ RecordsInPlace'
  <2>1. \A f \in files' : f.day \in Int
    BY <1>2 DEF Inv, DiskOK
  <2> QED
    BY <1>2, <1>5, <1>7, <2>1, WriteKeepsPlaces DEF Inv
<1>9. Day(curr_timestamp)' = Day(t)
  BY DEF Day
<1>10. DayOK'
  BY <1>2, <1>4, <1>5, <1>9 DEF DayOK
<1>11. OpenOK'
  BY <1>2, <1>3, <1>7, <1>9 DEF OpenOK, Used, File
<1> QED
  BY <1>2, <1>3, <1>5, <1>6, <1>8, <1>10, <1>11 DEF Inv

LEMMA NewDayStep ==
  ASSUME NobodySharesTm, Inv, NEW t \in Nat, t = curr_timestamp + 1,
         curr_timestamp' = t, NewDay(Day(t), t)
  PROVE  Inv'
<1>1. UNCHANGED <<stat, wchart>>
  BY DEF NewDay, WriteRecords
<1>2. Day(t) \in Nat /\ Day(curr_timestamp)' = Day(t)
  BY DayFacts DEF Day
<1>3. DiskOK' /\ RecordsInPlace'
  BY NewDayFacts, WriteKeepsPlaces DEF Inv
<1>4. DayOK'
  BY <1>2, NewDayFacts DEF DayOK
<1>5. OpenOK'
  BY <1>1, <1>2, NewDayFacts DEF OpenOK, Used, File
<1> QED
  BY <1>3, <1>4, <1>5 DEF Inv

(***************************************************************************)
(* Statistics or the chart are switched off; the day stays the old one.    *)
(***************************************************************************)
LEMMA FailedOpenStep ==
  ASSUME Inv, NEW t \in Nat, t = curr_timestamp + 1, curr_timestamp' = t,
         cday # Day(t), NoDayFile(Day(t)) \/ NoChartFile(Day(t))
  PROVE  Inv'
<1>1. /\ UNCHANGED <<cday, daystart, disk>>
      /\ files \subseteq files'
      /\ \A f \in files' : f \in files \/ f.day = Day(t)
  BY DEF NoDayFile, NoChartFile, Created, File
<1>2. /\ Day(t) \in Nat /\ Day(curr_timestamp) \in Nat
      /\ Day(curr_timestamp) <= Day(t)
      /\ Day(curr_timestamp)' = Day(t)
  BY DayFacts DEF Inv, Day
<1>3. DayOK'
  BY <1>1, <1>2 DEF Inv, DayOK
<1>4. OpenOK'
  BY <1>1, <1>2 DEF OpenOK
<1>5. DiskOK' /\ RecordsInPlace'
  BY <1>1, <1>2 DEF Inv, DiskOK, RecordsInPlace, Day
<1> QED
  BY <1>3, <1>4, <1>5 DEF Inv

LEMMA TickOutcomes ==
  ASSUME NobodySharesTm, Inv, Tick, stat
  PROVE  \E t \in Nat : /\ t = curr_timestamp + 1 /\ curr_timestamp' = t
                        /\ \/ SameDay(t)
                           \/ /\ cday # Day(t)
                              /\ \/ NoDayFile(Day(t)) \/ NoChartFile(Day(t))
                                 \/ NewDay(Day(t), t)
<1>1. curr_timestamp' = curr_timestamp + 1 /\ curr_timestamp + 1 \in Nat
      /\ StatWrite(curr_timestamp')
  BY DEF Tick, Inv
<1>2. PICK t \in Nat : t = curr_timestamp + 1 /\ curr_timestamp' = t
  BY <1>1
<1>3. StatWrite(t)
  BY <1>1, <1>2
<1>4. TmDays(t) = {Day(t)}
  BY DEF TmDays, NobodySharesTm
<1> QED
  BY <1>2, <1>3, <1>4 DEF StatWrite

(***************************************************************************)
(* All steps keep the invariant.                                           *)
(***************************************************************************)
LEMMA InvStep ==
  ASSUME NobodySharesTm, Inv, [Next]_vars
  PROVE  Inv'
<1>1. ASSUME UNCHANGED <<stat, wchart, fileVars, curr_timestamp>>
      PROVE  Inv'
  BY <1>1 DEF Inv, DayOK, OpenOK, DiskOK, RecordsInPlace, fileVars, Day, Used,
              File
<1>2. CASE UNCHANGED vars
  BY <1>1, <1>2 DEF vars, sharedVars
<1>3. CASE Tick
  <2>1. CASE stat
    BY <1>3, <2>1, TickOutcomes, SameDayStep, NewDayStep, FailedOpenStep
  <2>2. CASE ~stat
    <3>1. /\ UNCHANGED <<stat, fileVars>>
          /\ curr_timestamp' = curr_timestamp + 1
          /\ curr_timestamp' \in Nat
      BY <1>3, <2>2 DEF Tick, sharedVars, Inv
    <3>2. Day(curr_timestamp) \in Nat /\ Day(curr_timestamp)' \in Nat
          /\ Day(curr_timestamp) <= Day(curr_timestamp)'
      BY <3>1, DayFacts DEF Inv, Day
    <3>3. DayOK'
      BY <3>1, <3>2 DEF Inv, DayOK, fileVars
    <3>4. OpenOK'
      BY <2>2, <3>1 DEF OpenOK
    <3>5. DiskOK' /\ RecordsInPlace'
      BY <3>1 DEF Inv, DiskOK, RecordsInPlace, fileVars, Day
    <3> QED
      BY <3>1, <3>3, <3>4, <3>5 DEF Inv
  <2> QED
    BY <2>1, <2>2
<1>4. CASE Restart
  <2>1. /\ cday' = NoFile /\ UNCHANGED <<files, disk>>
        /\ curr_timestamp' \in Nat
    BY <1>4, StatWriterAssumption DEF Restart, FreshProcess, Inv
  <2>2. Day(curr_timestamp)' \in Nat
    <3>1. \A t \in Nat : t \div DayLen \in Nat
      BY StatWriterAssumption
    <3> QED
      BY <2>1, <3>1 DEF Day
  <2>3. OpenOK'
    BY <2>1, <2>2 DEF OpenOK, NoFile
  <2>4. DiskOK' /\ RecordsInPlace'
    BY <2>1 DEF Inv, DiskOK, RecordsInPlace, Day
  <2> QED
    BY <2>1, <2>3, <2>4 DEF Inv, DayOK
<1>5. CASE CountPacket \/ SampleWeight
  BY <1>1, <1>5 DEF CountPacket, SampleWeight
<1> QED
  BY <1>2, <1>3, <1>4, <1>5 DEF Next

(***************************************************************************)
(* Records are found where their readers look for them, over ends of days, *)
(* failing files and restarts.                                             *)
(***************************************************************************)
THEOREM RecordsStandInPlace ==
  ASSUME NobodySharesTm
  PROVE  Spec => []RecordsInPlace
<1>1. Inv /\ [Next]_vars => Inv'
  BY InvStep
<1>2. Inv => RecordsInPlace
  BY DEF Inv
<1> QED
  BY InvStarts, <1>1, <1>2, PTL DEF Spec

(***************************************************************************)
(* The stream of the day's file may be ahead of cday by a module's file    *)
(* that could not be opened; the next tick sets it right.                  *)
(***************************************************************************)
StreamAhead ==
  stat /\ cday # NoFile => open[Dstat] \in {cday, Day(curr_timestamp)}

(***************************************************************************)
(* The stream is the day's file.                                           *)
(***************************************************************************)
LEMMA StreamStep ==
  ASSUME NobodySharesTm, Inv, StreamAhead, [Next]_vars
  PROVE  StreamAhead'
<1>1. Dstat \in Names /\ Used(Dstat)
  BY StatWriterAssumption DEF Dstat, Names, Used
<1>2. CASE UNCHANGED vars \/ CountPacket \/ SampleWeight
  BY <1>2 DEF StreamAhead, vars, sharedVars, fileVars, CountPacket,
              SampleWeight, Day
<1>3. CASE Restart
  BY <1>3 DEF Restart, FreshProcess, StreamAhead
<1>4. CASE Tick
  <2>1. CASE ~stat
    BY <1>4, <2>1 DEF Tick, sharedVars, StreamAhead
  <2>2. CASE stat
    <3>1. PICK t \in Nat :
             /\ t = curr_timestamp + 1 /\ curr_timestamp' = t
             /\ \/ SameDay(t)
                \/ /\ cday # Day(t)
                   /\ \/ NoDayFile(Day(t)) \/ NoChartFile(Day(t))
                      \/ NewDay(Day(t), t)
      BY <1>4, <2>2, TickOutcomes
    <3>2. Day(curr_timestamp)' = Day(t)
      BY <3>1 DEF Day
    <3>3. CASE SameDay(t)
      <4>1. cday = Day(curr_timestamp) /\ UNCHANGED <<cday, open>>
        BY <2>2, <3>1, <3>3, SameDayStep
      <4>2. open[Dstat] = cday
        BY <1>1, <2>2, <4>1 DEF Inv, OpenOK
      <4> QED
        BY <4>1, <4>2 DEF StreamAhead
    <3>4. CASE NoDayFile(Day(t))
      BY <3>4 DEF NoDayFile, StreamAhead
    <3>5. CASE NoChartFile(Day(t))
      <4>1. PICK m \in Log!Modules : open' = Streams(Day(t), 0 .. m - 1)
        BY <3>5 DEF NoChartFile
      <4>2. m \in 1 .. NModules
        BY DEF Log!Modules
      <4>3. Dstat \in 0 .. m - 1
        BY <4>2, StatWriterAssumption DEF Dstat
      <4>4. open'[Dstat] = Day(t)
        BY <1>1, <4>1, <4>3 DEF Streams
      <4> QED
        BY <3>2, <4>4 DEF StreamAhead
    <3>6. CASE NewDay(Day(t), t)
      <4>1. cday' = Day(t) /\ open'[Dstat] = Day(t)
        BY <1>1, <3>6, NewDayFacts
      <4> QED
        BY <4>1 DEF StreamAhead
    <3> QED
      BY <3>1, <3>3, <3>4, <3>5, <3>6
  <2> QED
    BY <2>1, <2>2
<1> QED
  BY <1>2, <1>3, <1>4 DEF Next

LEMMA StreamsAreOpen ==
  ASSUME Inv, StreamAhead
  PROVE  StreamsOpen
<1>1. ASSUME stat, cday # NoFile, cday = Day(curr_timestamp + 1)
      PROVE  cday = Day(curr_timestamp)
  <2>1. /\ Day(curr_timestamp) \in Nat /\ Day(curr_timestamp + 1) \in Nat
        /\ Day(curr_timestamp) <= Day(curr_timestamp + 1)
        /\ cday <= Day(curr_timestamp)
    BY <1>1, DayFacts DEF Inv, DayOK
  <2> QED
    BY <1>1, <2>1
<1> QED
  BY <1>1 DEF Inv, OpenOK, StreamAhead, StreamsOpen, Used

(***************************************************************************)
(* Whatever fails to open, stat_write never uses a stream that is closed or*)
(* of another day.                                                         *)
(***************************************************************************)
THEOREM StreamsStayOpen ==
  ASSUME NobodySharesTm
  PROVE  Spec => []StreamsOpen
<1>1. Init => Inv /\ StreamAhead
  BY InvStarts DEF Init, StreamAhead
<1>2. Inv /\ StreamAhead /\ [Next]_vars => Inv' /\ StreamAhead'
  BY InvStep, StreamStep
<1>3. Inv /\ StreamAhead => StreamsOpen
  BY StreamsAreOpen
<1> QED
  BY <1>1, <1>2, <1>3, PTL DEF Spec

-----------------------------------------------------------------------------
(***************************************************************************)
(* Only a day's first record changes what files there are.                 *)
(***************************************************************************)
LEMMA OldFilesStep ==
  ASSUME NobodySharesTm, "list" \notin Faults, Inv, OldFilesGo, [Next]_vars
  PROVE  OldFilesGo'
<1>1. CASE UNCHANGED vars \/ CountPacket \/ SampleWeight
  BY <1>1 DEF OldFilesGo, vars, sharedVars, fileVars, CountPacket,
              SampleWeight, Day
<1>2. CASE Restart
  <2>1. cday' = NoFile /\ curr_timestamp' \in Nat
    BY <1>2, StatWriterAssumption DEF Restart, FreshProcess, Inv
  <2>2. Day(curr_timestamp)' \in Nat
    <3>1. \A t \in Nat : t \div DayLen \in Nat
      BY StatWriterAssumption
    <3> QED
      BY <2>1, <3>1 DEF Day
  <2> QED
    BY <2>1, <2>2 DEF OldFilesGo, NoFile
<1>3. CASE Tick
  <2>1. CASE ~stat
    BY <1>3, <2>1 DEF Tick, sharedVars, OldFilesGo
  <2>2. CASE stat
    <3>1. PICK t \in Nat :
             /\ t = curr_timestamp + 1 /\ curr_timestamp' = t
             /\ \/ SameDay(t)
                \/ /\ cday # Day(t)
                   /\ \/ NoDayFile(Day(t)) \/ NoChartFile(Day(t))
                      \/ NewDay(Day(t), t)
      BY <1>3, <2>2, TickOutcomes
    <3>2. Day(curr_timestamp)' = Day(t)
      BY <3>1 DEF Day
    <3>3. CASE SameDay(t)
      <4>1. cday = Day(curr_timestamp) /\ UNCHANGED <<cday, files, stat>>
        BY <2>2, <3>1, <3>3, SameDayStep
      <4> QED
        BY <2>2, <4>1 DEF OldFilesGo
    <3>4. CASE cday # Day(t) /\ (NoDayFile(Day(t)) \/ NoChartFile(Day(t)))
      BY <3>2, <3>4 DEF NoDayFile, NoChartFile, OldFilesGo
    <3>5. CASE NewDay(Day(t), t)
      <4>1. /\ cday' = Day(t)
            /\ \A f \in files' : f.day \in Int /\ Day(t) - f.day <= KeepStat
        BY <3>5, NewDayFacts
      <4>2. Day(t) \in Nat /\ KeepStat \in Nat
        BY DayFacts, StatWriterAssumption
      <4> QED
        BY <4>1, <4>2 DEF OldFilesGo
    <3> QED
      BY <3>1, <3>3, <3>4, <3>5
  <2> QED
    BY <2>1, <2>2
<1> QED
  BY <1>1, <1>2, <1>3 DEF Next

(***************************************************************************)
(* stat_remove_old leaves no file older than keep_stat days behind the     *)
(* first record of a day, over restarts and whatever cannot be opened, as  *)
(* long as the directory can be listed.                                    *)
(***************************************************************************)
THEOREM OldFilesAreRemoved ==
  ASSUME NobodySharesTm, "list" \notin Faults
  PROVE  Spec => []OldFilesGo
<1>1. Init => Inv /\ OldFilesGo
  BY InvStarts DEF Init, OldFilesGo
<1>2. Inv /\ OldFilesGo /\ [Next]_vars => Inv' /\ OldFilesGo'
  BY InvStep, OldFilesStep
<1> QED
  BY <1>1, <1>2, PTL DEF Spec

(***************************************************************************)
(* A record that goes is overwritten in place or goes with an old file.    *)
(***************************************************************************)
LEMMA HistoryStep ==
  ASSUME NobodySharesTm, Inv, [Next]_vars, NEW r \in disk \ disk'
  PROVE  Replaced(r) \/ Day(curr_timestamp') - Day(r.second) > KeepStat
<1>1. Tick /\ stat
  BY DEF Next, vars, fileVars, Restart, CountPacket, SampleWeight, Tick
<1>2. PICK t \in Nat :
         /\ t = curr_timestamp + 1 /\ curr_timestamp' = t
         /\ \/ SameDay(t)
            \/ /\ cday # Day(t)
               /\ \/ NoDayFile(Day(t)) \/ NoChartFile(Day(t))
                  \/ NewDay(Day(t), t)
  BY <1>1, TickOutcomes
<1>3. Inv'
  BY InvStep
<1>4. r.file \in files /\ r.file.day = Day(r.second)
  BY DEF Inv, DiskOK, RecordsInPlace
<1>5. CASE SameDay(t)
  <2>1. WriteRecords(open, Day(t) * DayLen, t) /\ UNCHANGED files
    BY <1>1, <1>2, <1>5, SameDayStep
  <2> QED
    BY <1>3, <1>4, <2>1, WriteReplaces DEF Inv
<1>6. CASE NoDayFile(Day(t)) \/ NoChartFile(Day(t))
  BY <1>6 DEF NoDayFile, NoChartFile
<1>7. CASE NewDay(Day(t), t)
  <2>1. /\ WriteRecords(open', Day(t) * DayLen, t)
        /\ \A f \in files \ files' : Day(t) - f.day > KeepStat
    BY <1>7, NewDayFacts
  <2>2. r.file \notin files' \/ Replaced(r)
    BY <1>3, <2>1, WriteReplaces DEF Inv
  <2> QED
    BY <1>2, <1>4, <2>1, <2>2
<1> QED
  BY <1>2, <1>5, <1>6, <1>7

(***************************************************************************)
(* stat_write and stat_remove_old lose no record of the last keep_stat     *)
(* days, whatever fails: what goes is too old, or its place is taken by the*)
(* same second's record.                                                   *)
(***************************************************************************)
THEOREM HistoryIsKept ==
  ASSUME NobodySharesTm
  PROVE  Spec => KeepsHistory
<1>1. Inv /\ [Next]_vars => Inv'
  BY InvStep
<1>2. Inv /\ [Next]_vars =>
        [\A r \in disk \ disk' :
           Replaced(r) \/ Day(curr_timestamp') - Day(r.second) > KeepStat]_vars
  BY HistoryStep
<1> QED
  BY InvStarts, <1>1, <1>2, PTL DEF Spec, KeepsHistory

-----------------------------------------------------------------------------
(***************************************************************************)
(* What follows holds whoever writes to the struct tm of stat_write. The   *)
(* day found in it is then the day of t or, west of UTC, the one before.   *)
(***************************************************************************)
LEMMA DaysOfTm ==
  ASSUME NEW t \in Nat, t >= StartTime, NEW d \in TmDays(t)
  PROVE  /\ d \in 0 .. Day(t)
         /\ d * DayLen \in 0 .. t
         /\ (t - (d * DayLen)) \div DayLen <= KeepStat
<1>1. DayLen \in Nat \ {0} /\ WestOfUTC \in 0 .. DayLen - 1 /\ WestOfUTC <= t
  BY StatWriterAssumption
<1>2. PICK w \in 0 .. DayLen - 1 : w <= t /\ d = Day(t - w)
  BY <1>1 DEF TmDays
<1> DEFINE s == t - w
           r == s % DayLen
<1>3. s \in Nat /\ d = s \div DayLen
  BY <1>2 DEF Day
<1>4. d \in Nat /\ r \in 0 .. DayLen - 1 /\ s = d * DayLen + r
  BY <1>1, <1>3
<1>5. d * DayLen \in Nat
  BY <1>1, <1>4
<1> HIDE DEF r
<1>6. /\ d * DayLen \in 0 .. t
      /\ t - (d * DayLen) \in 0 .. 2 * DayLen - 1
  BY <1>1, <1>2, <1>4, <1>5
<1>7. ASSUME NEW x \in 0 .. 2 * DayLen - 1
      PROVE  x \div DayLen \in {0, 1}
  BY <1>1, <1>7
<1>8. (t - (d * DayLen)) \div DayLen \in {0, 1}
  BY <1>6, <1>7
<1>9. Day(t) - d \in {0, 1}
  BY <1>4, <1>8, DaysBetween
<1>10. Day(t) \in Nat
  BY DayFacts
<1> QED
  BY <1>4, <1>6, <1>8, <1>9, <1>10, StatWriterAssumption

(***************************************************************************)
(* The inductive invariant of TypeOK: the streams that the next record     *)
(* goes to belong to files, and the records of this process are of seconds *)
(* that have passed, so that the next one is none of them.                 *)
(***************************************************************************)
SwitchesOK == stat \in BOOLEAN /\ wchart \in BOOLEAN

CountersOK ==
  /\ stat_info \in [Log!Counters -> 0 .. U32 - 1]
  /\ samples \in [Log!Modules -> Nat]

ClockOK ==
  /\ curr_timestamp \in Nat /\ curr_timestamp >= StartTime
  /\ cday \in DaysUntil(curr_timestamp)
  /\ daystart \in 0 .. curr_timestamp
  /\ restarts \in 0 .. MaxRestarts

StreamsOK ==
  /\ open \in [Names -> DaysUntil(curr_timestamp)]
  /\ files \subseteq [name : Names, day : Nat]
  /\ stat /\ cday # NoFile =>
       \A n \in Names : Used(n) => File(n, open[n]) \in files

RecordsOK == \A r \in disk : r.file \in files /\ r.offset \in Nat

WrittenOK ==
  /\ IsFiniteSet(written)
  /\ \A r \in written : /\ r.offset \in Nat
                        /\ r.second \in Nat /\ r.second <= curr_timestamp
                        /\ r.info \in [Log!Counters -> Nat]

TInv == SwitchesOK /\ CountersOK /\ ClockOK /\ StreamsOK /\ RecordsOK /\ WrittenOK

(***************************************************************************)
(* The ways in which stat_write can end.                                   *)
(***************************************************************************)
LEMMA StatWriteOutcomes ==
  ASSUME TInv, Tick, stat
  PROVE  \E t \in Nat :
           /\ t = curr_timestamp + 1 /\ curr_timestamp' = t
           /\ t >= StartTime
           /\ \/ SameDay(t)
              \/ \E day \in TmDays(t) \ {cday} :
                   NoDayFile(day) \/ NoChartFile(day) \/ NewDay(day, t)
<1>1. curr_timestamp' = curr_timestamp + 1 /\ curr_timestamp \in Nat
      /\ curr_timestamp >= StartTime /\ StatWrite(curr_timestamp')
  BY DEF Tick, TInv, ClockOK
<1>2. PICK t \in Nat : t = curr_timestamp + 1 /\ curr_timestamp' = t
  BY <1>1
<1>3. StatWrite(t) /\ t >= StartTime
  BY <1>1, <1>2, StatWriterAssumption
<1> QED
  BY <1>2, <1>3 DEF StatWrite

(***************************************************************************)
(* A record is written: it is a new one, and holds the counters.           *)
(***************************************************************************)
DayRecord(streams, base, t) ==
  Record(File(Dstat, streams[Dstat]), t - base, t, stat_info)

(***************************************************************************)
(* Writing keeps files and records of their types.                         *)
(***************************************************************************)
LEMMA WriteKeepsTypes ==
  ASSUME TInv, NEW streams, NEW t \in Nat, t = curr_timestamp + 1,
         curr_timestamp' = t, NEW base \in 0 .. t,
         WriteRecords(streams, base, t),
         \A n \in Names : Used(n) => File(n, streams[n]) \in files'
  PROVE  /\ RecordsOK' /\ WrittenOK'
         /\ written' = written \cup {DayRecord(streams, base, t)}
         /\ DayRecord(streams, base, t) \notin written
<1> DEFINE z == DayRecord(streams, base, t)
           names == IF wchart THEN Names ELSE {Dstat}
           new == {Record(File(n, streams[n]), Position(base, t), t,
                          IF n = Dstat THEN stat_info ELSE Log!NoTraffic)
                    : n \in names}
<1>1. /\ z.offset \in Nat /\ z.second = t /\ z.info = stat_info
  BY DEF DayRecord, Record
<1>2. {r \in new : r.file.name = Dstat} = {z}
  <2>1. Dstat \in names
    BY StatWriterAssumption DEF Names, Dstat
  <2>2. \A n \in names : LET r == Record(File(n, streams[n]), Position(base, t), t,
                          IF n = Dstat THEN stat_info ELSE Log!NoTraffic)
                         IN  /\ r.file.name = n
                             /\ n = Dstat => r = z
    BY DEF DayRecord, Record, File, Position
  <2> QED
    BY <2>1, <2>2
<1>3. written' = written \cup {z}
  BY <1>2 DEF WriteRecords
<1>4. z \notin written
  BY <1>1 DEF TInv, ClockOK, WrittenOK
<1>5. WrittenOK'
  <2>1. IsFiniteSet(written')
    BY <1>3, FS_AddElement DEF TInv, WrittenOK
  <2>2. stat_info \in [Log!Counters -> Nat]
    BY StatWriterAssumption DEF TInv, CountersOK
  <2>3. \A r \in written : r.second <= t
    BY DEF TInv, WrittenOK, ClockOK
  <2> HIDE DEF z
  <2> QED
    BY <1>1, <1>3, <2>1, <2>2, <2>3 DEF TInv, WrittenOK
<1>6. ASSUME NEW r \in disk'
      PROVE  r.file \in files' /\ r.offset \in Nat
  <2>1. CASE r \in disk /\ r.file \in files'
    BY <2>1 DEF TInv, RecordsOK
  <2>2. CASE IsNew(r, streams, base, t)
    <3>1. PICK n \in Names : /\ Used(n)
                             /\ r = Record(File(n, streams[n]), t - base, t, r.info)
      BY <2>2 DEF IsNew
    <3>2. r.file = File(n, streams[n]) /\ r.offset = t - base
      BY <3>1 DEF Record
    <3> QED
      BY <3>1, <3>2
  <2> QED
    BY <1>6, <2>1, <2>2, WhatIsWritten
<1> QED
  BY <1>3, <1>4, <1>5, <1>6 DEF RecordsOK

(***************************************************************************)
(* Both ways to a record: the streams it goes to belong to files.          *)
(***************************************************************************)
LEMMA SameDayTypes ==
  ASSUME TInv, stat, NEW t \in Nat, t = curr_timestamp + 1,
         curr_timestamp' = t, t >= StartTime, SameDay(t)
  PROVE  /\ cday # NoFile
         /\ WriteRecords(open, daystart, t) /\ daystart \in 0 .. t
         /\ \A n \in Names : Used(n) => File(n, open[n]) \in files'
         /\ UNCHANGED <<cday, daystart, open, files, stat, wchart>>
<1>1. /\ cday \in TmDays(t) /\ WriteRecords(open, daystart, t)
      /\ UNCHANGED <<cday, daystart, open, files, stat, wchart>>
  BY DEF SameDay, WriteRecords
<1>2. cday # NoFile
  BY <1>1, DaysOfTm DEF NoFile
<1>3. daystart \in 0 .. t
  BY DEF TInv, ClockOK
<1>4. \A n \in Names : Used(n) => File(n, open[n]) \in files'
  BY <1>1, <1>2 DEF TInv, StreamsOK
<1> QED
  BY <1>1, <1>2, <1>3, <1>4

LEMMA NewDayTypes ==
  ASSUME TInv, NEW t \in Nat, t = curr_timestamp + 1, t >= StartTime,
         NEW day \in TmDays(t), NewDay(day, t)
  PROVE  /\ cday' = day /\ daystart' \in 0 .. t
         /\ WriteRecords(open', daystart', t)
         /\ open' \in [Names -> DaysUntil(t)]
         /\ files' \subseteq [name : Names, day : Nat]
         /\ \A n \in Names : Used(n) => File(n, open'[n]) \in files'
         /\ UNCHANGED <<stat, wchart>>
<1> DEFINE opened == IF wchart THEN Names ELSE {Dstat}
           created == Created(day, opened)
<1>1. /\ cday' = day /\ open' = Streams(day, opened)
      /\ RemoveOld(created, t) /\ WriteRecords(open', daystart', t)
      /\ UNCHANGED <<stat, wchart>>
  BY DEF NewDay, WriteRecords
<1>2. daystart' \in 0 .. t
  BY DEF NewDay, TmStarts
<1>3. /\ opened \subseteq Names /\ Dstat \in opened
      /\ \A n \in Names : Used(n) => n \in opened
  BY StatWriterAssumption DEF Names, Dstat, Used
<1>4. day \in Nat /\ day \in 0 .. Day(t)
  BY DaysOfTm
<1>5. open' \in [Names -> DaysUntil(t)]
  <2>1. wchart \/ \A n \in Names : n \in opened \/ open[n] \in DaysUntil(t)
    <3>1. Day(curr_timestamp) <= Day(t) /\ Day(curr_timestamp) \in Nat
          /\ Day(t) \in Nat
      BY DayFacts DEF TInv, ClockOK
    <3> QED
      BY <3>1 DEF TInv, StreamsOK, DaysUntil
  <2> HIDE DEF opened
  <2> QED
    BY <1>1, <1>4, <2>1 DEF Streams, DaysUntil
<1>6. \A n \in Names : Used(n) => open'[n] = day
  BY <1>1, <1>3 DEF Streams
<1>7. /\ created \subseteq [name : Names, day : Nat]
      /\ \A n \in Names : Used(n) => File(n, day) \in created
  BY <1>3, <1>4 DEF TInv, StreamsOK, Created, File
<1>8. files' \subseteq created
      /\ \A f \in created : ~TooOld(f, t) => f \in files'
  BY <1>1 DEF RemoveOld
<1>9. \A n \in Names : ~TooOld(File(n, day), t)
  <2>1. (t - (day * DayLen)) \div DayLen <= KeepStat
    BY DaysOfTm
  <2>2. (t - (day * DayLen)) \div DayLen \in Int
    BY <1>4, StatWriterAssumption
  <2> QED
    BY <2>1, <2>2, StatWriterAssumption DEF TooOld, File
<1> HIDE DEF created
<1> QED
  BY <1>1, <1>2, <1>5, <1>6, <1>7, <1>8, <1>9

(***************************************************************************)
(* A tick of the statistics thread.                                        *)
(***************************************************************************)
LEMMA ClockAdvances ==
  ASSUME TInv, NEW t \in Nat, t = curr_timestamp + 1, curr_timestamp' = t
  PROVE  /\ Day(curr_timestamp) \in Nat /\ Day(curr_timestamp)' = Day(t)
         /\ DaysUntil(curr_timestamp) \subseteq DaysUntil(t)
         /\ DaysUntil(curr_timestamp)' = DaysUntil(t)
         /\ t >= StartTime
<1>1. curr_timestamp \in Nat
  BY DEF TInv, ClockOK
<1>2. /\ Day(curr_timestamp) \in Nat /\ Day(t) \in Nat
      /\ Day(curr_timestamp) <= Day(t)
  BY <1>1, DayFacts
<1> QED
  BY <1>1, <1>2, StatWriterAssumption DEF TInv, ClockOK, DaysUntil, Day

LEMMA TickTypes ==
  ASSUME TInv, Tick
  PROVE  TInv'
<1>1. PICK t \in Nat : t = curr_timestamp + 1 /\ curr_timestamp' = t
  BY DEF Tick, TInv, ClockOK
<1>2. /\ DaysUntil(curr_timestamp) \subseteq DaysUntil(t)
      /\ DaysUntil(curr_timestamp)' = DaysUntil(t)
      /\ t >= StartTime
      /\ restarts' = restarts
  BY <1>1, ClockAdvances DEF Tick
<1>3. ASSUME UNCHANGED <<daystart, disk, written>>,
             cday' \in DaysUntil(t),
             open' \in [Names -> DaysUntil(t)],
             files' \subseteq [name : Names, day : Nat],
             files \subseteq files'
      PROVE  RecordsOK' /\ WrittenOK' /\ ClockOK'
             /\ StreamsOK' = (stat' /\ cday' # NoFile =>
                   \A n \in Names : Used(n)' => File(n, open'[n]) \in files')
  <2>1. RecordsOK'
    BY <1>3 DEF TInv, RecordsOK
  <2>2. WrittenOK'
    BY <1>1, <1>3 DEF TInv, WrittenOK, ClockOK
  <2>3. ClockOK'
    BY <1>1, <1>2, <1>3 DEF TInv, ClockOK
  <2>4. StreamsOK' = (stat' /\ cday' # NoFile =>
           \A n \in Names : Used(n)' => File(n, open'[n]) \in files')
    BY <1>2, <1>3 DEF StreamsOK, File
  <2> QED
    BY <2>1, <2>2, <2>3, <2>4
<1>4. CASE ~stat
  <2>1. UNCHANGED <<sharedVars, fileVars>>
    BY <1>4 DEF Tick
  <2>2. RecordsOK' /\ WrittenOK' /\ ClockOK' /\ StreamsOK'
    BY <1>2, <1>3, <1>4, <2>1 DEF TInv, ClockOK, StreamsOK, sharedVars, fileVars
  <2>3. SwitchesOK' /\ CountersOK'
    BY <2>1 DEF TInv, SwitchesOK, CountersOK, sharedVars
  <2> QED
    BY <2>2, <2>3 DEF TInv
<1>5. CASE stat
  <2>1. \/ SameDay(t)
        \/ \E day \in TmDays(t) \ {cday} :
             NoDayFile(day) \/ NoChartFile(day) \/ NewDay(day, t)
    BY <1>1, <1>5, StatWriteOutcomes
  <2>2. ASSUME NEW base, NEW streams, WriteRecords(streams, base, t)
        PROVE  SwitchesOK' /\ CountersOK'
    BY <2>2, StatWriterAssumption
       DEF WriteRecords, ClearCounters, TInv, SwitchesOK, CountersOK,
           Log!NoTraffic, Log!NoSamples
  <2>3. CASE SameDay(t)
    <3>1. /\ WriteRecords(open, daystart, t) /\ daystart \in 0 .. t
          /\ \A n \in Names : Used(n) => File(n, open[n]) \in files'
          /\ UNCHANGED <<cday, daystart, open, files, stat, wchart>>
      BY <1>1, <1>2, <1>5, <2>3, SameDayTypes
    <3>2. RecordsOK' /\ WrittenOK'
      BY <1>1, <3>1, WriteKeepsTypes
    <3>3. ClockOK'
      BY <1>1, <1>2, <3>1 DEF TInv, ClockOK
    <3>4. StreamsOK'
      BY <1>2, <3>1 DEF TInv, StreamsOK, Used, File
    <3> QED
      BY <2>2, <3>1, <3>2, <3>3, <3>4 DEF TInv
  <2>4. ASSUME NEW day \in TmDays(t), NewDay(day, t)
        PROVE  TInv'
    <3>1. /\ cday' = day /\ daystart' \in 0 .. t
          /\ WriteRecords(open', daystart', t)
          /\ open' \in [Names -> DaysUntil(t)]
          /\ files' \subseteq [name : Names, day : Nat]
          /\ \A n \in Names : Used(n) => File(n, open'[n]) \in files'
          /\ UNCHANGED <<stat, wchart>>
      BY <1>1, <1>2, <2>4, NewDayTypes
    <3>2. RecordsOK' /\ WrittenOK'
      BY <1>1, <3>1, WriteKeepsTypes
    <3>3. ClockOK'
      BY <1>1, <1>2, <3>1, DaysOfTm DEF TInv, ClockOK, DaysUntil
    <3>4. StreamsOK'
      BY <1>2, <3>1 DEF StreamsOK, Used, File
    <3> QED
      BY <2>2, <3>1, <3>2, <3>3, <3>4 DEF TInv
  <2>5. ASSUME NEW day \in TmDays(t), NoDayFile(day)
        PROVE  TInv'
    <3>1. /\ stat' = FALSE /\ open' = Streams(day, {})
          /\ UNCHANGED <<wchart, stat_info, samples, daystart, cday, files,
                         disk, written>>
      BY <2>5 DEF NoDayFile
    <3>2. open' \in [Names -> DaysUntil(t)]
      BY <1>2, <3>1 DEF Streams, DaysUntil, TInv, StreamsOK
    <3>3. RecordsOK' /\ WrittenOK' /\ ClockOK' /\ StreamsOK'
      BY <1>2, <1>3, <3>1, <3>2 DEF TInv, ClockOK, StreamsOK
    <3>4. SwitchesOK' /\ CountersOK'
      BY <3>1 DEF TInv, SwitchesOK, CountersOK
    <3> QED
      BY <3>3, <3>4 DEF TInv
  <2>6. ASSUME NEW day \in TmDays(t), NoChartFile(day)
        PROVE  TInv'
    <3>1. PICK m \in Log!Modules : /\ open' = Streams(day, 0 .. m - 1)
                                   /\ files' = Created(day, 0 .. m - 1)
      BY <2>6 DEF NoChartFile
    <3>2. /\ wchart' = FALSE
          /\ UNCHANGED <<stat, stat_info, samples, cday, daystart, disk, written>>
      BY <2>6 DEF NoChartFile
    <3>3. Dstat \in 0 .. m - 1 /\ 0 .. m - 1 \subseteq Names /\ Dstat \in Names
      BY StatWriterAssumption DEF Log!Modules, Names, Dstat
    <3>4. day \in Nat /\ day \in 0 .. Day(t)
      BY <1>2, DaysOfTm
    <3>5. open' \in [Names -> DaysUntil(t)]
      BY <1>2, <3>1, <3>4 DEF Streams, DaysUntil, TInv, StreamsOK
    <3>6. /\ files' \subseteq [name : Names, day : Nat]
          /\ files \subseteq files'
          /\ File(Dstat, day) \in files'
      BY <3>1, <3>3, <3>4 DEF Created, File, TInv, StreamsOK
    <3>7. open'[Dstat] = day
      BY <3>1, <3>3 DEF Streams
    <3>8. RecordsOK' /\ WrittenOK' /\ ClockOK' /\ StreamsOK'
      BY <1>2, <1>3, <3>2, <3>5, <3>6, <3>7 DEF TInv, ClockOK, Used
    <3>9. SwitchesOK' /\ CountersOK'
      BY <3>2 DEF TInv, SwitchesOK, CountersOK
    <3> QED
      BY <3>8, <3>9 DEF TInv
  <2> QED
    BY <2>1, <2>3, <2>4, <2>5, <2>6
<1> QED
  BY <1>4, <1>5

(***************************************************************************)
(* The steps of all threads, and of a new process.                         *)
(***************************************************************************)
LEMMA TypeInit == Init => TInv
<1> SUFFICES ASSUME Init PROVE TInv
  OBVIOUS
<1>1. SwitchesOK /\ CountersOK
  BY StatWriterAssumption
     DEF Init, SwitchesOK, CountersOK, Log!NoTraffic, Log!NoSamples
<1>2. ClockOK /\ RecordsOK
  BY StatWriterAssumption DEF Init, ClockOK, RecordsOK, DaysUntil
<1>3. StreamsOK
  BY DEF Init, StreamsOK, DaysUntil
<1>4. WrittenOK
  BY FS_EmptySet DEF Init, WrittenOK
<1> QED
  BY <1>1, <1>2, <1>3, <1>4 DEF TInv

(***************************************************************************)
(* Counters wrap at 32 bits.                                               *)
(***************************************************************************)
LEMMA CountedIsTyped ==
  ASSUME CountersOK, SwitchesOK, NEW traffic \in [Log!Counters -> Nat],
         Log!Count(traffic)
  PROVE  stat_info' \in [Log!Counters -> 0 .. U32 - 1]
<1>1. \A a, b \in Nat : (a + b) % U32 \in 0 .. U32 - 1
  BY StatWriterAssumption
<1>2. \A c \in Log!Counters : stat_info[c] \in Nat
  BY StatWriterAssumption DEF CountersOK
<1>3. \A c \in Log!Counters : (stat_info[c] + traffic[c]) % U32 \in 0 .. U32 - 1
  BY <1>1, <1>2
<1> QED
  BY <1>3 DEF Log!Count, CountersOK

(***************************************************************************)
(* All steps keep the types.                                               *)
(***************************************************************************)
LEMMA TypeStep == TInv /\ [Next]_vars => TInv'
<1> SUFFICES ASSUME TInv, [Next]_vars PROVE TInv'
  OBVIOUS
<1>1. ASSUME UNCHANGED <<stat, wchart, fileVars, curr_timestamp, restarts>>
      PROVE  /\ SwitchesOK' /\ ClockOK' /\ StreamsOK' /\ RecordsOK'
             /\ WrittenOK'
  BY <1>1 DEF TInv, SwitchesOK, ClockOK, StreamsOK, RecordsOK, WrittenOK,
              fileVars, DaysUntil, Day, Used, File
<1>2. CASE UNCHANGED vars
  BY <1>1, <1>2 DEF vars, sharedVars, TInv, CountersOK
<1>3. CASE Tick
  BY <1>3, TickTypes
<1>4. CASE Restart
  <2>1. SwitchesOK' /\ CountersOK'
    BY <1>4, StatWriterAssumption
       DEF Restart, FreshProcess, SwitchesOK, CountersOK, Log!NoTraffic,
           Log!NoSamples
  <2>2. ClockOK'
    BY <1>4, StatWriterAssumption
       DEF Restart, FreshProcess, TInv, ClockOK, DaysUntil
  <2>3. StreamsOK' /\ RecordsOK'
    BY <1>4 DEF Restart, FreshProcess, TInv, StreamsOK, RecordsOK, DaysUntil
  <2>4. WrittenOK'
    BY <1>4, FS_EmptySet DEF Restart, FreshProcess, WrittenOK
  <2> QED
    BY <2>1, <2>2, <2>3, <2>4 DEF TInv
<1>5. CASE CountPacket
  <2>1. \A n \in Octets : /\ Log!Passed(n) \in [Log!Counters -> Nat]
                          /\ Log!Dropped(n) \in [Log!Counters -> Nat]
    BY StatWriterAssumption
       DEF Log!Passed, Log!Dropped, Log!NoTraffic, Log!Counters
  <2>2. stat_info' \in [Log!Counters -> 0 .. U32 - 1]
    BY <1>5, <2>1, CountedIsTyped DEF CountPacket, TInv
  <2> QED
    BY <1>1, <1>5, <2>2 DEF CountPacket, TInv, CountersOK
<1>6. CASE SampleWeight
  BY <1>1, <1>6 DEF SampleWeight, Log!Sample, TInv, CountersOK
<1> QED
  BY <1>2, <1>3, <1>4, <1>5, <1>6 DEF Next

-----------------------------------------------------------------------------
(***************************************************************************)
(* The sum of the records written, as module StatLog sees it.              *)
(***************************************************************************)
Ledger == [packets_pass |-> Total("packets_pass"),
           octets_pass  |-> Total("octets_pass"),
           packets_drop |-> Total("packets_drop"),
           octets_drop  |-> Total("octets_drop")]

(***************************************************************************)
(* The log's totals, counter by counter.                                   *)
(***************************************************************************)
LEMMA LedgerIs ==
  /\ Ledger = [c \in Log!Counters |-> Total(c)]
  /\ Ledger' = [c \in Log!Counters |-> Total(c)']
BY DEF Ledger, Log!Counters

(***************************************************************************)
(* Totals over sets of records.                                            *)
(***************************************************************************)
LEMMA TotalIs ==
  ASSUME NEW c
  PROVE  /\ Total(c) = SumFunctionOnSet([r \in written |-> r.info[c]], written)
         /\ Total(c)' =
              SumFunctionOnSet([r \in written' |-> r.info[c]], written')
BY DEF Total, SumFunction, SumFunctionOnSet, FoldFunction, FoldFunctionOnSet,
       MapThenFoldSet

LEMMA TotalIsNat ==
  ASSUME WrittenOK, NEW c \in Log!Counters
  PROVE  Total(c) \in Nat
<1> DEFINE info == [r \in written |-> r.info[c]]
<1>1. \A r \in written : info[r] \in Nat
  BY DEF WrittenOK
<1> HIDE DEF info
<1>2. SumFunctionOnSet(info, written) \in Nat
  BY <1>1, SumIsNat DEF WrittenOK
<1> QED
  BY <1>2, TotalIs DEF info

LEMMA TotalOfNone ==
  ASSUME written' = {}, NEW c
  PROVE  Total(c)' = 0
BY TotalIs, SumEmpty

LEMMA TotalGrows ==
  ASSUME WrittenOK, WrittenOK', NEW z, z \notin written,
         written' = written \cup {z}, NEW c \in Log!Counters
  PROVE  Total(c)' = Total(c) + z.info[c]
<1> DEFINE f == [r \in written |-> r.info[c]]
           g == [r \in written' |-> r.info[c]]
<1>1. /\ \A r \in written' : g[r] \in Int
      /\ \A r \in written : f[r] = g[r]
      /\ g[z] = z.info[c]
  BY DEF WrittenOK
<1>2. IsFiniteSet(written)
  BY DEF WrittenOK
<1>3. Total(c) = SumFunctionOnSet(f, written)
      /\ Total(c)' = SumFunctionOnSet(g, written')
  BY TotalIs
<1> HIDE DEF f, g
<1>4. SumFunctionOnSet(g, written \cup {z}) =
        SumFunctionOnSet(g, written) + g[z]
  BY <1>1, <1>2, SumNewMember
<1>5. SumFunctionOnSet(f, written) = SumFunctionOnSet(g, written)
  BY <1>1, <1>2, SumSame
<1> QED
  BY <1>1, <1>3, <1>4, <1>5

(***************************************************************************)
(* Every step of the files is one of the statistics', or none.             *)
(***************************************************************************)
LEMMA LogStarts == Init => Log!StatInit
<1> SUFFICES ASSUME Init PROVE Log!StatInit
  OBVIOUS
<1>1. \A c : Total(c) = 0
  BY TotalIs, SumEmpty DEF Init
<1>2. Ledger = Log!NoTraffic
  BY <1>1, LedgerIs DEF Log!NoTraffic
<1> QED
  BY <1>2 DEF Init, Log!StatInit, Ledger

(***************************************************************************)
(* A record written is an entry of the log.                                *)
(***************************************************************************)
LEMMA RecordIsLogged ==
  ASSUME TInv, stat, NEW streams, NEW t \in Nat, t = curr_timestamp + 1,
         curr_timestamp' = t, NEW base \in 0 .. t,
         WriteRecords(streams, base, t),
         \A n \in Names : Used(n) => File(n, streams[n]) \in files'
  PROVE  Log!WriteRecord
<1> DEFINE z == DayRecord(streams, base, t)
<1>1. /\ WrittenOK /\ WrittenOK'
      /\ written' = written \cup {z} /\ z \notin written
  BY WriteKeepsTypes DEF TInv
<1>2. z.info = stat_info
  BY DEF DayRecord, Record
<1> HIDE DEF z
<1>3. \A c \in Log!Counters : Total(c)' = Total(c) + stat_info[c]
  BY <1>1, <1>2, TotalGrows
<1>4. Ledger' = [c \in Log!Counters |-> Ledger[c] + stat_info[c]]
  BY <1>3, LedgerIs
<1> QED
  BY <1>4 DEF WriteRecords, ClearCounters, Log!WriteRecord, Ledger

LEMMA NothingLogged ==
  ASSUME UNCHANGED written
  PROVE  Ledger' = Ledger
BY DEF Ledger, Total

(***************************************************************************)
(* Each step is one of the log or leaves it alone.                         *)
(***************************************************************************)
LEMMA LogStep ==
  ASSUME TInv, [Next]_vars
  PROVE  [Log!CountingThreads \/ Log!StatThread \/ Log!StatInit']_(Log!statVars)
<1>1. ASSUME UNCHANGED <<sharedVars, written>>
      PROVE  UNCHANGED Log!statVars
  BY <1>1, NothingLogged DEF sharedVars, Log!statVars, Ledger
<1>2. CASE UNCHANGED vars
  BY <1>1, <1>2 DEF vars, fileVars
<1>3. CASE Tick /\ ~stat
  BY <1>1, <1>3 DEF Tick, fileVars
<1>4. CASE Tick /\ stat
  <2>1. PICK t \in Nat :
          /\ t = curr_timestamp + 1 /\ curr_timestamp' = t
          /\ t >= StartTime
          /\ \/ SameDay(t)
             \/ \E day \in TmDays(t) \ {cday} :
                  NoDayFile(day) \/ NoChartFile(day) \/ NewDay(day, t)
    BY <1>4, StatWriteOutcomes
  <2>2. CASE SameDay(t)
    <3>1. Log!WriteRecord
      BY <1>4, <2>1, <2>2, SameDayTypes, RecordIsLogged
    <3> QED
      BY <3>1 DEF Log!StatThread
  <2>3. ASSUME NEW day \in TmDays(t), NewDay(day, t)
        PROVE  Log!StatThread
    <3>1. /\ daystart' \in 0 .. t
          /\ WriteRecords(open', daystart', t)
          /\ \A n \in Names : Used(n) => File(n, open'[n]) \in files'
      BY <2>1, <2>3, NewDayTypes
    <3> DEFINE streams == open'
               base == daystart'
    <3>2. /\ base \in 0 .. t /\ WriteRecords(streams, base, t)
          /\ \A n \in Names : Used(n) => File(n, streams[n]) \in files'
      BY <3>1
    <3> HIDE DEF streams, base
    <3>3. Log!WriteRecord
      BY <1>4, <2>1, <3>2, RecordIsLogged
    <3> QED
      BY <3>3 DEF Log!StatThread
  <2>4. ASSUME NEW day, NoDayFile(day)
        PROVE  Log!StatThread
    <3>1. Ledger' = Ledger
      BY <2>4, NothingLogged DEF NoDayFile
    <3> QED
      BY <1>4, <2>4, <3>1 DEF NoDayFile, Log!StatThread, Log!StatOff, Ledger
  <2>5. ASSUME NEW day, NoChartFile(day)
        PROVE  Log!StatThread
    <3>1. Ledger' = Ledger
      BY <2>5, NothingLogged DEF NoChartFile
    <3> QED
      BY <1>4, <2>5, <3>1 DEF NoChartFile, Log!StatThread, Log!ChartOff, Ledger
  <2> QED
    BY <2>1, <2>2, <2>3, <2>4, <2>5
<1>5. CASE Restart
  <2>1. \A c : Total(c)' = 0
    BY <1>5, TotalOfNone DEF Restart, FreshProcess
  <2>2. Ledger' = Log!NoTraffic
    BY <2>1, LedgerIs DEF Log!NoTraffic
  <2>3. Log!StatInit'
    BY <1>5, <2>2 DEF Restart, FreshProcess, Log!StatInit, Ledger
  <2> QED
    BY <2>3
<1>6. CASE CountPacket
  <2>1. Ledger' = Ledger
    BY <1>6, NothingLogged DEF CountPacket, fileVars
  <2>2. \E n \in 0 .. U32 - 1 : Log!Count(Log!Passed(n))
                                \/ Log!Count(Log!Dropped(n))
    BY <1>6, StatWriterAssumption DEF CountPacket
  <2>3. UNCHANGED <<stat, wchart, samples>>
    BY <1>6 DEF CountPacket
  <2> QED
    BY <2>1, <2>2, <2>3 DEF Log!CountingThreads, Ledger
<1>7. CASE SampleWeight
  <2>1. Ledger' = Ledger
    BY <1>7, NothingLogged DEF SampleWeight, fileVars
  <2>2. \E m \in Log!Modules : Log!Sample(m)
    BY <1>7 DEF SampleWeight
  <2>3. UNCHANGED <<stat, wchart, stat_info>>
    BY <1>7 DEF SampleWeight
  <2> QED
    BY <2>1, <2>2, <2>3 DEF Log!CountingThreads, Ledger
<1> QED
  BY <1>2, <1>3, <1>4, <1>5, <1>6, <1>7 DEF Next

-----------------------------------------------------------------------------
(***************************************************************************)
(* The thread's day and streams are never ahead of its clock, no record is *)
(* written before the start of its file and none is in a file that was     *)
(* removed: with a shared struct tm as well.                               *)
(***************************************************************************)
THEOREM FilesTyped == Spec => []TypeOK
<1>1. TInv => TypeOK
  <2> SUFFICES ASSUME TInv PROVE TypeOK
    OBVIOUS
  <2>1. \A c \in Log!Counters : Total(c) \in Nat
    BY TotalIsNat DEF TInv
  <2>2. Ledger \in [Log!Counters -> Nat]
    BY <2>1, LedgerIs
  <2>3. Log!StatTypeOK
    BY <2>2 DEF TInv, SwitchesOK, CountersOK, Log!StatTypeOK, Ledger
  <2> QED
    BY <2>3 DEF TInv, ClockOK, StreamsOK, RecordsOK, WrittenOK, TypeOK
<1> QED
  BY <1>1, TypeInit, TypeStep, PTL DEF Spec

(***************************************************************************)
(* Over days, failing opens and restarts the statistics thread implements  *)
(* StatLog: what is counted is written once, or was counted after          *)
(* statistics were switched off.                                           *)
(***************************************************************************)
THEOREM LogIsImplemented == Spec => ImplementsStatLog
<1>1. TInv /\ [Next]_vars =>
        [Log!CountingThreads \/ Log!StatThread \/ Log!StatInit']_(Log!statVars)
  BY LogStep
<1> QED
  BY <1>1, LogStarts, TypeInit, TypeStep, PTL
     DEF Spec, ImplementsStatLog, Log!LogSpec

=============================================================================
