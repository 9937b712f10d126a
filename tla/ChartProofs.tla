------------------------------ MODULE ChartProofs ------------------------------
(***************************************************************************)
(* What a chart shows of the files of a running damper, for every length   *)
(* of a day, every request, any number of seconds and values of any size:  *)
(* the cursor returns each second's own record and skips none; every       *)
(* column shows the seconds whose lines touch it, and fits under the peak; *)
(* and the image made of them reaches the browser.                         *)
(***************************************************************************)
EXTENDS Chart, NumberLemmas

-----------------------------------------------------------------------------
(***************************************************************************)
(* Days: the one that a second belongs to, and no other.                   *)
(***************************************************************************)
LEMMA DayFacts ==
  ASSUME NEW s \in Nat
  PROVE  /\ Day(s) \in Nat
         /\ DayStart(Day(s)) <= s
         /\ s < DayStart(Day(s)) + DayLen
BY StatReaderAssumption DEF Day, DayStart

LEMMA DayIs ==
  ASSUME NEW s \in Nat, NEW d \in Int,
         DayStart(d) <= s, s < DayStart(d) + DayLen
  PROVE  Day(s) = d
<1>1. Day(s) \in Int /\ DayStart(Day(s)) <= s /\ s < DayStart(Day(s)) + DayLen
  BY DayFacts
<1>2. ASSUME NEW x \in Int, NEW y \in Int, x + 1 <= y
      PROVE  DayStart(x) + DayLen <= DayStart(y)
  BY <1>2, StatReaderAssumption DEF DayStart
<1>3. DayStart(d) \in Int /\ DayStart(Day(s)) \in Int /\ DayLen \in Nat
  BY <1>1, StatReaderAssumption DEF DayStart
<1>4. ~(Day(s) + 1 <= d) /\ ~(d + 1 <= Day(s))
  BY <1>1, <1>2, <1>3
<1> QED
  BY <1>1, <1>4

(***************************************************************************)
(* The disk: no record is from the future.                                 *)
(***************************************************************************)
DiskOK ==
  /\ now \in StartTime - 1 .. MaxTime
  /\ records \in [Seconds -> Values \cup {0}]
  /\ \A s \in Seconds : s > now => records[s] = 0

LEMMA ValuesAre ==
  Values \subseteq Nat \ {0}
BY StatReaderAssumption

LEMMA RecordedFacts ==
  ASSUME DiskOK
  PROVE  /\ Seconds \subseteq Nat
         /\ Recorded \subseteq Seconds
         /\ Linked \subseteq Nat
         /\ \A s \in Recorded : s <= now
<1>1. Seconds \subseteq Nat /\ Recorded \subseteq Seconds
  BY StatReaderAssumption DEF Seconds, Recorded
<1>2. Linked \subseteq Nat
  BY <1>1, DayFacts DEF Linked
<1>3. \A s \in Recorded : s <= now
  BY <1>1 DEF DiskOK, Recorded, Seconds
<1> QED
  BY <1>1, <1>2, <1>3

(***************************************************************************)
(* The size of a day's file: past the day's last record, and no further    *)
(* than the day.                                                           *)
(***************************************************************************)
LEMMA MaxOfDay ==
  ASSUME NEW R, R \subseteq Nat, NEW d \in Int
  PROVE  LET size == Max({0} \cup {s - DayStart(d) + 1 :
                                     s \in {r \in R : Day(r) = d}})
         IN  /\ size \in 0 .. DayLen
             /\ \A s \in R : Day(s) = d => s - DayStart(d) < size
             /\ \/ size = 0
                \/ \E s \in R : Day(s) = d /\ size = s - DayStart(d) + 1
<1> DEFINE S == {0} \cup {s - DayStart(d) + 1 : s \in {r \in R : Day(r) = d}}
<1>1. DayStart(d) \in Int /\ DayLen \in Nat
  BY StatReaderAssumption DEF DayStart
<1>2. \A s \in R : Day(s) = d => s - DayStart(d) \in 0 .. DayLen - 1
  BY <1>1, DayFacts
<1>3. S \subseteq 0 .. DayLen
  BY <1>1, <1>2
<1>4. Max(S) \in S /\ \A y \in S : Max(S) >= y
  BY <1>1, <1>3, MaxIs
<1>5. \A s \in R : Day(s) = d => s - DayStart(d) + 1 \in S
  OBVIOUS
<1>6. Max(S) = 0 \/ \E s \in R : Day(s) = d /\ Max(S) = s - DayStart(d) + 1
  <2> DEFINE m == Max(S)
  <2>1. m \in S
    BY <1>4
  <2> HIDE DEF m
  <2>2. m = 0 \/ \E s \in R : Day(s) = d /\ m = s - DayStart(d) + 1
    BY <2>1
  <2> QED
    BY <2>2 DEF m
<1> HIDE DEF S
<1>7. Max(S) \in 0 .. DayLen
  BY <1>3, <1>4
<1>8. ASSUME NEW s \in R, Day(s) = d
      PROVE  s - DayStart(d) < Max(S)
  <2>1. Max(S) >= s - DayStart(d) + 1
    BY <1>4, <1>5, <1>8
  <2>2. s - DayStart(d) \in Int /\ Max(S) \in Int
    BY <1>2, <1>7, <1>8
  <2> QED
    BY <1>1, <2>1, <2>2
<1> QED
  BY <1>6, <1>7, <1>8 DEF S

LEMMA SizeFacts ==
  ASSUME DiskOK, NEW d \in Int
  PROVE  /\ Size(d) \in 0 .. DayLen
         /\ \A s \in Recorded : Day(s) = d => s - DayStart(d) < Size(d)
<1>1. Recorded \subseteq Nat
  BY RecordedFacts
<1> QED
  BY <1>1, MaxOfDay DEF Size

-----------------------------------------------------------------------------
(***************************************************************************)
(* The cursor: its files are of days, its position in the open file is     *)
(* that of the next second, and what it has returned is of this second.    *)
(***************************************************************************)
OpenFileOK ==
  \/ f = NoFile
  \/ /\ f.day \in Int /\ f.pos \in Nat \ {0}
     /\ f.pos <= Size(f.day)
     /\ DayStart(f.day) + f.pos = t + 1

CursorOK ==
  /\ DiskOK
  /\ t \in Nat /\ p.start \in Nat
  /\ names \subseteq Nat /\ DOMAIN days \subseteq names
  /\ pc \in {"seek", "next"} => DOMAIN days = names
  /\ OpenFileOK
  /\ ReadsOwnSecond

(***************************************************************************)
(* Whatever is read at a second's offset, it is that second's record.      *)
(***************************************************************************)
LEMMA ReadKeeps ==
  ASSUME DiskOK, UNCHANGED diskVars,
         NEW d \in Int, NEW pos \in Nat \ {0}, t' \in Nat,
         DayStart(d) + pos = t', Read(d, pos)
  PROVE  OpenFileOK' /\ ReadsOwnSecond'
<1>1. DayStart(d) \in Int /\ Size(d)' = Size(d) /\ DayStart(d)' = DayStart(d)
  BY StatReaderAssumption
  DEF DayStart, Size, Recorded, diskVars, Day, Seconds
<1>2. Size(d) \in Nat
  BY SizeFacts
<1>3. CASE pos < Size(d)
  <2>1. f' = [day |-> d, pos |-> pos + 1]
        /\ info' = [second |-> t', value |-> RecordOf(DayStart(d) + pos)]
    BY <1>3 DEF Read
  <2>2. f.day' = d /\ f.pos' = pos + 1 /\ info.second' = t'
    BY <2>1
  <2> QED
    BY <1>1, <1>2, <1>3, <2>2 DEF OpenFileOK, ReadsOwnSecond
<1>4. CASE ~(pos < Size(d))
  BY <1>4 DEF Read, OpenFileOK, ReadsOwnSecond
<1> QED
  BY <1>3, <1>4

LEMMA FetchKeeps ==
  ASSUME DiskOK, UNCHANGED diskVars, UNCHANGED days,
         DOMAIN days \subseteq Nat, t' \in Nat, Fetch(t')
  PROVE  OpenFileOK' /\ ReadsOwnSecond'
<1>1. CASE info' = Zeros /\ f' = NoFile
  BY <1>1 DEF OpenFileOK, ReadsOwnSecond
<1>2. CASE \E d \in DOMAIN days : Covers(d, t') /\ Read(d, Offset(d, t'))
  <2>1. PICK d \in DOMAIN days : Covers(d, t') /\ Read(d, Offset(d, t'))
    BY <1>2
  <2>2. d \in Int /\ DayStart(d) \in Int
    BY StatReaderAssumption DEF DayStart
  <2>3. /\ Offset(d, t') \in Nat \ {0}
        /\ DayStart(d) + Offset(d, t') = t'
    BY <2>1, <2>2 DEF Offset, Covers
  <2> QED
    BY <2>1, <2>2, <2>3, ReadKeeps
<1> QED
  BY <1>1, <1>2 DEF Fetch

(***************************************************************************)
(* The cursor advances by one second, over the end of a file too.          *)
(***************************************************************************)
LEMMA NextKeeps ==
  ASSUME CursorOK, UNCHANGED diskVars, DOMAIN days \subseteq Nat, NextRecord
  PROVE  t' \in Nat /\ OpenFileOK' /\ ReadsOwnSecond'
<1>1. t' = t + 1 /\ t' \in Nat /\ UNCHANGED days
  BY DEF CursorOK, NextRecord
<1>2. CASE f = NoFile
  <2>1. Fetch(t')
    BY <1>2 DEF NextRecord
  <2> QED
    BY <1>1, <2>1, FetchKeeps DEF CursorOK
<1>3. CASE f # NoFile
  <2>1. /\ f.day \in Int /\ f.pos \in Nat \ {0}
        /\ DayStart(f.day) + f.pos = t'
        /\ Read(f.day, f.pos)
    BY <1>1, <1>3 DEF CursorOK, OpenFileOK, NextRecord
  <2> QED
    BY <1>1, <2>1, ReadKeeps DEF CursorOK
<1> QED
  BY <1>1, <1>2, <1>3

(***************************************************************************)
(* A request's parameters are numbers, of the query or found there.        *)
(***************************************************************************)
LEMMA ParamIsNat ==
  ASSUME NEW q \in Queries, NEW name, NEW default \in Nat
  PROVE  ParamOr(q, name, default) \in Nat
<1>1. q \in Seq([name : STRING, value : Nat, short : BOOLEAN])
  BY ChartAssumption
<1> DEFINE named == {i \in Parsed(q) : q[i].name = name}
<1>2. CASE named = {}
  BY <1>2 DEF ParamOr
<1>3. CASE named # {}
  <2>1. Len(q) \in Nat /\ DOMAIN q = 1 .. Len(q)
    BY <1>1
  <2>2. named \subseteq DOMAIN q /\ named \subseteq 0 .. Len(q)
    BY <2>1 DEF Parsed
  <2>3. Max(named) \in DOMAIN q
    <3> HIDE DEF named
    <3> QED
      BY <1>3, <2>1, <2>2, MaxIs
  <2>4. ParamOr(q, name, default) = q[Max(named)].value
    BY <1>3 DEF ParamOr
  <2> HIDE DEF named
  <2>5. q[Max(named)] \in [name : STRING, value : Nat, short : BOOLEAN]
    <3> DEFINE R == [name : STRING, value : Nat, short : BOOLEAN]
    <3>1. q \in Seq(R)
      BY <1>1
    <3> HIDE DEF R
    <3>2. q[Max(named)] \in R
      BY <2>1, <2>3, <3>1
    <3> QED
      BY <3>2 DEF R
  <2>6. q[Max(named)].value \in Nat
    BY <2>5
  <2> QED
    BY <2>4, <2>6
<1> QED
  BY <1>2, <1>3

(***************************************************************************)
(* What a query leaves in the parameters: numbers, and a width above 0.    *)
(***************************************************************************)
LEMMA RequestTyped ==
  ASSUME Request
  PROVE  p' \in [w : Nat, start : Nat, end : Nat] /\ p'.w > 0
<1>1. PICK q \in Queries, garbage \in GarbageRanges :
         p' = [w     |-> ParamOr(q, "w", 0),
               start |-> ParamOr(q, "start", garbage.start),
               end   |-> ParamOr(q, "end", garbage.end)]
  BY DEF Request
<1>2. garbage.start \in Nat /\ garbage.end \in Nat
  BY ChartAssumption
<1>3. p' \in [w : Nat, start : Nat, end : Nat]
  BY <1>1, <1>2, ParamIsNat
<1> QED
  BY <1>3 DEF Request

LEMMA DataStartIs ==
  ASSUME NEW ends, DOMAIN ends \subseteq Nat
  PROVE  DataStart(ends) \in Nat
<1> DEFINE S == {DayStart(d) : d \in DOMAIN ends}
<1>1. S \subseteq Nat
  BY StatReaderAssumption DEF DayStart
<1>2. DOMAIN ends # {} => S # {}
  OBVIOUS
<1> HIDE DEF S
<1>3. DOMAIN ends # {} => Min(S) \in Nat
  BY <1>1, <1>2, MinIs
<1> QED
  BY <1>3 DEF DataStart, S

(***************************************************************************)
(* A tick only lengthens the files, and of the records it changes none but *)
(* the last.                                                               *)
(***************************************************************************)
LEMMA TickKeepsDisk ==
  ASSUME DiskOK, Tick
  PROVE  /\ DiskOK' /\ now <= now'
         /\ \A s \in Seconds : s < now => records'[s] = records[s]
         /\ \A s \in Seconds : s < now /\ s \in Recorded' => s \in Recorded
         /\ Recorded \subseteq Recorded' /\ removed \subseteq removed'
<1>1. /\ now \in Int /\ now' \in Int /\ now <= now'
      /\ now' \in StartTime - 1 .. MaxTime
  BY StatReaderAssumption DEF DiskOK, Tick
<1>2. \/ records' = records
      \/ /\ now' \in Seconds
         /\ \E v \in Values : records' = [records EXCEPT ![now'] = v]
  BY <1>1, StatReaderAssumption DEF DiskOK, Tick, WriteRecord, Seconds
<1>3. removed \subseteq removed'
  BY DEF Tick, WriteRecord
<1>4. Seconds \subseteq Int
  BY StatReaderAssumption DEF Seconds
<1>5. CASE records' = records
  BY <1>1, <1>3, <1>4, <1>5 DEF DiskOK, Recorded, Seconds
<1>6. ASSUME NEW v \in Values, now' \in Seconds,
             records' = [records EXCEPT ![now'] = v]
      PROVE  /\ DiskOK'
             /\ \A s \in Seconds : s < now => records'[s] = records[s]
             /\ \A s \in Seconds : s < now /\ s \in Recorded' => s \in Recorded
             /\ Recorded \subseteq Recorded'
  <2>1. records' \in [Seconds -> Values \cup {0}]
    BY <1>6 DEF DiskOK
  <2>2. /\ \A s \in Seconds : s # now' => records'[s] = records[s]
        /\ records'[now'] = v /\ v # 0
    BY <1>6, StatReaderAssumption DEF DiskOK
  <2>3. \A s \in Seconds : s > now' => records'[s] = 0
    BY <1>1, <1>4, <2>2 DEF DiskOK
  <2>4. \A s \in Seconds : s < now => records'[s] = records[s]
    BY <1>1, <1>4, <2>2
  <2>5. Recorded \subseteq Recorded'
    BY <2>2 DEF Recorded, Seconds
  <2>6. \A s \in Seconds : s < now /\ s \in Recorded' => s \in Recorded
    BY <2>4 DEF Recorded, Seconds
  <2> QED
    BY <1>1, <2>1, <2>3, <2>4, <2>5, <2>6 DEF DiskOK, Seconds
<1> QED
  BY <1>1, <1>2, <1>3, <1>5, <1>6

(***************************************************************************)
(* Files only grow.                                                        *)
(***************************************************************************)
LEMMA TickKeepsSize ==
  ASSUME DiskOK, Tick, NEW d \in Int
  PROVE  /\ Size(d) <= Size(d)'
         /\ Size(d) \in Nat /\ Size(d)' \in Nat
<1>1. Recorded \subseteq Nat /\ Recorded' \subseteq Nat
  BY StatReaderAssumption DEF Recorded, Seconds
<1>2. Recorded \subseteq Recorded'
  BY TickKeepsDisk
<1>3. /\ Size(d) \in 0 .. DayLen
      /\ \/ Size(d) = 0
         \/ \E s \in Recorded : Day(s) = d /\ Size(d) = s - DayStart(d) + 1
  BY <1>1, MaxOfDay DEF Size
<1>4. /\ Size(d)' \in 0 .. DayLen
      /\ \A s \in Recorded' : Day(s) = d => s - DayStart(d) < Size(d)'
  BY <1>1, MaxOfDay DEF Size, Day, DayStart
<1>5. DayStart(d) \in Int /\ DayLen \in Nat
  BY StatReaderAssumption DEF DayStart
<1>6. CASE Size(d) = 0
  BY <1>4, <1>5, <1>6
<1>7. ASSUME NEW s \in Recorded, Day(s) = d, Size(d) = s - DayStart(d) + 1
      PROVE  Size(d) <= Size(d)'
  <2>1. s - DayStart(d) < Size(d)'
    BY <1>2, <1>4, <1>7
  <2> QED
    BY <1>1, <1>4, <1>5, <1>7, <2>1
<1>8. Size(d) \in Nat /\ Size(d)' \in Nat
  BY <1>3, <1>4, <1>5
<1> QED
  BY <1>3, <1>6, <1>7, <1>8

-----------------------------------------------------------------------------
LEMMA CursorStarts ==
  Init => CursorOK
<1> SUFFICES ASSUME Init PROVE CursorOK
  OBVIOUS
<1>1. now = StartTime - 1 /\ records = [s \in Seconds |-> 0]
  BY DEF Init, DiskInit
<1>2. p.start = 0 /\ t = 0 /\ f = NoFile /\ names = {} /\ info = Zeros
      /\ pc = "idle"
  BY DEF Init, CursorInit, NoRequest
<1>3. now \in StartTime - 1 .. MaxTime
  BY <1>1, StatReaderAssumption
<1>4. DOMAIN days = {}
  BY DEF Init, CursorInit, NoDays
<1> QED
  BY <1>1, <1>2, <1>3, <1>4 DEF CursorOK, DiskOK, OpenFileOK, ReadsOwnSecond

(***************************************************************************)
(* No step makes the cursor return another second's record.                *)
(***************************************************************************)
LEMMA CursorStep ==
  CursorOK /\ [Next]_vars => CursorOK'
<1> SUFFICES ASSUME CursorOK, [Next]_vars PROVE CursorOK'
  OBVIOUS
<1>1. ASSUME UNCHANGED diskVars
      PROVE  DiskOK' /\ \A d : Size(d)' = Size(d)
  BY <1>1 DEF CursorOK, DiskOK, Seconds, diskVars, Size, Recorded, DayStart, Day
<1>2. ASSUME UNCHANGED diskVars, UNCHANGED <<t, f, info>>
      PROVE  OpenFileOK' /\ ReadsOwnSecond'
  BY <1>1, <1>2 DEF CursorOK, OpenFileOK, ReadsOwnSecond, DayStart
<1>3. CASE UNCHANGED vars
  BY <1>1, <1>2, <1>3 DEF vars, sdVars, chartVars, CursorOK
<1>4. CASE Damper
  <2>1. /\ Tick
        /\ UNCHANGED <<names, days, t, f, info, p, pc>>
    BY <1>4 DEF Damper, Tick, sdVars, chartVars
  <2>2. DiskOK'
    BY <2>1, TickKeepsDisk DEF CursorOK
  <2>3. OpenFileOK'
    <3>1. CASE f = NoFile
      BY <2>1, <3>1 DEF OpenFileOK
    <3>2. CASE f # NoFile
      <4>1. /\ f.day \in Int /\ f.pos \in Nat \ {0}
            /\ f.pos <= Size(f.day)
            /\ DayStart(f.day) + f.pos = t + 1
        BY <3>2 DEF CursorOK, OpenFileOK
      <4>2. PICK d \in Int : d = f.day
        BY <4>1
      <4>3. Size(d) <= Size(d)' /\ Size(d) \in Nat /\ Size(d)' \in Nat
        BY <2>1, TickKeepsSize DEF CursorOK
      <4>4. f.pos <= Size(d)'
        BY <4>1, <4>2, <4>3
      <4>5. Size(f.day)' = Size(d)'
        BY <2>1, <4>2
      <4> QED
        BY <2>1, <4>1, <4>4, <4>5 DEF OpenFileOK, DayStart
    <3> QED
      BY <3>1, <3>2
  <2> QED
    BY <2>1, <2>2, <2>3 DEF CursorOK, ReadsOwnSecond
<1>5. CASE Request
  <2>1. p'.start \in Nat
    BY <1>5, RequestTyped
  <2>2. UNCHANGED diskVars /\ UNCHANGED <<names, days, t, f, info>>
        /\ pc' = "list"
    BY <1>5 DEF Request, sdVars
  <2> QED
    BY <1>1, <1>2, <2>1, <2>2 DEF CursorOK
<1>6. ASSUME UNCHANGED diskVars, Close, p'.start \in Nat,
             pc' \notin {"seek", "next"}
      PROVE  CursorOK'
  BY <1>1, <1>6 DEF CursorOK, Close, OpenFileOK, ReadsOwnSecond, NoDays
<1>7. CASE List
  <2>1. UNCHANGED diskVars /\ UNCHANGED <<p, t, f, info>> /\ pc' = "sizes"
    BY <1>7 DEF List, ListDir
  <2>2. names' \subseteq Nat /\ DOMAIN days' \subseteq names'
    BY <1>7, RecordedFacts DEF List, ListDir, CursorOK, NoDays
  <2> QED
    BY <1>1, <1>2, <2>1, <2>2 DEF CursorOK
<1>8. CASE TakeSize
  <2>1. /\ UNCHANGED diskVars /\ UNCHANGED <<names, t, f, info, p, pc>>
        /\ pc = "sizes"
        /\ DOMAIN days' \subseteq names
    BY <1>8 DEF TakeSize, FillDayInfo, chartVars, CursorOK
  <2> QED
    BY <1>1, <1>2, <2>1 DEF CursorOK
<1>14. CASE ListFails
  BY <1>6, <1>14 DEF ListFails, CursorOK
<1>15. CASE Listed
  <2>1. /\ UNCHANGED diskVars /\ UNCHANGED <<names, days, t, f, info>>
        /\ pc' = "seek" /\ DOMAIN days = names
    BY <1>15 DEF Listed, sdVars
  <2>2. p'.start \in Nat
    <3>1. DataStart(days) \in Nat
      BY DataStartIs DEF CursorOK
    <3>2. p' = p \/ p'.start = DataStart(days)
      BY <1>15 DEF Listed
    <3> QED
      BY <3>1, <3>2 DEF CursorOK
  <2> QED
    BY <1>1, <1>2, <2>1, <2>2 DEF CursorOK
<1>9. CASE SeekStart
  <2>1. UNCHANGED diskVars /\ UNCHANGED p /\ pc = "seek"
    BY <1>9 DEF SeekStart
  <2>2. CASE Seek(p.start) /\ pc' = "next"
    <3>1. /\ t' = p.start /\ Fetch(t') /\ UNCHANGED <<names, days>>
          /\ DOMAIN days \subseteq Nat
      BY <2>1, <2>2 DEF Seek, CursorOK
    <3>2. t' \in Nat /\ OpenFileOK' /\ ReadsOwnSecond'
      BY <2>1, <3>1, FetchKeeps DEF CursorOK
    <3> QED
      BY <1>1, <2>1, <3>1, <3>2 DEF CursorOK
  <2>3. CASE Close /\ pc' = "encode"
    BY <1>6, <2>1, <2>3 DEF CursorOK
  <2> QED
    BY <1>9, <2>2, <2>3 DEF SeekStart
<1>10. CASE TakePeak \/ Plot \/ Crash
  <2>1. /\ UNCHANGED diskVars /\ UNCHANGED <<p, names, days>>
        /\ pc = "next" /\ NextRecord
    BY <1>10 DEF TakePeak, Plot, Crash, NextRecord
  <2>2. DOMAIN days \subseteq Nat
    BY <2>1 DEF CursorOK
  <2>3. t' \in Nat /\ OpenFileOK' /\ ReadsOwnSecond'
    BY <2>1, <2>2, NextKeeps
  <2> QED
    BY <1>1, <2>1, <2>3 DEF CursorOK
<1>11. CASE BeginPlot \/ EndPasses
  BY <1>6, <1>11 DEF BeginPlot, EndPasses, CursorOK
<1>12. CASE Encode
  BY <1>1, <1>2, <1>12 DEF Encode, CursorOK, sdVars
<1>13. CASE Answer
  <2>1. UNCHANGED diskVars /\ UNCHANGED <<names, days, t, f, info>>
        /\ pc' = "idle" /\ p' = NoRequest
    BY <1>13 DEF Answer, sdVars
  <2>2. p'.start \in Nat
    BY <2>1 DEF NoRequest
  <2> QED
    BY <1>1, <1>2, <2>1, <2>2 DEF CursorOK
<1> QED
  BY <1>3, <1>4, <1>5, <1>7, <1>8, <1>9, <1>10, <1>11, <1>12, <1>13, <1>14, <1>15
  DEF Next, BuildChart, Finish, FinishFailed

(***************************************************************************)
(* What the cursor returns for a second is that second's record or zeros.  *)
(***************************************************************************)
THEOREM SecondsDoNotDrift ==
  Spec => []ReadsOwnSecond
<1>1. CursorOK => ReadsOwnSecond
  BY DEF CursorOK
<1> QED
  BY <1>1, CursorStarts, CursorStep, PTL DEF Spec

-----------------------------------------------------------------------------
(***************************************************************************)
(* No second is skipped: the seconds seen when the directory was read are  *)
(* in listed files, within the sizes taken, as long as the files stay.     *)
(***************************************************************************)
ListedOK ==
  pc \in {"sizes", "seek", "next"} =>
    \A s \in seen : s \in Recorded /\ (Day(s) \notin removed => Day(s) \in names)

SizesOK ==
  pc \in {"sizes", "seek", "next"} /\ ~vanished =>
    /\ \A d \in DOMAIN days : days[d] \in Nat /\ days[d] <= DayStart(d) + DayLen
    /\ \A s \in seen : Day(s) \in DOMAIN days => s < days[Day(s)]

(***************************************************************************)
(* A record within the size of its file is found there, whether or not the *)
(* file is already open.                                                   *)
(***************************************************************************)
LEMMA ReadFinds ==
  ASSUME DiskOK, NEW d \in Int, NEW pos \in Nat \ {0}, NEW s \in Recorded,
         DayStart(d) + pos = s, pos <= Size(d), s # DayStart(Day(s)),
         Read(d, pos)
  PROVE  info'.value = records[s]
<1>1. /\ DayStart(d) \in Int /\ DayLen \in Nat \ {0}
      /\ DayStart(d + 1) = DayStart(d) + DayLen
  BY StatReaderAssumption DEF DayStart
<1>2. s \in Nat /\ s \in Seconds
  BY RecordedFacts
<1>3. Size(d) \in 0 .. DayLen
  BY SizeFacts
<1>4. pos # DayLen
  <2>1. SUFFICES ASSUME pos = DayLen PROVE FALSE
    OBVIOUS
  <2>2. DayStart(d + 1) <= s /\ s < DayStart(d + 1) + DayLen
    BY <1>1, <1>2, <2>1
  <2>3. Day(s) = d + 1
    BY <1>2, <2>2, DayIs
  <2> QED
    BY <1>1, <2>1, <2>3
<1>5. Day(s) = d
  BY <1>1, <1>2, <1>3, <1>4, DayIs
<1>6. pos < Size(d)
  <2>1. s - DayStart(d) < Size(d)
    BY <1>5, SizeFacts
  <2> QED
    BY <1>1, <2>1
<1>7. info' = [second |-> s, value |-> RecordOf(s)]
  BY <1>6 DEF Read
<1> QED
  BY <1>2, <1>7 DEF RecordOf

LEMMA FetchFinds ==
  ASSUME DiskOK, NEW s \in Recorded, s # DayStart(Day(s)),
         DOMAIN days = names, names \subseteq Nat, Day(s) \in names,
         Day(s) \notin removed,
         \A d \in names : days[d] \in Nat /\ days[d] <= DayStart(d) + DayLen,
         s < days[Day(s)],
         Fetch(s)
  PROVE  info'.value = records[s]
<1>1. s \in Nat
  BY RecordedFacts
<1>2. Day(s) \in Linked
  BY DEF Linked
<1>3. \A d \in names : DayStart(d) \in Int
  BY StatReaderAssumption DEF DayStart
<1>4. Covers(Day(s), s)
  BY <1>1, <1>3, DayFacts DEF Covers
<1>5. ASSUME NEW d \in names, Covers(d, s)
      PROVE  d = Day(s)
  <2>1. DayStart(d) <= s /\ s < DayStart(d) + DayLen
    BY <1>1, <1>3, <1>5, StatReaderAssumption DEF Covers
  <2> QED
    BY <1>1, <2>1, DayIs
<1>6. Read(Day(s), Offset(Day(s), s))
  BY <1>2, <1>4, <1>5 DEF Fetch
<1>7. /\ Offset(Day(s), s) \in Nat \ {0}
      /\ DayStart(Day(s)) + Offset(Day(s), s) = s
  BY <1>1, <1>3, DayFacts DEF Offset
<1>8. Offset(Day(s), s) <= Size(Day(s))
  <2>1. s - DayStart(Day(s)) < Size(Day(s)) /\ Size(Day(s)) \in 0 .. DayLen
    <3>1. Day(s) \in Int
      BY <1>1, DayFacts
    <3> QED
      BY <3>1, SizeFacts
  <2> QED
    BY <1>7, <2>1, StatReaderAssumption DEF Offset
<1>9. PICK d \in Int : d = Day(s)
  BY <1>1, DayFacts
<1>10. PICK pos \in Nat \ {0} : pos = Offset(d, s)
  BY <1>7, <1>9
<1> QED
  BY <1>6, <1>7, <1>8, <1>9, <1>10, ReadFinds

LEMMA ListsStart ==
  Init => ListedOK /\ SizesOK
BY DEF Init, ListedOK, SizesOK

(***************************************************************************)
(* A size, as it is taken, covers every second seen of its day.            *)
(***************************************************************************)
LEMMA SizeTaken ==
  ASSUME CursorOK, ListedOK, SizesOK, TakeSize
  PROVE  SizesOK'
<1>1. /\ UNCHANGED diskVars /\ UNCHANGED <<names, seen, pc>> /\ pc = "sizes"
  BY DEF TakeSize, FillDayInfo, chartVars
<1>2. PICK d \in names :
        /\ \E end \in IF d \in Linked THEN {DayStart(d) + Size(d)} ELSE GarbageEnds :
             days' = [e \in DOMAIN days \cup {d} |-> IF e = d THEN end ELSE days[e]]
        /\ vanished' = (vanished \/ d \notin Linked)
  BY DEF TakeSize, FillDayInfo
<1>3. SUFFICES ASSUME ~vanished'
               PROVE  /\ \A e \in DOMAIN days' : /\ days'[e] \in Nat
                                                 /\ days'[e] <= DayStart(e) + DayLen
                      /\ \A s \in seen : Day(s) \in DOMAIN days' => s < days'[Day(s)]
  BY <1>1 DEF SizesOK, Day, DayStart
<1>4. /\ ~vanished
      /\ days' = [e \in DOMAIN days \cup {d} |-> IF e = d THEN DayStart(d) + Size(d)
                                                 ELSE days[e]]
  BY <1>2, <1>3
<1>5. /\ \A e \in DOMAIN days : days[e] \in Nat /\ days[e] <= DayStart(e) + DayLen
      /\ \A s \in seen : Day(s) \in DOMAIN days => s < days[Day(s)]
  BY <1>1, <1>4 DEF SizesOK
<1>6. /\ DayStart(d) \in Nat
      /\ Size(d) \in 0 .. DayLen
      /\ \A s \in Recorded : Day(s) = d => s - DayStart(d) < Size(d)
  BY SizeFacts, StatReaderAssumption DEF CursorOK, DayStart
<1>7. ASSUME NEW e \in DOMAIN days'
      PROVE  days'[e] \in Nat /\ days'[e] <= DayStart(e) + DayLen
  <2>1. CASE e = d
    BY <1>4, <1>6, <2>1, StatReaderAssumption
  <2>2. CASE e # d
    BY <1>4, <1>5, <1>7, <2>2
  <2> QED
    BY <2>1, <2>2
<1>8. ASSUME NEW s \in seen, Day(s) \in DOMAIN days'
      PROVE  s < days'[Day(s)]
  <2>1. CASE Day(s) = d
    <3>1. s \in Recorded /\ s \in Nat
      BY <1>1, RecordedFacts DEF ListedOK, CursorOK
    <3>2. s - DayStart(d) < Size(d)
      BY <1>6, <2>1, <3>1
    <3>3. days'[Day(s)] = DayStart(d) + Size(d)
      BY <1>4, <2>1
    <3> QED
      BY <1>6, <3>1, <3>2, <3>3, StatReaderAssumption
  <2>2. CASE Day(s) # d
    BY <1>4, <1>5, <1>8, <2>2
  <2> QED
    BY <2>1, <2>2
<1> QED
  BY <1>7, <1>8

(***************************************************************************)
(* The step of the loops: to the next second, in the open file or another. *)
(***************************************************************************)
LEMMA NextFinds ==
  ASSUME CursorOK, ListedOK, SizesOK, pc = "next", NextRecord,
         ~vanished, t' \in seen, t' # DayStart(Day(t')), Day(t') \notin removed
  PROVE  info'.value = records[t']
<1>1. t' = t + 1 /\ t \in Nat /\ DOMAIN days = names /\ names \subseteq Nat
  BY DEF NextRecord, CursorOK
<1>2. PICK s \in seen : s = t'
  OBVIOUS
<1>3. s \in Recorded /\ Day(s) \in names /\ s # DayStart(Day(s))
  BY <1>2 DEF ListedOK, Day, DayStart
<1>4. /\ \A d \in names : days[d] \in Nat /\ days[d] <= DayStart(d) + DayLen
      /\ s < days[Day(s)]
  BY <1>1, <1>3 DEF SizesOK
<1>5. CASE f = NoFile
  <2>1. Fetch(s)
    BY <1>2, <1>5 DEF NextRecord
  <2> QED
    BY <1>1, <1>2, <1>3, <1>4, <2>1, FetchFinds DEF CursorOK, Day
<1>6. CASE f # NoFile
  <2>1. /\ f.day \in Int /\ f.pos \in Nat \ {0} /\ f.pos <= Size(f.day)
        /\ DayStart(f.day) + f.pos = s
        /\ Read(f.day, f.pos)
    BY <1>1, <1>2, <1>6 DEF CursorOK, OpenFileOK, NextRecord
  <2> QED
    BY <1>2, <1>3, <2>1, ReadFinds DEF CursorOK
<1> QED
  BY <1>5, <1>6

(***************************************************************************)
(* The listed files stay those of the seconds seen, and the sizes cover    *)
(* them.                                                                   *)
(***************************************************************************)
LEMMA ListsStep ==
  ASSUME CursorOK, ListedOK, SizesOK, [Next]_vars
  PROVE  ListedOK' /\ SizesOK'
<1>1. ASSUME UNCHANGED <<diskVars, seen, names, days, vanished>>,
             pc' \in {"sizes", "seek", "next"} => pc \in {"sizes", "seek", "next"}
      PROVE  ListedOK' /\ SizesOK'
  BY <1>1 DEF ListedOK, SizesOK, diskVars, Day, DayStart, Recorded, Seconds
<1>2. ASSUME pc' \notin {"sizes", "seek", "next"}
      PROVE  ListedOK' /\ SizesOK'
  BY <1>2 DEF ListedOK, SizesOK
<1>3. CASE UNCHANGED vars
  BY <1>1, <1>3 DEF vars, sdVars, sdGhosts, chartVars
<1>4. CASE Damper
  <2>1. Tick /\ UNCHANGED <<seen, names, days, pc, vanished>>
    BY <1>4 DEF Damper, Tick, sdVars, sdGhosts, chartVars
  <2>2. Recorded \subseteq Recorded' /\ removed \subseteq removed'
    BY <2>1, TickKeepsDisk DEF CursorOK
  <2>3. ListedOK'
    BY <2>1, <2>2 DEF ListedOK, Day
  <2>4. SizesOK'
    BY <2>1 DEF SizesOK, Day, DayStart
  <2> QED
    BY <2>3, <2>4
<1>5. CASE List
  <2>1. /\ names' = Linked /\ seen' = Recorded /\ days' = NoDays
        /\ UNCHANGED diskVars
    BY <1>5 DEF List, ListDir
  <2>2. Recorded' = Recorded /\ removed' = removed
    BY <2>1 DEF diskVars, Recorded, Seconds
  <2>3. ListedOK'
    BY <2>1, <2>2 DEF ListedOK, Linked, Day
  <2> QED
    BY <2>1, <2>3 DEF SizesOK, NoDays
<1>6. CASE TakeSize
  <2>1. UNCHANGED <<diskVars, seen, names, pc>>
    BY <1>6 DEF TakeSize, FillDayInfo, chartVars
  <2>2. ListedOK'
    BY <2>1 DEF ListedOK, diskVars, Day, Recorded, Seconds
  <2> QED
    BY <1>6, <2>2, SizeTaken
<1>7. CASE Listed
  BY <1>1, <1>7 DEF Listed, sdVars, sdGhosts
<1>8. CASE SeekStart
  <2>1. CASE Seek(p.start) /\ pc' = "next"
    BY <1>1, <1>8, <2>1 DEF SeekStart, Seek, sdGhosts
  <2> QED
    BY <1>2, <1>8, <2>1 DEF SeekStart
<1>9. CASE TakePeak \/ Plot
  BY <1>1, <1>9 DEF TakePeak, Plot, NextRecord, sdGhosts
<1>10. CASE Request \/ ListFails \/ Crash \/ BeginPlot \/ EndPasses \/ Encode
            \/ Answer
  BY <1>2, <1>10 DEF Request, ListFails, Crash, BeginPlot, EndPasses, Encode, Answer
<1> QED
  BY <1>3, <1>4, <1>5, <1>6, <1>7, <1>8, <1>9, <1>10
  DEF Next, BuildChart, Finish, FinishFailed

(***************************************************************************)
(* No step skips a second that was recorded when the directory was read.   *)
(***************************************************************************)
LEMMA StepFinds ==
  ASSUME CursorOK, ListedOK, SizesOK, [Next]_vars,
         t' # t, pc' \in {"next", "crashed"}, ~vanished,
         t' \in seen, t' # DayStart(Day(t')), Day(t') \notin removed
  PROVE  info'.value = records[t']
<1>1. CASE UNCHANGED vars \/ Damper
  BY <1>1 DEF vars, sdVars, Damper, Tick
<1>2. CASE Request \/ List \/ TakeSize \/ ListFails \/ Listed \/ BeginPlot
           \/ EndPasses \/ Encode \/ Answer
  BY <1>2 DEF Request, List, ListDir, TakeSize, FillDayInfo, ListFails, Listed,
              BeginPlot, EndPasses, Encode, Answer, sdVars
<1>3. CASE TakePeak \/ Plot \/ Crash
  <2>1. pc = "next" /\ NextRecord
    BY <1>3 DEF TakePeak, Plot, Crash
  <2> QED
    BY <2>1, NextFinds
<1>4. CASE SeekStart
  <2>1. Seek(p.start) /\ pc = "seek"
    BY <1>4 DEF SeekStart
  <2>2. Fetch(t') /\ DOMAIN days = names /\ names \subseteq Nat /\ DiskOK
    BY <2>1 DEF Seek, CursorOK
  <2>3. PICK s \in seen : s = t'
    OBVIOUS
  <2>4. /\ s \in Recorded /\ Day(s) \in names /\ s # DayStart(Day(s))
        /\ Day(s) \notin removed
    BY <2>1, <2>3 DEF ListedOK, Day, DayStart
  <2>5. /\ \A d \in names : days[d] \in Nat /\ days[d] <= DayStart(d) + DayLen
        /\ s < days[Day(s)]
    BY <2>1, <2>2, <2>4 DEF SizesOK
  <2>6. Fetch(s)
    BY <2>2, <2>3
  <2>7. info'.value = records[s]
    BY <2>2, <2>4, <2>5, <2>6, FetchFinds
  <2> QED
    BY <2>3, <2>7
<1> QED
  BY <1>1, <1>2, <1>3, <1>4 DEF Next, BuildChart, Finish, FinishFailed

(***************************************************************************)
(* A pass skips no second that was on disk when it began, whatever damper  *)
(* writes and removes while it goes on: but the first of a day, and those  *)
(* of files that were removed.                                             *)
(***************************************************************************)
THEOREM NoSecondSkipped ==
  Spec => ReadsAllRecorded
<1> DEFINE I == CursorOK /\ ListedOK /\ SizesOK
           A == t' # t /\ pc' \in {"next", "crashed"} /\ ~vanished
                  /\ t' \in seen /\ t' # DayStart(Day(t')) /\ Day(t') \notin removed
                => info'.value = records[t']
<1>1. Init => I
  BY CursorStarts, ListsStart
<1>2. I /\ [Next]_vars => I'
  BY CursorStep, ListsStep
<1>3. I /\ [Next]_vars => [A]_vars
  BY StepFinds
<1> QED
  <2> HIDE DEF I, A
  <2>1. Spec => []I
    BY <1>1, <1>2, PTL DEF Spec
  <2>2. Spec => [][A]_vars
    BY <1>3, <2>1, PTL DEF Spec
  <2> QED
    BY <2>2 DEF A, ReadsAllRecorded

-----------------------------------------------------------------------------
(***************************************************************************)
(* The image's encoding, b64encode. It is a function of the position, so   *)
(* that no induction is needed.                                            *)
(***************************************************************************)

(***************************************************************************)
(* One round: the four characters of up to three octets, read back.        *)
(***************************************************************************)
LEMMA RoundBack ==
  ASSUME NEW a \in Byte, NEW b \in Byte, NEW c \in Byte
  PROVE  /\ 4 * (a \div 4) + ((16 * (a % 4) + (b \div 16)) \div 16) = a
         /\ 16 * ((16 * (a % 4) + (b \div 16)) % 16)
              + ((4 * (b % 16) + (c \div 64)) \div 4) = b
         /\ 64 * ((4 * (b % 16) + (c \div 64)) % 4) + (c % 64) = c
<1>1. /\ a = 4 * (a \div 4) + (a % 4) /\ a \div 4 \in Nat /\ a % 4 \in 0 .. 3
      /\ b = 16 * (b \div 16) + (b % 16)
      /\ b \div 16 \in 0 .. 15 /\ b % 16 \in 0 .. 15
      /\ c = 64 * (c \div 64) + (c % 64)
      /\ c \div 64 \in 0 .. 3 /\ c % 64 \in 0 .. 63
  BY DEF Byte
<1>2. ASSUME NEW k \in Nat, NEW hi \in 0 .. 15
      PROVE  (16 * k + hi) \div 16 = k /\ (16 * k + hi) % 16 = hi
  BY <1>2
<1>3. ASSUME NEW k \in Nat, NEW hi \in 0 .. 3
      PROVE  (4 * k + hi) \div 4 = k /\ (4 * k + hi) % 4 = hi
  BY <1>3
<1>4. /\ (16 * (a % 4) + (b \div 16)) \div 16 = a % 4
      /\ (16 * (a % 4) + (b \div 16)) % 16 = b \div 16
  BY <1>1, <1>2
<1>5. /\ (4 * (b % 16) + (c \div 64)) \div 4 = b % 16
      /\ (4 * (b % 16) + (c \div 64)) % 4 = c \div 64
  BY <1>1, <1>3
<1> QED
  BY <1>1, <1>4, <1>5

LEMMA SextetsAreNotPad ==
  ASSUME NEW b \in Byte, NEW c \in Byte
  PROVE  4 * (b % 16) + (c \div 64) # Pad /\ c % 64 # Pad
<1>1. b % 16 \in 0 .. 15 /\ c \div 64 \in 0 .. 3 /\ c % 64 \in 0 .. 63
  BY DEF Byte
<1> QED
  BY <1>1 DEF Pad

LEMMA OctetIsByte ==
  ASSUME NEW in \in Seq(Byte), NEW i \in Nat \ {0}
  PROVE  Octet(in, i) \in Byte
<1>1. CASE i <= Len(in)
  BY <1>1 DEF Octet
<1>2. CASE ~(i <= Len(in))
  BY <1>2 DEF Octet, Byte
<1> QED
  BY <1>1, <1>2

(***************************************************************************)
(* Where a position stands in its round.                                   *)
(***************************************************************************)
LEMMA CharAt ==
  ASSUME NEW in \in Seq(Byte), NEW r \in Nat, r < Rounds(Len(in)),
         NEW q \in 1 .. 4
  PROVE  B64Encode(in)[4 * r + q] = Round(in, 3 * r + 1)[q]
<1>1. Len(in) \in Nat
  OBVIOUS
<1>2. 4 * r + q \in 1 .. 4 * Rounds(Len(in))
  BY <1>1 DEF Rounds
<1>3. (4 * r + q - 1) \div 4 = r /\ (4 * r + q - 1) % 4 = q - 1
  OBVIOUS
<1> QED
  BY <1>2, <1>3 DEF B64Encode

(***************************************************************************)
(* The length of the text, which B64Encode gives as a function.            *)
(***************************************************************************)
LEMMA EncodedLen ==
  ASSUME NEW in \in Seq(Byte)
  PROVE  Len(B64Encode(in)) = 4 * Rounds(Len(in))
<1>1. 4 * Rounds(Len(in)) \in Nat
  BY DEF Rounds
<1> QED
  BY <1>1 DEF B64Encode

(***************************************************************************)
(* The padding tells how many octets the last round had.                   *)
(***************************************************************************)
LEMMA LengthBack ==
  ASSUME NEW in \in Seq(Byte)
  PROVE  DecodedLen(B64Encode(in)) = Len(in)
<1> DEFINE n == Len(in)
           out == B64Encode(in)
           r == Rounds(n) - 1
<1>1. n \in Nat /\ Len(out) = 4 * Rounds(n)
  BY EncodedLen
<1>2. CASE n = 0
  BY <1>1, <1>2 DEF DecodedLen, Rounds
<1>3. CASE n > 0
  <2>1. r \in Nat /\ 3 * r + 1 \in 1 .. n /\ 3 * r + 3 >= n
    BY <1>1, <1>3 DEF Rounds
  <2>2. out[4 * r + 3] = Round(in, 3 * r + 1)[3]
        /\ out[4 * r + 4] = Round(in, 3 * r + 1)[4]
    <3>1. r < Rounds(Len(in))
      BY <1>1 DEF Rounds
    <3> HIDE DEF r
    <3> QED
      BY <2>1, <3>1, CharAt
  <2>3. Len(out) = 4 * r + 4
    BY <1>1 DEF Rounds
  <2> DEFINE b == Octet(in, 3 * r + 2)
             c == Octet(in, 3 * r + 3)
  <2>4. b \in Byte /\ c \in Byte
    BY <2>1, OctetIsByte
  <2>5. /\ out[4 * r + 3] = IF 3 * r + 2 > n THEN Pad
                            ELSE 4 * (b % 16) + (c \div 64)
        /\ out[4 * r + 4] = IF 3 * r + 3 > n THEN Pad ELSE c % 64
    BY <2>2, <2>1 DEF Round
  <2>6. 4 * (b % 16) + (c \div 64) # Pad /\ c % 64 # Pad
    <3> HIDE DEF b, c
    <3> QED
      BY <2>4, SextetsAreNotPad
  <2> HIDE DEF b, c, out, n, r
  <2>7. DecodedLen(out) = n
    <3>1. Len(out) \div 4 = r + 1 /\ Len(out) - 1 = 4 * r + 3 /\ Len(out) # 0
      BY <2>1, <2>3
    <3>2. DecodedLen(out) = 3 * (r + 1) - IF out[4 * r + 3] = Pad THEN 2
                            ELSE IF out[4 * r + 4] = Pad THEN 1 ELSE 0
      BY <2>3, <3>1, Zenon DEF DecodedLen
    <3>3. CASE n = 3 * r + 1
      BY <2>1, <2>5, <3>2, <3>3
    <3>4. CASE n = 3 * r + 2
      BY <2>1, <2>5, <2>6, <3>2, <3>4
    <3>5. CASE n = 3 * r + 3
      BY <2>1, <2>5, <2>6, <3>2, <3>5
    <3> QED
      BY <1>1, <2>1, <3>3, <3>4, <3>5
  <2> QED
    BY <2>7 DEF out, n
<1> QED
  BY <1>1, <1>2, <1>3

(***************************************************************************)
(* The browser sees the image that libpng wrote.                           *)
(***************************************************************************)
THEOREM DecodesToImage ==
  ASSUME NEW in \in Seq(Byte)
  PROVE  Decode(B64Encode(in)) = in
<1> DEFINE n == Len(in)
           out == B64Encode(in)
<1>1. n \in Nat /\ DecodedLen(out) = n
  BY LengthBack
<1>2. ASSUME NEW i \in 1 .. n
      PROVE  Decode(out)[i] = in[i]
  <2> DEFINE r == (i - 1) \div 3
             q == (i - 1) % 3
             a == Octet(in, 3 * r + 1)
             b == Octet(in, 3 * r + 2)
             c == Octet(in, 3 * r + 3)
  <2>1. r \in Nat /\ q \in 0 .. 2 /\ i = 3 * r + q + 1
    BY <1>1
  <2>2. r < Rounds(n)
    BY <1>1, <2>1 DEF Rounds
  <2>3. a \in Byte /\ b \in Byte /\ c \in Byte
    BY <2>1, OctetIsByte
  <2>4. \A k \in 1 .. 4 : out[4 * r + k] = Round(in, 3 * r + 1)[k]
    BY <2>1, <2>2, CharAt
  <2>5. Decode(out)[i] = DecodedRound(out, 4 * r)[q + 1]
    BY <1>1 DEF Decode
  <2>6. /\ out[4 * r + 1] = a \div 4
        /\ out[4 * r + 2] = 16 * (a % 4) + (b \div 16)
        /\ out[4 * r + 3] = IF 3 * r + 2 > n THEN Pad
                            ELSE 4 * (b % 16) + (c \div 64)
        /\ out[4 * r + 4] = IF 3 * r + 3 > n THEN Pad ELSE c % 64
    BY <2>1, <2>4 DEF Round
  <2>7. in[i] = IF q = 0 THEN a ELSE IF q = 1 THEN b ELSE c
    BY <1>1, <2>1 DEF Octet
  <2> HIDE DEF a, b, c, out, r, q, n
  <2>8. CASE q = 0
    BY <2>1, <2>3, <2>5, <2>6, <2>7, <2>8, RoundBack DEF DecodedRound
  <2>9. CASE q = 1
    BY <1>1, <2>1, <2>3, <2>5, <2>6, <2>7, <2>9, RoundBack DEF DecodedRound
  <2>10. CASE q = 2
    BY <1>1, <2>1, <2>3, <2>5, <2>6, <2>7, <2>10, RoundBack DEF DecodedRound
  <2> QED
    BY <2>1, <2>8, <2>9, <2>10
<1>3. Decode(out) = [i \in 1 .. n |-> in[i]]
  BY <1>1, <1>2 DEF Decode
<1> QED
  BY <1>3

(***************************************************************************)
(* The characters and the final zero fit in the buffer.                    *)
(***************************************************************************)
THEOREM FitsInBuffer ==
  ASSUME NEW in \in Seq(Byte)
  PROVE  Len(B64Encode(in)) + 1 <= BufferLen(Len(in))
<1>1. Len(in) \in Nat
  OBVIOUS
<1> QED
  BY <1>1, EncodedLen DEF BufferLen, Rounds

ImageOK == pc = "answer" => png \in Seq(Byte) /\ img = B64Encode(png)

(***************************************************************************)
(* The image is decoded as it was encoded.                                 *)
(***************************************************************************)
LEMMA ImageStep ==
  ASSUME ImageOK, [Next]_vars
  PROVE  ImageOK'
<1>1. CASE pc' # "answer"
  BY <1>1 DEF ImageOK
<1>2. CASE pc' = "answer" /\ UNCHANGED <<pc, png, img>>
  BY <1>2 DEF ImageOK
<1>3. CASE Encode
  BY <1>3, ChartAssumption DEF Encode, ImageOK
<1> QED
  BY <1>1, <1>2, <1>3
  DEF Next, vars, chartVars, imageVars, Damper, Request, BuildChart, List,
      TakeSize, ListFails, Listed, SeekStart, TakePeak, BeginPlot, Plot, Crash,
      EndPasses, Finish, FinishFailed, Answer

(***************************************************************************)
(* The answer holds the image that libpng wrote, whatever its length, and  *)
(* its encoding has never been longer than its buffer.                     *)
(***************************************************************************)
THEOREM ImageReachesBrowser ==
  Spec => []ImageSurvivesEncoding
<1>1. Init => ImageOK
  BY DEF Init, ImageOK
<1>2. ImageOK /\ [Next]_vars => ImageOK'
  BY ImageStep
<1>3. ImageOK => ImageSurvivesEncoding
  BY DecodesToImage, FitsInBuffer DEF ImageOK, ImageSurvivesEncoding
<1> QED
  BY <1>1, <1>2, <1>3, PTL DEF Spec

-----------------------------------------------------------------------------
(***************************************************************************)
(* Types of the cursor: the open file is one that was listed, and it is    *)
(* closed wherever the list may change.                                    *)
(***************************************************************************)
FilesOK ==
  /\ f # NoFile => f.day \in names
  /\ pc \notin {"next", "crashed"} => f = NoFile
  /\ info.value \in Values \cup {0}

(***************************************************************************)
(* What is read is a value or 0, and the file left open is a listed day's. *)
(***************************************************************************)
LEMMA ReadTypes ==
  ASSUME DiskOK, NEW d \in names, NEW pos, Read(d, pos), names' = names
  PROVE  /\ f' # NoFile => f'.day \in names'
         /\ info'.value \in Values \cup {0}
<1>1. \A s : RecordOf(s) \in Values \cup {0}
  BY DEF DiskOK, RecordOf
<1>2. f' = NoFile \/ f'.day = d
  BY DEF Read
<1>3. info'.value = 0 \/ \E s : info'.value = RecordOf(s)
  BY DEF Read, Zeros
<1> QED
  BY <1>1, <1>2, <1>3

LEMMA FetchTypes ==
  ASSUME DiskOK, DOMAIN days = names, NEW s, Fetch(s), names' = names
  PROVE  /\ f' # NoFile => f'.day \in names'
         /\ info'.value \in Values \cup {0}
<1>1. CASE info' = Zeros /\ f' = NoFile
  BY <1>1 DEF Zeros
<1>2. CASE \E d \in DOMAIN days : Read(d, Offset(d, s))
  BY <1>2, ReadTypes
<1> QED
  BY <1>1, <1>2 DEF Fetch

(***************************************************************************)
(* The open file and the record stay of their types.                       *)
(***************************************************************************)
LEMMA FilesStep ==
  ASSUME CursorOK, FilesOK, [Next]_vars
  PROVE  FilesOK'
<1>1. ASSUME UNCHANGED <<names, days, f, info, pc>>
      PROVE  FilesOK'
  BY <1>1 DEF FilesOK
<1>2. ASSUME Close, pc' # "next"
      PROVE  FilesOK'
  BY <1>2 DEF Close, FilesOK, Zeros
<1>3. CASE UNCHANGED vars \/ Damper
  BY <1>1, <1>3 DEF vars, sdVars, chartVars, Damper, Tick
<1>4. CASE Request \/ Listed \/ Encode \/ Finish \/ FinishFailed
  <2>1. /\ UNCHANGED <<names, f, info>>
        /\ pc \notin {"next", "crashed"} /\ pc' \notin {"next", "crashed"}
    BY <1>4
    DEF Request, Listed, Encode, Finish, FinishFailed, Fail, Answer, sdVars
  <2> QED
    BY <2>1 DEF FilesOK
<1>5. CASE List
  BY <1>5 DEF List, ListDir, FilesOK
<1>6. CASE TakeSize
  BY <1>6 DEF TakeSize, FillDayInfo, FilesOK, chartVars
<1>10. CASE ListFails
  BY <1>2, <1>10 DEF ListFails
<1>7. CASE SeekStart
  <2>1. CASE Seek(p.start) /\ pc' = "next"
    <3>1. /\ Fetch(t') /\ UNCHANGED <<names, days>> /\ DOMAIN days = names
          /\ DiskOK
      BY <1>7, <2>1 DEF Seek, SeekStart, CursorOK
    <3>2. /\ f' # NoFile => f'.day \in names'
          /\ info'.value \in Values \cup {0}
      BY <3>1, FetchTypes
    <3> QED
      BY <2>1, <3>1, <3>2 DEF FilesOK
  <2> QED
    BY <1>2, <1>7, <2>1 DEF SeekStart
<1>8. CASE TakePeak \/ Plot \/ Crash
  <2>1. /\ pc = "next" /\ pc' \in {"next", "crashed"} /\ NextRecord
        /\ UNCHANGED <<names, days>> /\ DOMAIN days = names /\ DiskOK
    BY <1>8 DEF TakePeak, Plot, Crash, NextRecord, CursorOK
  <2>2. /\ f' # NoFile => f'.day \in names'
        /\ info'.value \in Values \cup {0}
    BY <2>1, FetchTypes, ReadTypes DEF NextRecord, FilesOK
  <2> QED
    BY <2>1, <2>2 DEF FilesOK
<1>9. CASE BeginPlot \/ EndPasses
  BY <1>2, <1>9 DEF BeginPlot, EndPasses
<1> QED
  BY <1>3, <1>4, <1>5, <1>6, <1>7, <1>8, <1>9, <1>10
  DEF Next, BuildChart

-----------------------------------------------------------------------------
(***************************************************************************)
(* The columns of a second, from left to right: for n seconds on a width   *)
(* of w, they begin in the image and where those of the second before end. *)
(***************************************************************************)
LEMMA LinesAre ==
  ASSUME p \in [w : Nat, start : Nat, end : Nat], p.w > 0,
         NEW o \in Nat, p.start + o < p.end
  PROVE  /\ LineStart(o) \in 0 .. p.w - 1 /\ LineEnd(o) \in 0 .. p.w - 1
         /\ LineStart(o) <= LineEnd(o)
         /\ p.start + o + 1 < p.end => LineStart(o + 1) = LineEnd(o)
         /\ \A c \in 0 .. p.w - 1 :
              Touches(p.start + o, c) <=> c \in LineStart(o) .. LineEnd(o)
<1> DEFINE w == p.w
           n == p.end - p.start
           before == (w * o) \div n
           after  == (w * (o + 1)) \div n
<1>1. w \in Nat \ {0} /\ n \in Nat \ {0} /\ o < n /\ p.start \in Nat /\ p.end \in Nat
  OBVIOUS
<1>2. /\ w * o \in Nat /\ w * (o + 1) \in Nat /\ w * n = (w - 1 + 1) * n
      /\ w * o <= w * (o + 1) /\ w * o < w * n
      /\ o + 1 < n => w * (o + 1) < w * n
  <2> HIDE DEF w, n
  <2> QED
    BY <1>1, ProductOrder
<1>3. before \in Nat /\ after \in Nat /\ before <= after
  <2> HIDE DEF w, n
  <2> QED
    BY <1>1, <1>2, QuotientIs, QuotientOrder
<1>4. before <= w - 1 /\ (o + 1 < n => after <= w - 1)
  <2>1. w - 1 \in Nat
    BY <1>1
  <2> HIDE DEF w, n
  <2> QED
    BY <1>1, <1>2, <2>1, QuotientBounds
<1>5. LineStart(o) = before /\ LineEnd(o) = IF w - 1 <= after THEN w - 1 ELSE after
  <2>1. LineEnd(o) = Min({w - 1, after})
    BY DEF LineEnd
  <2>2. w - 1 \in Nat
    BY <1>1
  <2>3. Min({w - 1, after}) = IF w - 1 <= after THEN w - 1 ELSE after
    <3> HIDE DEF w, after
    <3> QED
      BY <1>3, <2>2, MinOfTwo
  <2> QED
    BY <2>1, <2>3 DEF LineStart
<1>6. p.start + o + 1 < p.end => LineStart(o + 1) = after
  BY DEF LineStart
<1>7. ASSUME NEW c \in 0 .. w - 1
      PROVE  Touches(p.start + o, c) <=> before <= c /\ c <= after
  <2>1. Touches(p.start + o, c) <=> w * o < (c + 1) * n /\ c * n <= w * (o + 1)
    <3>1. p.start + o - p.start = o /\ p.start + o + 1 - p.start = o + 1
      BY <1>1
    <3> QED
      BY <3>1 DEF Touches
  <2>2. c \in Nat
    BY <1>1, <1>7
  <2> HIDE DEF w, n
  <2> QED
    BY <1>1, <1>2, <2>1, <2>2, QuotientBounds
<1> HIDE DEF before, after
<1> QED
  BY <1>1, <1>3, <1>4, <1>5, <1>6, <1>7

-----------------------------------------------------------------------------
(***************************************************************************)
(* The ends of the listed days are bounded, so that there is a last one.   *)
(***************************************************************************)
EndsOK == \E b \in Nat : \A d \in DOMAIN days : days[d] \in 0 .. b

(***************************************************************************)
(* Types of the chart: the column last filled is one of the image, and     *)
(* nothing is plotted in the first pass.                                   *)
(***************************************************************************)
ChartOK ==
  /\ pc \in {"idle", "list", "sizes", "seek", "next", "encode", "answer",
            "crashed"}
  /\ pass \in {1, 2}
  /\ p \in [w : Nat, start : Nat, end : Nat]
  /\ pc # "idle" => p.w > 0
  /\ peak \in Values \cup {0} /\ height \in Nat
  /\ column \in Nat /\ (column = 0 \/ column < p.w)
  /\ pass = 1 => height = 0 /\ column = 0 /\ row = {}
  /\ pc = "idle" => pass = 1
  /\ pc = "next" => t >= p.start

(***************************************************************************)
(* A day's end, as its size is taken, is a number.                         *)
(***************************************************************************)
LEMMA EndsStep ==
  ASSUME CursorOK, EndsOK, [Next]_vars
  PROVE  EndsOK'
<1>1. CASE UNCHANGED days
  BY <1>1 DEF EndsOK
<1>2. CASE days' = NoDays
  BY <1>2 DEF EndsOK, NoDays
<1>3. CASE TakeSize
  <2>1. PICK b \in Nat : \A e \in DOMAIN days : days[e] \in 0 .. b
    BY DEF EndsOK
  <2>2. PICK d \in names :
          \E end \in IF d \in Linked THEN {DayStart(d) + Size(d)} ELSE GarbageEnds :
            days' = [e \in DOMAIN days \cup {d} |-> IF e = d THEN end ELSE days[e]]
    BY <1>3 DEF TakeSize, FillDayInfo
  <2>3. DayStart(d) \in Nat /\ Size(d) \in Nat
    BY SizeFacts, StatReaderAssumption DEF CursorOK, DayStart
  <2>4. PICK end \in Nat :
          days' = [e \in DOMAIN days \cup {d} |-> IF e = d THEN end ELSE days[e]]
    BY <2>2, <2>3, StatReaderAssumption
  <2>5. b + end \in Nat /\ \A e \in DOMAIN days' : days'[e] \in 0 .. b + end
    BY <2>1, <2>4
  <2> QED
    BY <2>5 DEF EndsOK
<1> QED
  BY <1>1, <1>2, <1>3
  DEF Next, vars, sdVars, Damper, Tick, Request, BuildChart, List, ListDir,
      ListFails, Listed, SeekStart, Seek, TakePeak, Plot, Crash, NextRecord,
      BeginPlot, EndPasses, Close, Encode, Finish, FinishFailed, Answer

LEMMA DataEndIs ==
  ASSUME EndsOK
  PROVE  DataEnd(days) \in Nat
<1> DEFINE S == {0} \cup {days[d] : d \in DOMAIN days}
<1>1. PICK b \in Nat : \A d \in DOMAIN days : days[d] \in 0 .. b
  BY DEF EndsOK
<1>2. S \subseteq 0 .. b /\ S # {}
  BY <1>1
<1> HIDE DEF S
<1>3. Max(S) \in Nat
  <2>1. Max(S) \in S
    BY <1>2, MaxIs
  <2>2. PICK m : m = Max(S)
    OBVIOUS
  <2>3. m \in 0 .. b
    BY <1>2, <2>1, <2>2
  <2> QED
    BY <2>2, <2>3
<1> QED
  BY <1>3 DEF DataEnd, S

(***************************************************************************)
(* The range that the sizes give to a request without one is made of       *)
(* numbers.                                                                *)
(***************************************************************************)
LEMMA ListedTyped ==
  ASSUME CursorOK, ChartOK, EndsOK, Listed
  PROVE  p' \in [w : Nat, start : Nat, end : Nat] /\ p'.w = p.w
<1>1. DataEnd(days) \in Nat
  BY DataEndIs
<1>2. DataStart(days) \in Nat
  BY DataStartIs DEF CursorOK
<1>3. p \in [w : Nat, start : Nat, end : Nat]
  BY DEF ChartOK
<1> QED
  BY <1>1, <1>2, <1>3 DEF Listed

LEMMA ChartStarts ==
  Init => FilesOK /\ EndsOK /\ ChartOK
BY DEF Init, CursorInit, FilesOK, EndsOK, ChartOK, NoRequest, Zeros, NoDays

(***************************************************************************)
(* peak + 1 in 32 bits: as it is, but 0 for the greatest peak.             *)
(***************************************************************************)
LEMMA DivisorIs ==
  ASSUME peak \in Values \cup {0}
  PROVE  /\ Divisor \in Nat
         /\ Divisor # 0 => Divisor = peak + 1
         /\ Divisor = 0 => peak = U32 - 1
<1>1. /\ peak \in Nat /\ U32 \in Nat \ {0} /\ peak <= U32 - 1
  BY StatReaderAssumption
<1>2. CASE peak + 1 < U32
  BY <1>1, <1>2 DEF Divisor
<1>3. CASE peak + 1 = U32
  BY <1>1, <1>3 DEF Divisor
<1> QED
  BY <1>1, <1>2, <1>3

(***************************************************************************)
(* The image keeps its types, and the passes follow each other.            *)
(***************************************************************************)
LEMMA ChartStep ==
  ASSUME CursorOK, FilesOK, EndsOK, ChartOK, [Next]_vars
  PROVE  ChartOK'
<1>1. t \in Nat /\ FilesOK'
  BY FilesStep DEF CursorOK
<1>2. ASSUME UNCHANGED <<pc, pass, p, peak, height, column, row, t>>
      PROVE  ChartOK'
  BY <1>2 DEF ChartOK
<1>3. ASSUME UNCHANGED <<pass, p, peak, height, column, row>>,
             pc # "idle",
             pc' \in {"sizes", "seek", "encode", "answer", "crashed"}
      PROVE  ChartOK'
  BY <1>3 DEF ChartOK
<1>4. CASE UNCHANGED vars \/ Damper
  BY <1>2, <1>4 DEF vars, chartVars, plotVars, sdVars, Damper, Tick
<1>5. CASE Request
  <2>1. p' \in [w : Nat, start : Nat, end : Nat] /\ p'.w > 0
    BY <1>5, RequestTyped
  <2> QED
    BY <1>5, <2>1 DEF Request, ChartOK, plotVars
<1>6. CASE List \/ TakeSize \/ ListFails \/ Encode \/ EndPasses \/ Crash
  BY <1>3, <1>6
  DEF List, TakeSize, ListFails, Encode, EndPasses, EndOfRange, Crash, plotVars,
      chartVars
<1>7. CASE Listed
  BY <1>7, ListedTyped DEF Listed, ChartOK, plotVars
<1>8. CASE SeekStart
  <2>1. CASE Seek(p.start) /\ pc' = "next"
    BY <1>8, <2>1 DEF SeekStart, Seek, ChartOK, plotVars
  <2> QED
    BY <1>3, <1>8, <2>1 DEF SeekStart, plotVars
<1>9. CASE TakePeak
  <2>1. /\ pc = "next" /\ pass = 1 /\ UNCHANGED <<pc, pass, p, plotVars>>
        /\ t' = t + 1
        /\ peak' = Max({peak, info'.value})
    BY <1>9 DEF TakePeak, NextRecord
  <2>2. PICK v \in Values \cup {0} : v = info'.value
    BY <1>1 DEF FilesOK
  <2>3. peak \in Values \cup {0} /\ peak \in Nat /\ v \in Nat
    BY StatReaderAssumption DEF ChartOK
  <2>4. Max({peak, v}) \in {peak, v}
    BY <2>3, MaxOfTwo
  <2>5. peak' \in Values \cup {0}
    BY <2>1, <2>2, <2>3, <2>4
  <2>6. t' >= p.start
    BY <1>1, <2>1 DEF ChartOK
  <2> QED
    BY <2>1, <2>5, <2>6 DEF ChartOK, plotVars
<1>10. CASE Plot
  <2>1. /\ pc = "next" /\ pass = 2 /\ UNCHANGED <<pc, pass, p, peak>>
        /\ t' = t + 1 /\ t' < p.end /\ Divisor # 0
        /\ column' = LineEnd(t' - p.start)
        /\ height' \in {Max({height, Height(info'.value)}), Height(info'.value)}
    BY <1>10 DEF Plot, NextRecord, FillColumns
  <2>2. PICK o \in Nat : o = t' - p.start /\ p.start + o < p.end
    <3>1. p.start \in Nat /\ t' - p.start \in Nat /\ p.end \in Nat
      BY <1>1, <2>1 DEF ChartOK
    <3> QED
      BY <2>1, <3>1
  <2>3. column' \in 0 .. p.w - 1
    BY <2>1, <2>2, LinesAre DEF ChartOK
  <2>4. PICK h : h = Height(info'.value)
    OBVIOUS
  <2>5. h \in Nat
    <3>1. PICK v \in Nat : v = info'.value
      BY <1>1, ValuesAre DEF FilesOK
    <3>2. v * ChartH \in Nat
      BY ChartAssumption
    <3>3. Divisor \in Nat \ {0}
      BY <2>1, DivisorIs DEF ChartOK
    <3>4. (v * ChartH) \div Divisor \in Nat
      BY <3>2, <3>3, QuotientIs
    <3> QED
      BY <2>4, <3>1, <3>4 DEF Height
  <2>6. height' \in Nat
    BY <2>1, <2>4, <2>5, MaxOfTwo DEF ChartOK
  <2>7. t' >= p.start /\ p.w \in Nat
    BY <1>1, <2>1 DEF ChartOK
  <2> QED
    BY <2>1, <2>3, <2>6, <2>7 DEF ChartOK
<1>11. CASE BeginPlot
  BY <1>11 DEF BeginPlot, EndOfRange, ChartOK, plotVars
<1>12. CASE Finish \/ FinishFailed
  BY <1>12 DEF Finish, FinishFailed, Answer, ChartOK, NoRequest
<1> QED
  BY <1>4, <1>5, <1>6, <1>7, <1>8, <1>9, <1>10, <1>11, <1>12
  DEF Next, BuildChart

(***************************************************************************)
(* For every request and whatever the files turn out to hold: the cursor's *)
(* position is within the open day's file, and plotting never leaves the   *)
(* columns of the image.                                                   *)
(***************************************************************************)
THEOREM ChartTyped ==
  Spec => []TypeOK
<1> DEFINE I == CursorOK /\ FilesOK /\ EndsOK /\ ChartOK
<1>1. Init => I
  BY CursorStarts, ChartStarts
<1>2. I /\ [Next]_vars => I'
  BY CursorStep, FilesStep, EndsStep, ChartStep
<1>3. I => TypeOK
  <2> SUFFICES ASSUME CursorOK, FilesOK, ChartOK PROVE TypeOK
    OBVIOUS
  <2>1. f = NoFile \/ (f.day \in names /\ f.pos \in 1 .. Size(f.day))
    <3> SUFFICES ASSUME f # NoFile
                 PROVE  f.day \in names /\ f.pos \in 1 .. Size(f.day)
      OBVIOUS
    <3>1. PICK d \in Int : d = f.day /\ f.pos \in Nat \ {0} /\ f.pos <= Size(d)
      BY DEF CursorOK, OpenFileOK
    <3>2. Size(d) \in 0 .. DayLen /\ DayLen \in Nat
      BY SizeFacts, StatReaderAssumption DEF CursorOK
    <3>3. f.pos \in 1 .. Size(f.day)
      BY <3>1, <3>2
    <3> QED
      BY <3>3 DEF FilesOK
  <2>2. CursorTypeOK
    BY <2>1 DEF CursorTypeOK, CursorOK, DiskOK, FilesOK
  <2>3. column \in 0 .. Max({0, p.w - 1})
    <3>1. p.w \in Nat /\ column \in Nat /\ (column = 0 \/ column <= p.w - 1)
      BY DEF ChartOK
    <3>2. CASE p.w > 0
      <4>1. PICK m \in Nat : m = p.w - 1
        BY <3>1, <3>2
      <4>2. Max({0, m}) \in {0, m} /\ Max({0, m}) >= m
        BY <4>1, MaxOfTwo
      <4> QED
        BY <3>1, <4>1, <4>2
    <3>3. CASE p.w = 0
      <4>1. p.w - 1 = 0 - 1 /\ column = 0
        BY <3>1, <3>3
      <4>2. \A x \in {0, 0 - 1} : 0 >= x
        OBVIOUS
      <4>3. Max({0, 0 - 1}) = 0
        BY <4>2 DEF Max
      <4> QED
        BY <4>1, <4>3
    <3> QED
      BY <3>1, <3>2, <3>3
  <2> QED
    BY <2>2, <2>3 DEF TypeOK, ChartOK
<1> QED
  BY <1>1, <1>2, <1>3, PTL DEF Spec

-----------------------------------------------------------------------------
(***************************************************************************)
(* The plot: row[] holds the seconds so far that touch the column last     *)
(* filled, which is the one where the last second ends.                    *)
(***************************************************************************)
SecondsOf(c, last) == {s \in p.start + 1 .. last : Touches(s, c)}

ColumnsOK ==
  pass = 2 =>
    /\ pc \in {"list", "sizes", "seek"} => column = 0 /\ row = {}
    /\ pc = "next" =>
         /\ column = IF t = p.start THEN 0 ELSE LineEnd(t - p.start)
         /\ row = SecondsOf(column, t)
         /\ t = p.start \/ t < p.end

(***************************************************************************)
(* Lines follow one another from left to right.                            *)
(***************************************************************************)
LEMMA LinesOrder ==
  ASSUME p \in [w : Nat, start : Nat, end : Nat], p.w > 0,
         NEW o \in Nat, NEW q \in Nat, o < q, p.start + q < p.end
  PROVE  LineEnd(o) <= LineStart(q)
<1> DEFINE w == p.w
           n == p.end - p.start
<1>1. w \in Nat /\ n \in Nat \ {0} /\ o + 1 \in Nat /\ o + 1 <= q
      /\ p.start + o < p.end /\ p.start + o + 1 < p.end
  OBVIOUS
<1>2. (w * (o + 1)) \div n <= (w * q) \div n
  <2> HIDE DEF w, n
  <2>1. w * (o + 1) \in Nat /\ w * q \in Nat /\ w * (o + 1) <= w * q
    BY <1>1, ProductOrder
  <2> QED
    BY <1>1, <2>1, QuotientOrder
<1>3. LineStart(o + 1) = (w * (o + 1)) \div n /\ LineStart(q) = (w * q) \div n
  BY DEF LineStart
<1>4. LineStart(o + 1) = LineEnd(o)
  BY <1>1, LinesAre
<1> QED
  BY <1>2, <1>3, <1>4

(***************************************************************************)
(* A column left of a second's line, or right of it, is touched by no      *)
(* second after it, or before it.                                          *)
(***************************************************************************)
LEMMA TouchOrder ==
  ASSUME p \in [w : Nat, start : Nat, end : Nat], p.w > 0,
         NEW o \in Nat, p.start + o < p.end, NEW c \in 0 .. p.w - 1,
         NEW s \in p.start + 1 .. p.end - 1
  PROVE  /\ s < p.start + o /\ c > LineStart(o) => ~Touches(s, c)
         /\ s > p.start + o /\ c < LineEnd(o) => ~Touches(s, c)
         /\ s = p.start + o => (Touches(s, c) <=> c \in LineStart(o) .. LineEnd(o))
<1>1. PICK q \in Nat : s = p.start + q /\ p.start + q < p.end
  <2>1. s - p.start \in Nat /\ s = p.start + (s - p.start)
    OBVIOUS
  <2> QED
    BY <2>1
<1>2. /\ LineStart(o) \in Nat /\ LineEnd(o) \in Nat
      /\ LineStart(q) \in Nat /\ LineEnd(q) \in Nat
      /\ Touches(s, c) <=> c \in LineStart(q) .. LineEnd(q)
  BY <1>1, LinesAre
<1>3. CASE s < p.start + o
  <2>1. LineEnd(q) <= LineStart(o)
    BY <1>1, <1>3, LinesOrder
  <2> QED
    BY <1>2, <1>3, <2>1
<1>4. CASE s > p.start + o
  <2>1. LineEnd(o) <= LineStart(q)
    BY <1>1, <1>4, LinesOrder
  <2> QED
    BY <1>2, <1>4, <2>1
<1>5. CASE s = p.start + o
  <2>1. q = o
    BY <1>1, <1>5
  <2> QED
    BY <1>2, <1>5, <2>1
<1> QED
  BY <1>1, <1>3, <1>4, <1>5

(***************************************************************************)
(* The step of the plot, to second s, o seconds after the start.           *)
(***************************************************************************)
LEMMA PlotFills ==
  ASSUME CursorOK, ChartOK, ColumnsOK, Plot
  PROVE  ColumnsOK' /\ DrawnRight
<1>1. /\ pc = "next" /\ pass = 2 /\ UNCHANGED <<pc, pass, p>>
      /\ t' = t + 1 /\ t' < p.end
      /\ FillColumns(LineStart(t' - p.start) .. LineEnd(t' - p.start),
                     LineEnd(t' - p.start), Height(info'.value))
  BY DEF Plot, NextRecord
<1>2. /\ p \in [w : Nat, start : Nat, end : Nat] /\ p.w > 0
      /\ t \in Nat /\ t >= p.start
  BY <1>1 DEF CursorOK, ChartOK
<1>3. PICK o \in Nat \ {0} : t' = p.start + o /\ o = t' - p.start
                             /\ p.start + o < p.end /\ t = p.start + (o - 1)
  <2>1. t' - p.start \in Nat \ {0} /\ t' = p.start + (t' - p.start)
        /\ t = p.start + (t' - p.start - 1)
    BY <1>1, <1>2
  <2> QED
    BY <1>1, <2>1
<1>4. PICK first \in 0 .. p.w - 1, last \in 0 .. p.w - 1 :
         /\ first = LineStart(o) /\ last = LineEnd(o) /\ first <= last
  BY <1>2, <1>3, LinesAre
<1>5. \A s \in p.start + 1 .. p.end - 1, c \in 0 .. p.w - 1 :
        /\ s <= t /\ c > first => ~Touches(s, c)
        /\ s > t + 1 /\ c < last => ~Touches(s, c)
        /\ s = t + 1 => (Touches(s, c) <=> c \in first .. last)
  <2> SUFFICES ASSUME NEW s \in p.start + 1 .. p.end - 1,
                      NEW c \in 0 .. p.w - 1
               PROVE  /\ s <= t /\ c > first => ~Touches(s, c)
                      /\ s > t + 1 /\ c < last => ~Touches(s, c)
                      /\ s = t + 1 => (Touches(s, c) <=> c \in first .. last)
    OBVIOUS
  <2>1. /\ s < p.start + o /\ c > first => ~Touches(s, c)
        /\ s > p.start + o /\ c < last => ~Touches(s, c)
        /\ s = p.start + o => (Touches(s, c) <=> c \in first .. last)
    BY <1>2, <1>3, <1>4, TouchOrder
  <2>2. p.start + o = t + 1 /\ s \in Int
    BY <1>1, <1>2, <1>3
  <2> QED
    BY <1>2, <2>1, <2>2
<1>6. /\ row = SecondsOf(column, t)
      /\ \/ t = p.start /\ column = 0
         \/ t > p.start /\ column = first
  <2>1. /\ column = IF t = p.start THEN 0 ELSE LineEnd(t - p.start)
        /\ row = SecondsOf(column, t)
    BY <1>1 DEF ColumnsOK
  <2>2. CASE t > p.start
    <3>1. PICK q \in Nat : q = o - 1 /\ t - p.start = q /\ q + 1 = o
      BY <1>2, <1>3
    <3>2. p.start + q < p.end /\ p.start + q + 1 < p.end
      BY <1>2, <1>3, <3>1
    <3>3. LineStart(q + 1) = LineEnd(q)
      BY <1>2, <3>2, LinesAre
    <3>4. t # p.start
      BY <1>2, <2>2
    <3> QED
      BY <1>4, <2>1, <2>2, <3>1, <3>3, <3>4
  <2> QED
    BY <1>2, <2>1, <2>2
<1> DEFINE lines == first .. last
           secondsOf(c) == (IF c = column THEN row ELSE {}) \cup
                           (IF c \in lines THEN {t'} ELSE {})
<1>7. /\ column' = last
      /\ row' = secondsOf(last)
      /\ drawn' = [c \in (lines \cup {column}) \ {0, last} |-> secondsOf(c)]
  BY <1>1, <1>3, <1>4 DEF FillColumns
<1>8. \A s : s \in row <=> s \in p.start + 1 .. t /\ Touches(s, column)
  BY <1>6 DEF SecondsOf
<1>9. \A c \in 0 .. p.w - 1 : c >= first /\ (c = column \/ c > first) =>
        secondsOf(c) = {s \in p.start + 1 .. t + 1 : Touches(s, c)}
  <2> SUFFICES ASSUME NEW c \in 0 .. p.w - 1, c >= first,
                      c = column \/ c > first, NEW s
               PROVE  s \in secondsOf(c)
                        <=> s \in p.start + 1 .. t + 1 /\ Touches(s, c)
    OBVIOUS
  <2>1. p.start \in Nat /\ p.end \in Nat /\ t + 1 < p.end /\ t' = t + 1
    BY <1>1, <1>2
  <2>2. /\ t + 1 \in p.start + 1 .. p.end - 1
        /\ p.start + 1 .. t \subseteq p.start + 1 .. p.end - 1
    BY <1>2, <2>1
  <2>3. s = t + 1 => (s \in secondsOf(c) <=> c \in lines)
    <3>1. s = t + 1 => s \notin row
      BY <1>2, <1>8
    <3> QED
      BY <2>1, <3>1
  <2>4. s = t + 1 => (s \in secondsOf(c) <=> Touches(s, c))
    BY <1>5, <2>2, <2>3
  <2>5. s # t + 1 => (s \in secondsOf(c) <=> c = column /\ s \in row)
    BY <2>1
  <2>6. s \in p.start + 1 .. t /\ c > first => ~Touches(s, c)
    BY <1>2, <1>5, <2>2
  <2>7. s # t + 1 => (s \in secondsOf(c)
                        <=> s \in p.start + 1 .. t /\ Touches(s, c))
    <3>1. CASE c = column
      BY <1>8, <2>5, <3>1
    <3>2. CASE c # column
      BY <2>5, <2>6, <3>2
    <3> QED
      BY <3>1, <3>2
  <2>8. s \in p.start + 1 .. t + 1 <=> s = t + 1 \/ s \in p.start + 1 .. t
    BY <1>2, <2>1
  <2> QED
    BY <2>4, <2>7, <2>8
<1>10. ColumnsOK'
  <2>1. last >= first /\ (last = column \/ last > first \/ t = p.start)
    BY <1>4, <1>6
  <2>2. row' = {s \in p.start + 1 .. t + 1 : Touches(s, last)}
    <3>1. CASE last = column \/ last > first
      BY <1>7, <1>9, <2>1, <3>1
    <3>2. CASE last # column /\ last = first /\ t = p.start
      <4>1. row' = {t + 1}
        BY <1>1, <1>7, <3>2
      <4>2. t + 1 \in p.start + 1 .. p.end - 1
        BY <1>1, <1>2
      <4>3. Touches(t + 1, last)
        BY <1>5, <3>2, <4>2
      <4>4. p.start + 1 .. t + 1 = {t + 1}
        BY <1>2, <3>2
      <4> QED
        BY <4>1, <4>3, <4>4
    <3> QED
      BY <1>4, <2>1, <3>1, <3>2
  <2>3. LineEnd(o)' = LineEnd(o)
    BY <1>1 DEF LineEnd
  <2>4. /\ t' # p.start /\ p' = p /\ t' = t + 1 /\ t' - p.start = o
        /\ column' = LineEnd(o)
    <3>1. t' # p.start
      BY <1>2, <1>3
    <3> QED
      BY <1>1, <1>3, <1>4, <1>7, <3>1
  <2>5. row' = SecondsOf(column, t)'
    BY <1>7, <2>2, <2>4 DEF SecondsOf, Touches
  <2>6. column' = (IF t = p.start THEN 0 ELSE LineEnd(t - p.start))'
    BY <2>3, <2>4
  <2> QED
    BY <1>1, <2>4, <2>5, <2>6 DEF ColumnsOK
<1>11. DrawnRight
  <2>1. column > 0 => DOMAIN drawn' = column .. column' - 1
    <3> SUFFICES ASSUME column > 0
                 PROVE  (lines \cup {column}) \ {0, last} = column .. last - 1
      BY <1>7
    <3>1. column = first /\ first > 0
      BY <1>6
    <3> QED
      BY <1>2, <1>4, <3>1
  <2>2. ASSUME NEW c \in DOMAIN drawn'
        PROVE  drawn'[c] = {s \in p.start + 1 .. p.end - 1 : Touches(s, c)}
    <3>1. c \in (lines \cup {column}) \ {0, last} /\ drawn'[c] = secondsOf(c)
      BY <1>7, <2>2
    <3>2. /\ c \in 0 .. p.w - 1 /\ c >= first /\ (c = column \/ c > first \/ c \in lines)
          /\ c < last
      BY <1>2, <1>4, <1>6, <3>1
    <3>3. secondsOf(c) = {s \in p.start + 1 .. t + 1 : Touches(s, c)}
      <4>1. CASE c = column \/ c > first
        BY <1>9, <3>2, <4>1
      <4>2. CASE c # column /\ c = first
        <5>1. t = p.start /\ secondsOf(c) = {t + 1}
          BY <1>1, <1>6, <3>2, <4>2
        <5>2. t + 1 \in p.start + 1 .. p.end - 1
          BY <1>1, <1>2
        <5>3. Touches(t + 1, c)
          BY <1>5, <3>2, <5>2
        <5>4. p.start + 1 .. t + 1 = {t + 1}
          BY <1>2, <5>1
        <5> QED
          BY <5>1, <5>3, <5>4
      <4> QED
        BY <1>2, <1>4, <3>2, <4>1, <4>2
    <3>4. \A s \in p.start + 1 .. p.end - 1 :
            Touches(s, c) => s \in p.start + 1 .. t + 1
      BY <1>2, <1>5, <3>2
    <3>5. p.start + 1 .. t + 1 \subseteq p.start + 1 .. p.end - 1
      BY <1>1, <1>2
    <3> HIDE DEF secondsOf
    <3> QED
      BY <3>1, <3>3, <3>4, <3>5
  <2> QED
    BY <2>1, <2>2 DEF DrawnRight
<1> QED
  BY <1>10, <1>11

(***************************************************************************)
(* Only the steps of the plot touch the columns; before it, they are those *)
(* of no second, and so is the second that seek reads.                     *)
(***************************************************************************)
LEMMA ColumnsStep ==
  ASSUME CursorOK, ChartOK, ColumnsOK, [Next]_vars
  PROVE  ColumnsOK'
<1>1. ASSUME UNCHANGED <<pc, pass, p, column, row, t>>
      PROVE  ColumnsOK'
  BY <1>1 DEF ColumnsOK, LineEnd, SecondsOf, Touches
<1>2. ASSUME pass' = 1 \/ pc' \notin {"list", "sizes", "seek", "next"}
      PROVE  ColumnsOK'
  BY <1>2 DEF ColumnsOK
<1>3. CASE UNCHANGED vars \/ Damper
  BY <1>1, <1>3 DEF vars, chartVars, plotVars, sdVars, Damper, Tick
<1>4. CASE Request \/ ListFails \/ Crash \/ Encode \/ EndPasses \/ Finish
           \/ FinishFailed
  BY <1>2, <1>4
  DEF Request, ListFails, Crash, Encode, EndPasses, Finish, FinishFailed, Answer
<1>5. CASE List \/ TakeSize \/ Listed
  BY <1>5 DEF List, TakeSize, Listed, ColumnsOK, plotVars, chartVars
<1>6. CASE SeekStart
  <2>1. CASE Seek(p.start) /\ pc' = "next"
    <3>1. /\ pc = "seek" /\ t' = p.start /\ UNCHANGED <<pass, p, column, row>>
      BY <1>6, <2>1 DEF SeekStart, Seek, plotVars
    <3>2. p.start + 1 .. p.start = {}
      BY DEF ChartOK
    <3>3. ASSUME pass = 2 PROVE row' = SecondsOf(column, t)'
      BY <3>1, <3>2, <3>3 DEF SecondsOf, ColumnsOK
    <3> QED
      BY <2>1, <3>1, <3>3 DEF ColumnsOK
  <2> QED
    BY <1>2, <1>6, <2>1 DEF SeekStart
<1>7. CASE TakePeak
  BY <1>2, <1>7 DEF TakePeak, ChartOK
<1>8. CASE Plot
  BY <1>8, PlotFills
<1>9. CASE BeginPlot
  BY <1>9 DEF BeginPlot, EndOfRange, ChartOK, ColumnsOK, plotVars
<1> QED
  BY <1>3, <1>4, <1>5, <1>6, <1>7, <1>8, <1>9 DEF Next, BuildChart

(***************************************************************************)
(* For any width and range: the columns that the plot draws, none of them  *)
(* column 0 and none after the column before the one that its last second  *)
(* ends in, are drawn from left to right, once each and without a gap, and *)
(* each one shows exactly the seconds after the first whose part of the    *)
(* width touches it.                                                       *)
(***************************************************************************)
THEOREM ColumnsAreComplete ==
  Spec => ColumnsShowTheirSeconds
<1> DEFINE I == CursorOK /\ FilesOK /\ EndsOK /\ ChartOK /\ ColumnsOK
           A == t' > t /\ pass = 2 /\ pc' = "next" /\ pc = "next" => DrawnRight
<1>1. Init => I
  BY CursorStarts, ChartStarts DEF Init, ColumnsOK
<1>2. I /\ [Next]_vars => I'
  BY CursorStep, FilesStep, EndsStep, ChartStep, ColumnsStep
<1>3. I /\ [Next]_vars => [A]_vars
  <2> SUFFICES ASSUME I, [Next]_vars, t' > t, pass = 2, pc' = "next", pc = "next",
                      vars' # vars
               PROVE  DrawnRight
    OBVIOUS
  <2>1. t' # t
    BY DEF CursorOK
  <2>2. Plot
    BY <2>1 DEF Next, BuildChart, Damper, Tick, sdVars, Request, List, TakeSize,
                ListFails, Listed, SeekStart, TakePeak, Crash, BeginPlot,
                EndPasses, Encode, Finish, FinishFailed, Answer
  <2> QED
    BY <2>2, PlotFills
<1> QED
  <2> HIDE DEF I, A
  <2>1. I /\ [Next]_vars => [A]_vars
    BY <1>3
  <2>2. Spec => []I
    BY <1>1, <1>2, PTL DEF Spec
  <2>3. Spec => [][A]_vars
    BY <2>1, <2>2, PTL DEF Spec
  <2> QED
    BY <2>3 DEF A, ColumnsShowTheirSeconds

-----------------------------------------------------------------------------
(***************************************************************************)
(* The peak. No file is of day 0, so a range of "all" that has any file    *)
(* begins after second 0, which chart_plot would take for "all" once more. *)
(***************************************************************************)
LEMMA LinkedAfterZero ==
  ASSUME DiskOK
  PROVE  Linked \subseteq Nat \ {0}
<1> SUFFICES ASSUME NEW s \in Recorded PROVE Day(s) \in Nat \ {0}
  BY DEF Linked
<1>1. s \in Nat /\ s >= DayLen
  BY RecordedFacts, StatReaderAssumption DEF Seconds
<1>2. Day(s) \in Nat /\ s < DayStart(Day(s)) + DayLen
  BY <1>1, DayFacts
<1>3. DayStart(0) = 0
  BY StatReaderAssumption DEF DayStart
<1>4. Day(s) # 0
  BY <1>1, <1>2, <1>3, StatReaderAssumption
<1> QED
  BY <1>2, <1>4

(***************************************************************************)
(* Data that start somewhere do not start at 0, which stands for no data.  *)
(***************************************************************************)
LEMMA DataStartAfterZero ==
  ASSUME NEW ends, DOMAIN ends \subseteq Nat \ {0}, DOMAIN ends # {}
  PROVE  DataStart(ends) # 0
<1> DEFINE S == {DayStart(d) : d \in DOMAIN ends}
<1>1. \A d \in DOMAIN ends : DayStart(d) \in Nat \ {0}
  <2> SUFFICES ASSUME NEW d \in Nat \ {0} PROVE DayStart(d) \in Nat \ {0}
    OBVIOUS
  <2> QED
    BY StatReaderAssumption, ProductOrder DEF DayStart
<1>2. S \subseteq Nat \ {0} /\ S # {}
  BY <1>1
<1> HIDE DEF S
<1>3. Min(S) \in S
  BY <1>2, MinIs
<1> QED
  BY <1>2, <1>3 DEF DataStart, S

(***************************************************************************)
(* What a step of the loops returns, if not zeros, is a record of a listed *)
(* file, though that file may be unlinked by now.                          *)
(***************************************************************************)
LEMMA ReadReturns ==
  ASSUME DiskOK, NEW d \in Int, NEW pos \in Nat \ {0}, NEW s,
         DayStart(d) + pos = s, Read(d, pos), info'.value # 0
  PROVE  /\ s \in Recorded /\ info'.value = records[s]
         /\ Day(s) = d /\ s # DayStart(Day(s))
<1>1. pos < Size(d) /\ info'.value = RecordOf(s)
  BY DEF Read, Zeros
<1>2. s \in Seconds /\ info'.value = records[s] /\ s \in Recorded
  BY <1>1 DEF RecordOf, Recorded
<1>3. DayStart(d) \in Int /\ DayLen \in Nat /\ Size(d) \in 0 .. DayLen
  BY SizeFacts, StatReaderAssumption DEF DayStart
<1>4. s \in Nat
  BY <1>2, RecordedFacts
<1>5. Day(s) = d
  BY <1>1, <1>3, <1>4, DayIs
<1> QED
  BY <1>2, <1>3, <1>5

(***************************************************************************)
(* A value that the cursor returns is one that the disk has for that       *)
(* second.                                                                 *)
(***************************************************************************)
LEMMA NextReturns ==
  ASSUME CursorOK, FilesOK, pc = "next", NextRecord, info'.value # 0
  PROVE  /\ t' \in Recorded /\ info'.value = records[t']
         /\ Day(t') \in names /\ t' # DayStart(Day(t'))
<1>1. t' \in Nat /\ t' = t + 1 /\ DOMAIN days = names /\ names \subseteq Nat
  BY DEF NextRecord, CursorOK
<1>2. PICK s \in Nat : s = t'
  BY <1>1
<1>3. PICK d \in names, pos \in Nat \ {0} : DayStart(d) + pos = s /\ Read(d, pos)
  <2>1. CASE f = NoFile
    <3>1. Fetch(s)
      BY <1>2, <2>1 DEF NextRecord
    <3>2. info' # Zeros
      BY DEF Zeros
    <3>3. PICK d \in names : Covers(d, s) /\ Read(d, Offset(d, s))
      BY <1>1, <3>1, <3>2 DEF Fetch
    <3>4. Offset(d, s) \in Nat \ {0} /\ DayStart(d) + Offset(d, s) = s
      BY <1>1, <1>2, <3>3, StatReaderAssumption DEF Covers, Offset, DayStart
    <3> QED
      BY <3>3, <3>4
  <2>2. CASE f # NoFile
    <3>1. /\ f.day \in names /\ f.pos \in Nat \ {0}
          /\ DayStart(f.day) + f.pos = s
          /\ Read(f.day, f.pos)
      BY <1>1, <1>2, <2>2 DEF CursorOK, OpenFileOK, FilesOK, NextRecord
    <3> QED
      BY <3>1
  <2> QED
    BY <2>1, <2>2
<1>4. d \in Int /\ DiskOK
  BY <1>1 DEF CursorOK
<1>5. /\ s \in Recorded /\ info'.value = records[s]
      /\ Day(s) = d /\ s # DayStart(Day(s))
  BY <1>3, <1>4, ReadReturns
<1> QED
  BY <1>2, <1>3, <1>5

(***************************************************************************)
(* A value up to the peak gives a bar within the chart, rounding included. *)
(***************************************************************************)
LEMMA HeightFits ==
  ASSUME NEW v \in Nat, peak \in Nat, v <= peak, Divisor = peak + 1
  PROVE  Height(v) \in Nat /\ Height(v) < ChartH
<1>1. PICK h \in Nat : ChartH = h + 1
  <2>1. ChartH - 1 \in Nat /\ ChartH = (ChartH - 1) + 1
    BY ChartAssumption
  <2> QED
    BY <2>1
<1>2. ChartH * v <= ChartH * peak /\ ChartH * v \in Nat
      /\ ChartH * peak < ChartH * (peak + 1) /\ ChartH * (peak + 1) \in Nat
      /\ ChartH * peak \in Nat
  BY ChartAssumption, ProductOrder
<1>3. v * ChartH = ChartH * v
  BY ChartAssumption
<1>4. v * ChartH \in Nat /\ v * ChartH < (h + 1) * (peak + 1)
  BY <1>1, <1>2, <1>3
<1>5. peak + 1 \in Nat \ {0}
  OBVIOUS
<1>6. PICK n \in Nat \ {0} : n = peak + 1
  BY <1>5
<1>7. PICK a \in Nat : a = v * ChartH
  BY <1>4
<1>8. a \div n \in Nat /\ a \div n <= h
  BY <1>4, <1>6, <1>7, QuotientIs, QuotientBounds
<1> QED
  BY <1>1, <1>6, <1>7, <1>8 DEF Height

(***************************************************************************)
(* What the plot will read is under the peak: of the seconds recorded when *)
(* the chart began, the first pass has seen all but those of removed       *)
(* files, which the second pass does not list; and a file of the second    *)
(* pass's list, removed or not, was there for the first pass to read.      *)
(***************************************************************************)
Plotted(s) == s \in Recorded /\ s < begun /\ s # DayStart(Day(s))

PeakOK ==
  /\ begun \in Nat /\ begun <= now
  /\ names \subseteq Nat \ {0}
  /\ pc = "next" \/ pass = 2 \/ (pc = "seek" /\ names # {}) => p.start # 0
  /\ pass = 1 /\ pc \in {"sizes", "seek", "next"} =>
       \A s \in Recorded : s < begun => s \in seen
  /\ pass = 1 /\ pc = "next" /\ ~vanished =>
       \A s \in p.start + 1 .. t :
         Plotted(s) /\ Day(s) \notin removed => records[s] <= peak
  /\ pass = 2 /\ pc = "list" /\ ~vanished =>
       \A s \in p.start + 1 .. p.end - 1 :
         Plotted(s) /\ Day(s) \notin removed => records[s] <= peak
  /\ pass = 2 /\ pc \in {"sizes", "seek", "next"} /\ ~vanished =>
       \A s \in p.start + 1 .. p.end - 1 :
         Plotted(s) /\ Day(s) \in names => records[s] <= peak

(***************************************************************************)
(* The clock moves on: what was seen stays recorded.                       *)
(***************************************************************************)
LEMMA PeakTick ==
  ASSUME CursorOK, PeakOK, Tick, UNCHANGED chartVars
  PROVE  PeakOK'
<1>1. UNCHANGED <<names, days, t, seen, vanished, pc, pass, p, peak, begun>>
  BY DEF Tick, sdVars, sdGhosts, chartVars
<1>2. /\ now \in Int /\ now' \in Int /\ now <= now' /\ removed \subseteq removed'
      /\ \A s \in Seconds : s < now => records'[s] = records[s]
      /\ \A s \in Seconds : s < now /\ s \in Recorded' => s \in Recorded
  BY TickKeepsDisk, StatReaderAssumption DEF CursorOK, DiskOK
<1>3. ASSUME NEW s \in Recorded', s < begun
      PROVE  s \in Recorded /\ records'[s] = records[s]
  <2>1. s \in Seconds /\ s \in Int
    BY StatReaderAssumption DEF Recorded, Seconds
  <2>2. s < now
    BY <1>2, <1>3, <2>1 DEF PeakOK
  <2> QED
    BY <1>2, <2>1, <2>2
<1>4. \A s : Plotted(s)' => Plotted(s) /\ records'[s] = records[s]
  BY <1>1, <1>3 DEF Plotted, Day, DayStart
<1>5. begun \in Nat /\ begun <= now'
  BY <1>2 DEF PeakOK
<1>6. pass = 1 /\ pc \in {"sizes", "seek", "next"} =>
        \A s \in Recorded' : s < begun => s \in seen
  BY <1>3 DEF PeakOK
<1>7. \A s : Plotted(s)' /\ Day(s) \notin removed' => Plotted(s) /\ Day(s) \notin removed
  BY <1>2, <1>4
<1>8. /\ pass = 1 /\ pc = "next" /\ ~vanished =>
           \A s \in p.start + 1 .. t :
             Plotted(s)' /\ Day(s) \notin removed' => records'[s] <= peak
      /\ pass = 2 /\ pc = "list" /\ ~vanished =>
           \A s \in p.start + 1 .. p.end - 1 :
             Plotted(s)' /\ Day(s) \notin removed' => records'[s] <= peak
      /\ pass = 2 /\ pc \in {"sizes", "seek", "next"} /\ ~vanished =>
           \A s \in p.start + 1 .. p.end - 1 :
             Plotted(s)' /\ Day(s) \in names => records'[s] <= peak
  BY <1>4, <1>7 DEF PeakOK
<1> QED
  BY <1>1, <1>5, <1>6, <1>8 DEF PeakOK, Day

(***************************************************************************)
(* The peak is at least every value that the second pass may meet.         *)
(***************************************************************************)
LEMMA PeakStep ==
  ASSUME CursorOK, FilesOK, ListedOK, SizesOK, ChartOK, PeakOK, [Next]_vars
  PROVE  PeakOK'
<1>1. ASSUME UNCHANGED <<diskVars, names, days, t, seen, vanished, pc, pass, p,
                         peak, begun>>
      PROVE  PeakOK'
  BY <1>1 DEF PeakOK, Plotted, Recorded, Seconds, Day, DayStart, diskVars
<1>2. CASE UNCHANGED vars
  BY <1>1, <1>2 DEF vars, chartVars, plotVars, sdVars, sdGhosts
<1>3. CASE Damper
  BY <1>3, PeakTick DEF Damper
<1>4. /\ now \in Nat /\ names \subseteq Nat \ {0} /\ begun \in Nat /\ begun <= now
      /\ t \in Nat /\ p \in [w : Nat, start : Nat, end : Nat]
  BY StatReaderAssumption DEF CursorOK, DiskOK, PeakOK, ChartOK
<1>5. CASE Request
  BY <1>4, <1>5 DEF Request, PeakOK, ChartOK, diskVars, sdVars
<1>6. CASE List
  <2>1. /\ UNCHANGED <<diskVars, pass, p, peak, vanished>>
        /\ begun' = IF pass = 1 THEN now ELSE begun
        /\ pc = "list" /\ pc' = "sizes"
        /\ names' = Linked /\ seen' = Recorded
    BY <1>6 DEF List, ListDir
  <2>2. begun' \in Nat /\ begun' <= now' /\ (pass = 2 => begun' = begun)
    BY <1>4, <2>1 DEF diskVars
  <2>3. pass = 2 => p.start # 0
    BY DEF PeakOK
  <2>4. Recorded' = Recorded
    BY <2>1 DEF diskVars, Recorded, Seconds
  <2>5. names' \subseteq Nat \ {0}
    BY <2>1, LinkedAfterZero DEF CursorOK
  <2>6. ASSUME pass = 2, ~vanished, NEW s \in p.start + 1 .. p.end - 1,
               Plotted(s)', Day(s) \in Linked
        PROVE  records[s] <= peak
    <3>1. Plotted(s) /\ Day(s) \notin removed
      BY <2>2, <2>4, <2>6 DEF Plotted, Linked, Day, DayStart
    <3> QED
      BY <2>1, <2>6, <3>1 DEF PeakOK
  <2> QED
    BY <2>1, <2>2, <2>3, <2>4, <2>5, <2>6 DEF PeakOK, diskVars, Day
<1>7. CASE TakeSize
  <2>1. /\ UNCHANGED <<diskVars, names, seen, t, pc, pass, p, peak, begun>>
        /\ pc = "sizes" /\ (vanished => vanished')
    BY <1>7 DEF TakeSize, FillDayInfo, chartVars
  <2>2. Recorded' = Recorded /\ \A s : Plotted(s)' = Plotted(s)
    BY <2>1 DEF Recorded, Plotted, diskVars, Seconds, Day, DayStart
  <2> QED
    BY <1>4, <2>1, <2>2 DEF PeakOK, diskVars, Day
<1>15. CASE ListFails
  <2>1. /\ UNCHANGED <<diskVars, vanished, pass, p, peak, begun>>
        /\ pc' = "encode" /\ names' = {}
    BY <1>15 DEF ListFails, Close
  <2> QED
    BY <1>4, <2>1 DEF PeakOK, diskVars
<1>16. CASE Listed
  <2>1. /\ UNCHANGED <<diskVars, names, seen, vanished, t, pass, peak, begun>>
        /\ pc = "sizes" /\ pc' = "seek" /\ DOMAIN days = names
        /\ p' = IF p.start = 0
                THEN [w |-> p.w, start |-> DataStart(days), end |-> DataEnd(days)]
                ELSE p
    BY <1>16 DEF Listed, sdVars, sdGhosts
  <2>2. Recorded' = Recorded /\ \A s : Plotted(s)' = Plotted(s)
    BY <2>1 DEF Recorded, Plotted, diskVars, Seconds, Day, DayStart
  <2>3. pass = 2 => p' = p
    BY <2>1 DEF PeakOK
  <2>4. names # {} \/ pass = 2 => p'.start # 0
    <3>1. names # {} => DataStart(days) # 0
      BY <1>4, <2>1, DataStartAfterZero
    <3> QED
      BY <2>1, <2>3, <3>1 DEF PeakOK
  <2>5. pass = 2 /\ ~vanished' =>
          \A s \in p'.start + 1 .. p'.end - 1 :
            Plotted(s)' /\ Day(s) \in names => records[s] <= peak
    BY <2>1, <2>2, <2>3 DEF PeakOK
  <2>6. pass = 1 => \A s \in Recorded' : s < begun => s \in seen
    BY <2>1, <2>2 DEF PeakOK
  <2> QED
    BY <1>4, <2>1, <2>4, <2>5, <2>6 DEF PeakOK, diskVars, Day
<1>8. CASE SeekStart
  <2>1. UNCHANGED <<diskVars, pass, p, peak, begun>> /\ pc = "seek"
        /\ UNCHANGED vanished
    BY <1>8 DEF SeekStart, Seek, sdGhosts
  <2>2. CASE names # {} /\ Seek(p.start) /\ pc' = "next"
    <3>1. UNCHANGED <<names, days, seen>> /\ t' = p.start
      BY <2>2 DEF Seek, sdGhosts
    <3>2. Recorded' = Recorded /\ \A s : Plotted(s)' = Plotted(s)
      BY <2>1 DEF Recorded, Plotted, diskVars, Seconds, Day, DayStart
    <3>3. p.start + 1 .. p.start = {}
      BY <1>4
    <3>4. /\ pass = 1 => \A s \in Recorded' : s < begun => s \in seen
          /\ pass = 2 /\ ~vanished =>
               \A s \in p.start + 1 .. p.end - 1 :
                 Plotted(s)' /\ Day(s) \in names => records[s] <= peak
          /\ p.start # 0
      BY <2>1, <2>2, <3>2 DEF PeakOK
    <3> QED
      BY <1>4, <2>1, <2>2, <3>1, <3>3, <3>4 DEF PeakOK, diskVars, Day
  <2>3. CASE Close /\ pc' = "encode"
    BY <1>4, <2>1, <2>3 DEF PeakOK, Close, diskVars
  <2> QED
    BY <1>8, <2>2, <2>3 DEF SeekStart
<1>9. CASE TakePeak
  <2>1. /\ UNCHANGED <<diskVars, names, days, seen, vanished, pc, pass, p, begun>>
        /\ pc = "next" /\ pass = 1 /\ NextRecord /\ t' = t + 1
        /\ peak' = Max({peak, info'.value})
    BY <1>9 DEF TakePeak, NextRecord, sdGhosts
  <2>2. Recorded' = Recorded /\ \A s : Plotted(s)' = Plotted(s)
    BY <2>1 DEF Recorded, Plotted, diskVars, Seconds, Day, DayStart
  <2>3. PICK v \in Nat : v = info'.value
    BY <1>4, FilesStep, ValuesAre DEF FilesOK
  <2>4. peak \in Nat /\ peak' \in Nat /\ peak' >= peak /\ peak' >= v
    <3>1. peak \in Nat
      BY StatReaderAssumption DEF ChartOK
    <3> QED
      BY <2>1, <2>3, <3>1, MaxOfTwo
  <2>5. ASSUME ~vanished, NEW s \in p.start + 1 .. t', Plotted(s),
               Day(s) \notin removed
        PROVE  records[s] <= peak'
    <3>1. s \in Recorded /\ s < begun /\ s \in seen /\ records[s] \in Nat
      BY <2>1, <2>5, ValuesAre
      DEF PeakOK, Plotted, Recorded, CursorOK, DiskOK
    <3>2. CASE s = t'
      <4>1. t' \in seen /\ t' # DayStart(Day(t')) /\ Day(t') \notin removed
        BY <2>5, <3>1, <3>2 DEF Plotted
      <4>2. info'.value = records[t']
        BY <2>1, <2>5, <4>1, NextFinds
      <4> QED
        BY <2>3, <2>4, <3>2, <4>2
    <3>3. CASE s # t'
      <4>1. s \in p.start + 1 .. t
        BY <1>4, <2>1, <2>5, <3>3
      <4>2. records[s] <= peak
        BY <2>1, <2>5, <4>1 DEF PeakOK
      <4> QED
        BY <2>4, <3>1, <4>2
    <3> QED
      BY <3>2, <3>3
  <2>6. \A s \in Recorded' : s < begun => s \in seen
    BY <2>1, <2>2 DEF PeakOK
  <2>7. p.start # 0
    BY <2>1 DEF PeakOK
  <2>8. ~vanished' => \A s \in p'.start + 1 .. t' :
          Plotted(s)' /\ Day(s) \notin removed => records[s] <= peak'
    BY <2>1, <2>2, <2>5
  <2>9. /\ UNCHANGED <<now, records, removed, names, seen, pc, pass, p, begun>>
        /\ pc = "next" /\ pass = 1
    BY <2>1 DEF diskVars
  <2> QED
    BY <1>4, <2>6, <2>7, <2>8, <2>9 DEF PeakOK, Day
<1>10. CASE Plot
  <2>1. /\ UNCHANGED <<diskVars, names, seen, vanished, pc, pass, p, peak, begun>>
        /\ pc = "next" /\ pass = 2
    BY <1>10 DEF Plot, NextRecord, sdGhosts
  <2>2. Recorded' = Recorded /\ \A s : Plotted(s)' = Plotted(s)
    BY <2>1 DEF Recorded, Plotted, diskVars, Seconds, Day, DayStart
  <2> QED
    BY <1>4, <2>1, <2>2 DEF PeakOK, diskVars, Day
<1>11. CASE BeginPlot
  <2>1. /\ UNCHANGED <<diskVars, vanished, p, peak, begun>>
        /\ pc = "next" /\ pass = 1 /\ pass' = 2 /\ pc' = "list"
        /\ t + 1 >= p.end /\ names' = {}
    BY <1>11 DEF BeginPlot, EndOfRange, Close
  <2>2. \A s : Plotted(s)' = Plotted(s)
    BY <2>1 DEF Recorded, Plotted, diskVars, Seconds, Day, DayStart
  <2>3. p.start + 1 .. p.end - 1 \subseteq p.start + 1 .. t
    BY <1>4, <2>1
  <2>4. p.start # 0 /\ (~vanished =>
          \A s \in p.start + 1 .. p.end - 1 :
            Plotted(s)' /\ Day(s) \notin removed => records[s] <= peak)
    BY <2>1, <2>2, <2>3 DEF PeakOK
  <2> QED
    BY <1>4, <2>1, <2>4 DEF PeakOK, diskVars, Day
<1>12. CASE EndPasses
  <2>1. /\ UNCHANGED <<diskVars, p, begun, pass>>
        /\ pc' = "encode" /\ names' = {} /\ p.start # 0
    BY <1>12 DEF EndPasses, EndOfRange, Close, PeakOK
  <2> QED
    BY <1>4, <2>1 DEF PeakOK, diskVars
<1>17. CASE Crash
  <2>1. /\ UNCHANGED <<diskVars, names, vanished, pass, p, begun>>
        /\ pc' = "crashed" /\ pass = 2
    BY <1>17 DEF Crash, NextRecord, sdGhosts
  <2> QED
    BY <1>4, <2>1 DEF PeakOK, diskVars
<1>13. CASE Encode
  BY <1>4, <1>13 DEF Encode, PeakOK, diskVars, sdVars, sdGhosts
<1>14. CASE Finish \/ FinishFailed
  <2>1. /\ pc' = "idle" /\ pass' = 1 /\ begun' = 0
        /\ UNCHANGED <<now, names>>
    BY <1>14 DEF Finish, FinishFailed, Answer, diskVars, sdVars
  <2> QED
    BY <1>4, <2>1 DEF PeakOK
<1> QED
  BY <1>2, <1>3, <1>5, <1>6, <1>7, <1>8, <1>9, <1>10, <1>11, <1>12, <1>13,
     <1>14, <1>15, <1>16, <1>17
  DEF Next, BuildChart

(***************************************************************************)
(* So every bar of the second pass is within the chart.                    *)
(***************************************************************************)
LEMMA PlotStaysUnder ==
  ASSUME CursorOK, FilesOK, ChartOK, PeakOK, PlotFitsPeak, [Next]_vars
  PROVE  PlotFitsPeak'
<1>1. ASSUME UNCHANGED <<p, begun, height, peak>>, vanished => vanished',
             pc' # "idle" => pc # "idle", pc' = "crashed" => pc = "crashed"
      PROVE  PlotFitsPeak'
  BY <1>1 DEF PlotFitsPeak
<1>2. ASSUME height' = 0, pc' # "crashed"
      PROVE  PlotFitsPeak'
  BY <1>2, ChartAssumption DEF PlotFitsPeak
<1>3. CASE UNCHANGED vars \/ Damper
  BY <1>1, <1>3 DEF vars, sdGhosts, chartVars, plotVars, Damper, Tick
<1>4. CASE TakeSize \/ ListFails \/ SeekStart \/ BeginPlot \/ EndPasses \/ Encode
  BY <1>1, <1>4
  DEF TakeSize, FillDayInfo, ListFails, SeekStart, Seek, BeginPlot, EndPasses,
      EndOfRange, Encode, sdGhosts, plotVars, chartVars
<1>5. CASE TakePeak
  BY <1>2, <1>5 DEF TakePeak, ChartOK, plotVars
<1>6. CASE Request \/ Finish \/ FinishFailed
  BY <1>2, <1>6 DEF Request, Finish, FinishFailed, Answer, ChartOK, plotVars
<1>7. CASE List \/ Listed
  <2>1. CASE pass = 1
    BY <1>2, <1>7, <2>1 DEF List, Listed, ChartOK, plotVars
  <2>2. CASE pass = 2
    BY <1>1, <1>7, <2>2 DEF List, ListDir, Listed, PeakOK, plotVars, sdGhosts
  <2> QED
    BY <2>1, <2>2 DEF ChartOK
<1>8. ASSUME pc = "next", pass = 2, NextRecord, t' < p.end,
             p.end <= begun, ~vanished
      PROVE  \E v \in Nat : v = info'.value /\ v <= peak
  <2>1. peak \in Nat /\ t \in Nat /\ t >= p.start /\ begun \in Nat /\ t' = t + 1
        /\ p \in [w : Nat, start : Nat, end : Nat]
    BY <1>8, StatReaderAssumption DEF ChartOK, CursorOK, PeakOK, NextRecord
  <2>2. PICK v \in Values \cup {0} : v = info'.value
    BY FilesStep DEF FilesOK
  <2>3. v \in Nat
    BY ValuesAre
  <2>4. CASE v = 0
    BY <2>1, <2>2, <2>4
  <2>5. CASE v # 0
    <3>1. /\ t' \in Recorded /\ v = records[t']
          /\ Day(t') \in names /\ t' # DayStart(Day(t'))
      BY <1>8, <2>2, <2>5, NextReturns
    <3>2. t' \in p.start + 1 .. p.end - 1 /\ t' < begun
      BY <1>8, <2>1
    <3>3. v <= peak
      BY <1>8, <3>1, <3>2 DEF PeakOK, Plotted
    <3> QED
      BY <2>2, <2>3, <3>3
  <2> QED
    BY <2>4, <2>5
<1>9. CASE Plot
  <2>1. /\ UNCHANGED <<vanished, pc, p, peak, begun>>
        /\ pc = "next" /\ pass = 2 /\ NextRecord /\ t' < p.end /\ Divisor # 0
        /\ height' \in {Max({height, Height(info'.value)}), Height(info'.value)}
    BY <1>9 DEF Plot, NextRecord, FillColumns, sdGhosts
  <2>2. SUFFICES ASSUME p.end <= begun, ~vanished
                 PROVE  height' < ChartH
    BY <2>1 DEF PlotFitsPeak
  <2>3. height < ChartH /\ height \in Nat /\ ChartH \in Nat
    BY <2>1, <2>2, ChartAssumption DEF PlotFitsPeak, ChartOK
  <2>4. PICK v \in Nat : v = info'.value /\ v <= peak
    BY <1>8, <2>1, <2>2
  <2>5. peak \in Nat /\ Divisor = peak + 1
    BY <2>1, DivisorIs, StatReaderAssumption DEF ChartOK
  <2>6. PICK h \in Nat : h = Height(info'.value) /\ h < ChartH
    BY <2>4, <2>5, HeightFits
  <2> QED
    BY <2>1, <2>3, <2>6, MaxOfTwo
<1>10. CASE Crash
  <2>1. /\ UNCHANGED <<vanished, p, peak, height, begun>>
        /\ pc = "next" /\ pass = 2 /\ NextRecord /\ t' < p.end
        /\ Divisor # 0 => Height(info'.value) > ChartH
    BY <1>10 DEF Crash, NextRecord, sdGhosts, plotVars
  <2>2. SUFFICES ASSUME p.end <= begun, ~vanished
                 PROVE  height < ChartH /\ peak = U32 - 1
    BY <2>1 DEF PlotFitsPeak
  <2>3. height < ChartH
    BY <2>1, <2>2 DEF PlotFitsPeak
  <2>4. PICK v \in Nat : v = info'.value /\ v <= peak
    BY <1>8, <2>1, <2>2
  <2>5. /\ peak \in Nat
        /\ Divisor # 0 => Divisor = peak + 1
        /\ Divisor = 0 => peak = U32 - 1
    BY DivisorIs, StatReaderAssumption DEF ChartOK
  <2>6. ASSUME Divisor # 0 PROVE FALSE
    <3>1. PICK h \in Nat : h = Height(info'.value) /\ h < ChartH
      BY <2>4, <2>5, <2>6, HeightFits
    <3> QED
      BY <2>1, <2>6, <3>1, ChartAssumption
  <2> QED
    BY <2>3, <2>5, <2>6
<1> QED
  BY <1>3, <1>4, <1>5, <1>6, <1>7, <1>9, <1>10 DEF Next, BuildChart

(***************************************************************************)
(* Two passes over files that grow and disappear between and during them,  *)
(* with the last second rewritten, and still the plot of a range that was  *)
(* over when the chart began fits under its peak, in 32 bits, and crashes  *)
(* for no peak but the greatest: for every such range, the values and the  *)
(* height of the image being any.                                          *)
(***************************************************************************)
THEOREM PlotUnderPeak ==
  Spec => []PlotFitsPeak
<1> DEFINE I == /\ CursorOK /\ ListedOK /\ SizesOK /\ FilesOK
                /\ EndsOK /\ ChartOK /\ PeakOK /\ PlotFitsPeak
<1>1. Init => I
  <2> SUFFICES ASSUME Init PROVE PeakOK /\ PlotFitsPeak
    BY CursorStarts, ListsStart, ChartStarts
  <2>1. pc = "idle" /\ pass = 1 /\ begun = 0 /\ names = {} /\ now = StartTime - 1
    BY DEF Init, DiskInit, CursorInit
  <2>2. 0 <= now
    BY <2>1, StatReaderAssumption
  <2> QED
    BY <2>1, <2>2 DEF PeakOK, PlotFitsPeak
<1>2. I /\ [Next]_vars => I'
  BY CursorStep, ListsStep, FilesStep, EndsStep, ChartStep, PeakStep,
     PlotStaysUnder
<1>3. I => PlotFitsPeak
  OBVIOUS
<1> QED
  BY <1>1, <1>2, <1>3, PTL DEF Spec

===============================================================================
