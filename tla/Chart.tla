--------------------------------- MODULE Chart ---------------------------------
(***************************************************************************)
(* One chart of stat/damper_img.c, from the request to the answer:         *)
(* parse_params, chart_get_peak, chart_plot and build_chart. The data is   *)
(* read twice through the cursor of stat/stats.c, for the peak and for the *)
(* plot; the plot fills the columns of the image one after the other; the  *)
(* image is written to memory as PNG and encoded.                          *)
(*                                                                         *)
(* Of a column's pixels the model keeps how high it is and which seconds   *)
(* have been added to it: chart_draw_row paints the pixels below.          *)
(***************************************************************************)
EXTENDS StatReader, Base64

CONSTANTS Queries,       \* the query strings of requests, as parameters
          GarbageRanges, \* what p->start and p->end hold if not set
          ChartH,        \* p->h
          Pngs           \* what libpng may write, nothing if it fails

ASSUME ChartAssumption ==
  /\ ChartH \in Nat \ {0}
  /\ Pngs \subseteq Seq(Byte)
  /\ Queries \subseteq Seq([name : STRING, value : Nat, short : BOOLEAN])
  /\ \A r \in GarbageRanges : r.start \in Nat /\ r.end \in Nat

VARIABLES pc,         \* where build_chart is: "idle" without a request
          pass,       \* 1 in chart_get_peak, 2 in chart_plot
          p,          \* the request: its width, its range
          peak,       \* chart_get_peak's result
          column,     \* line_prev
          row,        \* ghost: the seconds added to row[] since it was cleared
          height,     \* the pixels in use of row[]
          drawn,      \* drawn[c]: the seconds of column c, just drawn
          png, img,   \* mempng; r->img
          begun       \* ghost: the time when the first pass began

plotVars  == <<column, row, height, drawn>>
imageVars == <<png, img>>
chartVars == <<pc, pass, p, peak, plotVars, imageVars, begun>>
vars == <<diskVars, sdVars, sdGhosts, chartVars>>

NoColumns == [c \in {} |-> {}]
NoRequest == [w |-> 0, start |-> 0, end |-> 0]

-----------------------------------------------------------------------------
(***************************************************************************)
(* parse_params: a parameter of less than three characters ("w=") ends the *)
(* parsing, of several for one name the last counts, and what is not named *)
(* keeps its value, which for the range is whatever was there.             *)
(***************************************************************************)
Parsed(q) == {i \in DOMAIN q : \A j \in 1 .. i : ~q[j].short}

ParamOr(q, name, default) ==
  LET named == {i \in Parsed(q) : q[i].name = name}
  IN  IF named = {} THEN default ELSE q[Max(named)].value

Request ==
  /\ pc = "idle"
  /\ \E q \in Queries : \E garbage \in GarbageRanges :
       p' = [w     |-> ParamOr(q, "w", 0),
             start |-> ParamOr(q, "start", garbage.start),
             end   |-> ParamOr(q, "end", garbage.end)]
  /\ p'.w > 0                       \* width 0 is not considered
  /\ pc' = "list" /\ pass' = 1
  /\ UNCHANGED <<diskVars, sdVars, sdGhosts, peak, plotVars, imageVars, begun>>

-----------------------------------------------------------------------------
(***************************************************************************)
(* stat_data_open, which may fail, and, for a request of "all", the range  *)
(* that it finds.                                                          *)
(***************************************************************************)
List ==
  /\ pc = "list"
  /\ ListDir
  /\ pc' = "sizes"
  /\ begun' = IF pass = 1 THEN now ELSE begun
  /\ UNCHANGED <<diskVars, pass, p, peak, plotVars, imageVars>>

TakeSize ==
  /\ pc = "sizes"
  /\ \E d \in names \ DOMAIN days : FillDayInfo(d)
  /\ UNCHANGED <<diskVars, chartVars>>

ListFails ==
  /\ pc \in {"list", "sizes"}
  /\ Close
  /\ pc' = "encode"
  /\ UNCHANGED <<diskVars, vanished, pass, p, peak, plotVars, imageVars, begun>>

Listed ==
  /\ pc = "sizes" /\ DOMAIN days = names
  /\ p' = IF p.start = 0
          THEN [w |-> p.w, start |-> DataStart(days), end |-> DataEnd(days)]
          ELSE p
  /\ pc' = "seek"
  /\ UNCHANGED <<diskVars, sdVars, sdGhosts, pass, peak, plotVars, imageVars,
                 begun>>

(***************************************************************************)
(* stat_data_seek to p->start, whose record is not used. It fails without  *)
(* any file; in chart_plot the calloc of row may fail as well.             *)
(***************************************************************************)
SeekStart ==
  /\ pc = "seek"
  /\ \/ names # {} /\ Seek(p.start) /\ pc' = "next"
     \/ /\ names = {} \/ pass = 2
        /\ Close /\ UNCHANGED vanished
        /\ pc' = "encode"
  /\ UNCHANGED <<diskVars, pass, p, peak, plotVars, imageVars, begun>>

TakePeak ==
  /\ pc = "next" /\ pass = 1
  /\ NextRecord
  /\ t' < p.end
  /\ peak' = Max({peak, info'.value})
  /\ UNCHANGED <<diskVars, pc, pass, p, plotVars, imageVars, begun>>

-----------------------------------------------------------------------------
(***************************************************************************)
(* chart_plot. The second that is o seconds after the start fills the      *)
(* columns from LineStart(o) to LineEnd(o).                                *)
(***************************************************************************)
DivisorPeak == peak                                  \* mutated form: no "+ 1"

Divisor == (peak + 1) % U32

Height(value) == (value * ChartH) \div Divisor

LineStart(o) == (p.w * o) \div (p.end - p.start)

LineEndNext(o) ==           \* mutated form: the column after is not included
  Max({LineStart(o), ((p.w * (o + 1)) \div (p.end - p.start)) - 1})

LineEnd(o) == Min({p.w - 1, (p.w * (o + 1)) \div (p.end - p.start)})

(***************************************************************************)
(* Coming to another column, the loop draws the one before, but never      *)
(* column 0, and clears row[]; nothing is drawn after the loop.            *)
(***************************************************************************)
FillColumns(lines, last, h) ==
  LET secondsOf(c) == (IF c = column THEN row ELSE {}) \cup
                      (IF c \in lines THEN {t'} ELSE {})
  IN  /\ column' = last
      /\ row' = secondsOf(last)
      /\ height' = IF last = column THEN Max({height, h}) ELSE h
      /\ drawn' = [c \in (lines \cup {column}) \ {0, last} |-> secondsOf(c)]

Plot ==
  /\ pc = "next" /\ pass = 2
  /\ NextRecord
  /\ t' < p.end /\ Divisor # 0
  /\ LET o == t' - p.start
     IN  FillColumns(LineStart(o) .. LineEnd(o), LineEnd(o), Height(info'.value))
  /\ UNCHANGED <<diskVars, pc, pass, p, peak, imageVars, begun>>

(***************************************************************************)
(* The program ends with a division by zero or, perhaps, when the loop     *)
(* that fills row[] has left it: what that overwrites is not modelled, nor *)
(* what it does later to a program that goes on.                           *)
(***************************************************************************)
Crash ==
  /\ pc = "next" /\ pass = 2
  /\ NextRecord
  /\ t' < p.end
  /\ Divisor # 0 => Height(info'.value) > ChartH
  /\ pc' = "crashed"
  /\ UNCHANGED <<diskVars, pass, p, peak, plotVars, imageVars, begun>>

EndOfRange == pc = "next" /\ t + 1 >= p.end

(***************************************************************************)
(* Both passes end with stat_data_close. There is no second pass if the    *)
(* peak is 0.                                                              *)
(***************************************************************************)
BeginPlot ==
  /\ EndOfRange /\ pass = 1 /\ peak > 0
  /\ Close
  /\ pass' = 2 /\ pc' = "list"
  /\ UNCHANGED <<diskVars, vanished, p, peak, plotVars, imageVars, begun>>

EndPasses ==
  /\ EndOfRange /\ (pass = 2 \/ peak = 0)
  /\ Close
  /\ pc' = "encode"
  /\ UNCHANGED <<diskVars, vanished, pass, p, peak, plotVars, imageVars, begun>>

-----------------------------------------------------------------------------
(***************************************************************************)
(* mk_mempng and b64encode.                                                *)
(***************************************************************************)
Encode ==
  /\ pc = "encode"
  /\ png' \in Pngs
  /\ img' = B64Encode(png')
  /\ pc' = "answer"
  /\ UNCHANGED <<diskVars, sdVars, sdGhosts, pass, p, peak, plotVars, begun>>

Answer ==
  /\ pc' = "idle" /\ pass' = 1 /\ peak' = 0 /\ p' = NoRequest
  /\ column' = 0 /\ row' = {} /\ height' = 0 /\ drawn' = NoColumns
  /\ png' = <<>> /\ img' = <<>>
  /\ vanished' = FALSE /\ begun' = 0
  /\ UNCHANGED <<diskVars, sdVars, seen>>

(***************************************************************************)
(* The answer: an image, or an error where malloc has failed, before the   *)
(* first pass or after the second.                                         *)
(***************************************************************************)
Finish == pc = "answer" /\ Answer

Fail == (pc = "list" /\ pass = 1) \/ pc = "encode"

FinishFailed == Fail /\ Answer

Init ==
  /\ DiskInit /\ CursorInit
  /\ pc = "idle" /\ pass = 1 /\ peak = 0 /\ p = NoRequest
  /\ column = 0 /\ row = {} /\ height = 0 /\ drawn = NoColumns
  /\ png = <<>> /\ img = <<>>
  /\ begun = 0

BuildChart == \/ List \/ TakeSize \/ ListFails \/ Listed \/ SeekStart
              \/ TakePeak \/ BeginPlot
              \/ Plot \/ Crash \/ EndPasses
              \/ Encode \/ Finish \/ FinishFailed

Damper == Tick /\ UNCHANGED chartVars

Next == Damper \/ Request \/ BuildChart

(***************************************************************************)
(* The thread that builds a chart waits for nobody.                        *)
(***************************************************************************)
Spec == Init /\ [][Next]_vars /\ WF_vars(BuildChart)

-----------------------------------------------------------------------------
(***************************************************************************)
(* Type correctness of cursor and chart; no column outside the image.      *)
(***************************************************************************)
TypeOK ==
  /\ CursorTypeOK
  /\ pc \in {"idle", "list", "sizes", "seek", "next", "encode", "answer",
            "crashed"}
  /\ pass \in {1, 2}
  /\ p \in [w : Nat, start : Nat, end : Nat]
  /\ peak \in Values \cup {0} /\ height \in Nat
  /\ column \in 0 .. Max({0, p.w - 1})

(***************************************************************************)
(* Every second that was on disk when the files were listed is read, but   *)
(* for the first of a day (the file's first record is read as zeros) and   *)
(* unless its file was removed since, or a listed file had vanished        *)
(* before its size was taken: coming to it, the loop gets its record.      *)
(***************************************************************************)
ReadsAllRecorded ==
  [][t' # t /\ pc' \in {"next", "crashed"} /\ ~vanished
       /\ t' \in seen /\ t' # DayStart(Day(t')) /\ Day(t') \notin removed
     => info'.value = records[t']]_vars

(***************************************************************************)
(* The plot of a range that was over when the chart began fits under the   *)
(* peak that an earlier pass found, over files that have grown or          *)
(* disappeared since, and it is made without a crash, except for the peak  *)
(* of 2^32 - 1, which peak + 1 turns into 0. (A range that reaches to the  *)
(* present may outgrow its peak, its last second being rewritten.)         *)
(***************************************************************************)
PlotFitsPeak ==
  pc # "idle" /\ p.end <= begun /\ ~vanished =>
    /\ height < ChartH
    /\ pc = "crashed" => peak = U32 - 1

(***************************************************************************)
(* The time axis: of the columns that are drawn, none of which is column 0 *)
(* or comes after the last one before the column that the range's last     *)
(* second ends in, each is drawn once, from left to right and without a    *)
(* gap, and shows just the seconds after the first (which seek reads)      *)
(* whose part of the width touches it.                                     *)
(***************************************************************************)
Touches(s, c) ==
  /\ p.w * (s - p.start) < (c + 1) * (p.end - p.start)
  /\ c * (p.end - p.start) <= p.w * (s + 1 - p.start)

DrawnRight ==
  /\ column > 0 => DOMAIN drawn' = column .. column' - 1
  /\ \A c \in DOMAIN drawn' :
       drawn'[c] = {s \in p.start + 1 .. p.end - 1 : Touches(s, c)}

ColumnsShowTheirSeconds == [][t' > t /\ pass = 2 /\ pc' = "next" /\ pc = "next"
                                => DrawnRight]_vars

(***************************************************************************)
(* What the browser decodes is what libpng wrote, and its encoding has     *)
(* room, with the final zero, in the buffer.                               *)
(***************************************************************************)
ImageSurvivesEncoding ==
  pc = "answer" => Decode(img) = png /\ Len(img) + 1 <= BufferLen(Len(png))

(***************************************************************************)
(* Whatever the files contain, the loops over them end: every request is   *)
(* answered unless the program crashes on it.                              *)
(***************************************************************************)
RequestsAnswered == pc # "idle" ~> pc \in {"idle", "crashed"}

=============================================================================
