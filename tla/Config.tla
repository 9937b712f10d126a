------------------------------- MODULE Config -------------------------------
(***************************************************************************)
(* Reading damper.conf: config_read and str2bps of damper.c, the *_conf    *)
(* functions of the modules, and the defaults that userdata_init gives     *)
(* before and after. One line is one step, since what a line leaves behind *)
(* (the third word of sscanf, errno) reaches the lines after it.           *)
(*                                                                         *)
(* A line is a sequence of words, a comment one whose first word is "#".   *)
(* Words that are numbers are those of Numeral, with their digits and      *)
(* their suffix; integers keep their widths. Fields of struct userdata     *)
(* have the names of their lines (packets is u->qlen).                     *)
(***************************************************************************)
EXTENDS Integers, Sequences, FiniteSetsExt

CONSTANTS Files,          \* what the configuration file may contain
          Numeral,        \* [word |-> [digits, suffix]]
          GarbageWords,   \* what the stack may hold for p2
          Uninit,         \* a field that malloc leaves as it was
          Kilo,           \* 1000
          IntMod,         \* 2^32
          LongMod,        \* 2^64
          KEEP_STAT, NFQ_DEFLEN

ASSUME ConfigAssumption ==
  /\ Files \subseteq Seq(Seq(STRING))
  /\ \A word \in DOMAIN Numeral :
       Numeral[word] \in [digits : Int,
                          suffix : {"none", "k", "m", "g", "unknown"}]
  /\ "no" \notin DOMAIN Numeral
  /\ Kilo \in Nat \ {0}
  /\ IntMod \in Nat \ {0}
  /\ LongMod \in Nat \ {0} /\ LongMod % 2 = 0
  /\ KEEP_STAT \in Nat \ {0} /\ NFQ_DEFLEN \in Nat \ {0}

VARIABLES file,      \* the lines of the file
          lineno,    \* how many of them are read
          p2,        \* the third word, as sscanf left it
          erange,    \* is errno set (to ERANGE)?
          conf,      \* the fields of u
          param,     \* param[m]: module m's parameters
          marks      \* bymark's mw

confVars == <<file, lineno, p2, erange, conf, param, marks>>

TableModules == {"inhibit_big_flows", "entropy"}
AllModules   == TableModules \cup {"bymark", "random"}

Wrap(n, mod) == LET r == n % mod IN IF 2 * r < mod THEN r ELSE r - mod

-----------------------------------------------------------------------------
(***************************************************************************)
(* The conversions. strtoll stops at the ends of its range and sets errno; *)
(* atoi cuts what strtol returns to an int.                                *)
(***************************************************************************)
Digits(word) == IF word \in DOMAIN Numeral THEN Numeral[word].digits ELSE 0

OutOfRange(word) == 2 * Digits(word) \notin -LongMod .. LongMod - 1

Strtoll(word) ==
  IF ~OutOfRange(word) THEN Digits(word)
  ELSE IF Digits(word) > 0 THEN LongMod \div 2 - 1 ELSE -(LongMod \div 2)

Atoi(word) == Wrap(Strtoll(word), IntMod)

Unit == [none |-> 1, k |-> Kilo, m |-> Kilo * Kilo, g |-> Kilo * Kilo * Kilo,
         unknown |-> 0]

UINT64_MAX == LongMod - 1

Str2BpsRounding(word) ==       \* mutated form: bits to octets first
  IF word \notin DOMAIN Numeral THEN 0
  ELSE ((Strtoll(word) \div 8) * Unit[Numeral[word].suffix]) % LongMod

Str2Bps(word) ==
  IF word \notin DOMAIN Numeral \/ Strtoll(word) = LongMod \div 2 - 1
                                \/ Strtoll(word) = -(LongMod \div 2)
  THEN 0
  ELSE ((Strtoll(word) * Unit[Numeral[word].suffix]) % LongMod) \div 8

PositiveOr(default, n) == IF n <= 0 THEN default ELSE n

-----------------------------------------------------------------------------
(***************************************************************************)
(* Lines about u: what word p1 makes of the field, and whether it is read  *)
(* as a number. Once it is on, statistics are not switched off again.      *)
(***************************************************************************)
SwitchedOn(cmd, p1) == p1 = "yes" \/ conf[cmd]

SettingOf(cmd, p1) ==
  [queue    |-> Atoi(p1),
   packets  |-> Atoi(p1) % LongMod,
   keepstat |-> PositiveOr(KEEP_STAT, Atoi(p1)),
   nfqlen   |-> PositiveOr(NFQ_DEFLEN, Atoi(p1)),
   limit    |-> IF p1 = "no" THEN UINT64_MAX ELSE Str2Bps(p1),
   statdir  |-> p1,
   stat     |-> SwitchedOn("stat", p1),
   wchart   |-> SwitchedOn("wchart", p1)][cmd]

Numbers == {"queue", "packets", "keepstat", "nfqlen", "limit"}

Setting(cmd, p1) ==
  /\ cmd \in DOMAIN conf
  /\ conf' = [conf EXCEPT ![cmd] = SettingOf(cmd, p1)]
  /\ erange' = (erange \/ (cmd \in Numbers /\ OutOfRange(p1)))
  /\ UNCHANGED <<param, marks>>

(***************************************************************************)
(* Lines about modules: what the third word makes of parameter p. The      *)
(* coefficient is a double, which has room for every number here.          *)
(***************************************************************************)
ParameterOf(p, arg) == IF p = "k" THEN Digits(arg)
                       ELSE IF p = "debug" THEN PositiveOr(0, Atoi(arg))
                       ELSE Atoi(arg)

Coefficient(m, arg) ==
  /\ param' = [param EXCEPT ![m]["k"] = ParameterOf("k", arg)]
  /\ UNCHANGED <<conf, marks, erange>>

(***************************************************************************)
(* bymark_conf, which takes an errno that is set for its own error; and    *)
(* bymark_weight.                                                          *)
(***************************************************************************)
AddMark(p1, arg) ==
  /\ marks' = Append(marks, [mark |-> IF erange \/ OutOfRange(p1) THEN 0
                                      ELSE Wrap(Strtoll(p1), IntMod),
                             w |-> Digits(arg)])
  /\ erange' = (erange \/ OutOfRange(p1))
  /\ UNCHANGED <<conf, param>>

NoMark == "DBL_EPSILON"

MarkWeightOfLast(mark) ==      \* mutated form: the loop is not left
  LET found == {i \in DOMAIN marks : marks[i].mark = mark}
  IN  IF found = {} THEN NoMark ELSE marks[Max(found)].w

MarkWeight(mark) ==
  LET found == {i \in DOMAIN marks : marks[i].mark = mark}
  IN  IF found = {} THEN NoMark ELSE marks[Min(found)].w

(***************************************************************************)
(* inhibit_big_flows_conf and entropy_conf; random_conf does nothing.      *)
(***************************************************************************)
ParameterOnce(m, p1, arg) ==   \* mutated form: the first line decides
  /\ param' = IF p1 \notin DOMAIN param[m] \/ param[m][p1] > 0 THEN param
              ELSE [param EXCEPT ![m][p1] = ParameterOf(p1, arg)]
  /\ UNCHANGED <<conf, marks, erange>>

Parameter(m, p1, arg) ==
  /\ param' = IF p1 \notin DOMAIN param[m] THEN param
              ELSE [param EXCEPT ![m][p1] = ParameterOf(p1, arg)]
  /\ erange' = (erange \/ (p1 \in DOMAIN param[m] /\ OutOfRange(arg)))
  /\ UNCHANGED <<conf, marks>>

ModuleLine(m, p1, arg) ==
  /\ m \in AllModules
  /\ \/ p1 = "k" /\ Coefficient(m, arg)
     \/ p1 # "k" /\ m = "bymark" /\ AddMark(p1, arg)
     \/ p1 # "k" /\ m # "bymark" /\ Parameter(m, p1, arg)

(***************************************************************************)
(* config_read's loop. sscanf has stored the words of a line before it is  *)
(* found to be a comment or too short.                                     *)
(***************************************************************************)
Ignored(line) == Len(line) < 2 \/ line[1] = "#"

Unknown(line) == line[1] \notin DOMAIN conf \cup AllModules

ThirdWord(line) == IF Len(line) >= 3 THEN line[3] ELSE p2

ReadLine ==
  /\ lineno < Len(file)
  /\ lineno' = lineno + 1
  /\ LET line == file[lineno']
     IN  /\ p2' = ThirdWord(line)
         /\ IF Ignored(line) \/ Unknown(line)
            THEN UNCHANGED <<conf, param, marks, erange>>
            ELSE \/ Setting(line[1], line[2])
                 \/ ModuleLine(line[1], line[2], p2')
  /\ UNCHANGED file

(***************************************************************************)
(* What userdata_init makes of it: defaults, and stat_init, which wants a  *)
(* directory. The file and the loop's variables are left behind.           *)
(***************************************************************************)
WithDefaultsAsRead(c) == c     \* mutated form: what is missing stays 0

HasDirectory(c) == c.stat /\ c.statdir # ""

WithDefaults(c) ==
  [c EXCEPT !.nfqlen   = IF c.nfqlen = 0 THEN NFQ_DEFLEN ELSE c.nfqlen,
            !.keepstat = IF c.stat /\ c.keepstat = 0 THEN KEEP_STAT
                         ELSE c.keepstat,
            !.stat     = HasDirectory(c)]

EndOfFile ==
  /\ lineno = Len(file)
  /\ conf' = WithDefaults(conf)
  /\ file' = <<>> /\ lineno' = 0 /\ p2' = ""
  /\ UNCHANGED <<erange, param, marks>>

(***************************************************************************)
(* What config_read and the modules' constructors begin with.              *)
(***************************************************************************)
UnsetConf == [queue |-> Uninit, packets |-> Uninit, limit |-> Uninit,
              stat |-> FALSE, statdir |-> "", keepstat |-> 0, nfqlen |-> 0,
              wchart |-> FALSE]

UnsetParam == [inhibit_big_flows |-> [k |-> 1, nrecent |-> 0, debug |-> 0],
               entropy |-> [k |-> 1, nrecent |-> 0, debug |-> 0,
                            sport |-> -1, dport |-> -1],
               bymark |-> [k |-> 1],
               random |-> [k |-> 1]]

ConfigInit ==
  /\ file \in Files /\ lineno = 0
  /\ p2 \in GarbageWords
  /\ erange = FALSE
  /\ conf = UnsetConf
  /\ param = UnsetParam
  /\ marks = <<>>

-----------------------------------------------------------------------------
(***************************************************************************)
(* The lines read so far that set something: setting cmd, or parameter p1  *)
(* of module cmd.                                                          *)
(***************************************************************************)
ReadLines == {i \in 1 .. lineno : ~Ignored(file[i])}

LinesOf(cmd) == {i \in ReadLines : file[i][1] = cmd}

LinesAbout(m, p1) == {i \in LinesOf(m) : file[i][2] = p1}

MarkLines == LinesOf("bymark") \ LinesAbout("bymark", "k")

(***************************************************************************)
(* The last line about a setting or a parameter decides it, wherever it    *)
(* stands and whatever is malformed elsewhere, and what no line is about   *)
(* is left as it was: coefficients and debug intervals like the rest.      *)
(* "yes" is not taken back. Nothing is said of a parameter whose last line *)
(* has two words only: the code takes a word of another line for it.       *)
(***************************************************************************)
SettingsComeFromLines ==
  lineno > 0 =>
    /\ \A cmd \in DOMAIN conf \ {"stat", "wchart"} :
         LET lines == LinesOf(cmd)
         IN  conf[cmd] = IF lines = {} THEN UnsetConf[cmd]
                         ELSE SettingOf(cmd, file[Max(lines)][2])
    /\ \A cmd \in {"stat", "wchart"} :
         conf[cmd] = (LinesAbout(cmd, "yes") # {})
    /\ \A m \in AllModules : \A p \in DOMAIN param[m] :
         LET about == LinesAbout(m, p)
         IN  /\ about = {} => param[m][p] = UnsetParam[m][p]
             /\ about # {} /\ Len(file[Max(about)]) >= 3 =>
                  param[m][p] = ParameterOf(p, file[Max(about)][3])
    /\ Len(marks) = Cardinality(MarkLines)

(***************************************************************************)
(* "traffic with mark 101 gets weight 0.2" (damper.conf): a mark has the   *)
(* weight of the first of its lines, here unlike a setting, and marks      *)
(* without a line have none. That is so in a file in which no number has   *)
(* been out of range, since errno is never cleared.                        *)
(***************************************************************************)
MarksWeighAsWritten ==
  ~erange /\ (\A i \in MarkLines : Len(file[i]) = 3) /\ lineno > 0 =>
    \A mark \in {Atoi(w) : w \in DOMAIN Numeral} :
      LET lines == {i \in MarkLines : Atoi(file[i][2]) = mark}
      IN  MarkWeight(mark) = IF lines = {} THEN NoMark
                             ELSE Digits(file[Min(lines)][3])

(***************************************************************************)
(* The limit in octets is at most what the line says in bits, and less     *)
(* than one octet below, if the digits are below 2^63 - 1 and the product  *)
(* with the unit fits in 64 bits. Whatever the number, it is not taken for *)
(* the limit that "no" stands for.                                         *)
(***************************************************************************)
LimitAsWritten ==
  LinesOf("limit") # {} =>
    LET word == file[Max(LinesOf("limit"))][2]
        bits == Digits(word) * Unit[Numeral[word].suffix]
        fits == 2 * Digits(word) < LongMod - 2 /\ bits \in 0 .. LongMod - 1
    IN  /\ (conf.limit = UINT64_MAX) = (word = "no")
        /\ word \in DOMAIN Numeral /\ fits =>
             8 * conf.limit \in bits - 7 .. bits

=============================================================================
