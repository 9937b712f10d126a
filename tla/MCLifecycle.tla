----------------------------- MODULE MCLifecycle -----------------------------
(***************************************************************************)
(* Instance of Lifecycle: configuration files of up to two lines, and such *)
(* lines after those of a working configuration like damper.conf's own.    *)
(***************************************************************************)
EXTENDS Lifecycle, SequencesExt

Line(cmd, arg)       == <<cmd, arg>>
LineAbout(m, p, arg) == <<m, p, arg>>

WorkingFile ==
  << Line("queue", "3"), Line("packets", "100"), Line("limit", "20M"),
     Line("stat", "yes"), Line("statdir", "/var/lib/damper/"),
     LineAbout("inhibit_big_flows", "nrecent", "10"),
     LineAbout("entropy", "nrecent", "10") >>

OtherLines ==
  { <<>>, <<"#", "traffic", "102">>, <<"wchart">>,
    Line("packets", "-1"), Line("limit", "no"), Line("limit", "-1"),
    Line("limit", "9K"), Line("limit", "3x"), Line("limit", "7"),
    Line("nfqlen", "0"), Line("nfqlen", "huge"), Line("keepstat", "-1"),
    Line("stat", "yes"), Line("stat", "no"),
    LineAbout("bymark", "102", "3"), LineAbout("bymark", "102", "5"),
    LineAbout("bymark", "huge", "3"), LineAbout("bymark", "k", "2"),
    <<"bymark", "3">>,
    LineAbout("entropy", "debug", "5"), LineAbout("entropy", "debug", "0"),
    <<"entropy", "nrecent">>,
    LineAbout("entropy", "k", "2"), LineAbout("entropy", "sport", "0") }

MCFiles == {base \o more : base \in {<<>>, WorkingFile},
                           more \in SeqOf(OtherLines, 2)}

N(digits, suffix) == [digits |-> digits, suffix |-> suffix]

MCNumeral ==
  "-1"  :> N(-1, "none")  @@ "0" :> N(0, "none")    @@ "2" :> N(2, "none") @@
  "3"   :> N(3, "none")   @@ "5" :> N(5, "none")    @@ "7" :> N(7, "none") @@
  "10"  :> N(10, "none")  @@ "100" :> N(100, "none") @@
  "102" :> N(102, "none") @@ "9K" :> N(9, "k") @@ "20M" :> N(20, "m") @@
  "3x"  :> N(3, "unknown") @@ "huge" :> N(LongMod, "none")

=============================================================================
