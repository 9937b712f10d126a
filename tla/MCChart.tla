------------------------------- MODULE MCChart -------------------------------
(***************************************************************************)
(* Instance of Chart: a range that begins before the first record and may  *)
(* be over, in columns of one and a half seconds; "all", in columns        *)
(* shorter than a second; and a query cut off by an empty parameter, whose *)
(* range reaches beyond the last second.                                   *)
(***************************************************************************)
EXTENDS Chart

Param(name, value) == [name |-> name, value |-> value, short |-> FALSE]
EmptyParam(name)   == [name |-> name, value |-> 0, short |-> TRUE]

MCQueries ==
  { << Param("w", 4), Param("start", 2), Param("end", 8) >>,
    << Param("w", 9), Param("start", 0), Param("end", 0) >>,
    << Param("w", 2), EmptyParam("h"), Param("start", 4), Param("end", 10) >> }

MCGarbageRanges == { [start |-> 6, end |-> 10] }

MCPngs == { <<>>, <<1, 254, 77>>, <<255, 0, 254, 1>>, <<128, 64, 32, 16, 8>> }

=============================================================================
