------------------------------ MODULE MCFragDb ------------------------------
(***************************************************************************)
(* Instances of FragDb for TLC: three runs over one database; severities   *)
(* are counted in halves.                                                  *)
(***************************************************************************)
EXTENDS FragDb

CONSTANTS p1, p2, p3

Row(n, f, s) == [name |-> n, fragments |-> f, severity |-> s]
Cmd(n, a) == [name |-> n, arg |-> a]

TwoRuns == {p1, p2}
ThreeRuns == {p1, p2, p3}

\* Two files that the two keys put in a different order, and another
\* directory with a file of the same name.
MCWalks == {{Row("a", 3, 4), Row("b", 2, 5)}, {Row("a", 1, 2)}}

\* Every command line, but for tops and over, which differ from top and overs
\* in their keys only.
MCCommands ==
  {Cmd("scan", 0), Cmd("scan", NoArg), Cmd("top", 1), Cmd("overs", 5),
   Cmd("usage", NoArg), Cmd("unknown", NoArg)}

ScansAndTop == {Cmd("scan", 0), Cmd("top", 2)}

OneLive == {p1}
NoneLive == {}
=============================================================================
