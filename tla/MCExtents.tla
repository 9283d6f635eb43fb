----------------------------- MODULE MCExtents ------------------------------
(***************************************************************************)
(* Instances of Extents for TLC: a buffer for two extents and files of up  *)
(* to five of them.                                                        *)
(***************************************************************************)
EXTENDS Extents

Map(l, p, n) == [logical |-> l, physical |-> p, length |-> n]
File(exts, size) == [extents |-> exts, size |-> size]

\* Five extents in which a run goes on over the end of a batch, the same
\* file truncated and partly moved, and emptied, one with a hole, one whose
\* extents do not start on a unit of two blocks, one whose first extent ends
\* within a unit, and one just written to, whose end has no place yet.
Writable ==
  {File(<<Map(0, 8, 1), Map(1, 12, 2), Map(3, 14, 1), Map(4, 20, 1), Map(5, 4, 2)>>, 7),
   File(<<Map(0, 8, 2), Map(2, 10, 2), Map(4, 30, 1)>>, 5),
   File(<<Map(1, 6, 1), Map(4, 40, 2)>>, 7),
   File(<<Map(0, 5, 2), Map(2, 7, 1)>>, 3),
   File(<<Map(0, 8, 1), Map(1, 10, 2)>>, 3),
   File(<<Map(0, 8, 2), Map(2, 0, 1)>>, 3),
   File(<< >>, 0)}

\* A file whose end is a hole, as after ftruncate, and one without holes in
\* more fragments than the buffer holds.
SparseOrLong ==
  {File(<<Map(0, 8, 2)>>, 4),
   File(<<Map(0, 8, 2), Map(2, 20, 1), Map(3, 30, 1)>>, 4)}

AnySupport == {{"FIEMAP", "FIBMAP"}, {"FIBMAP"}, {}}
OnlyFibmap == {{"FIBMAP"}}
=============================================================================
