----------------------------- MODULE MCFragview -----------------------------
(***************************************************************************)
(* Instances of Fragview for TLC: squares of one pixel and maps of up to   *)
(* three columns and three lines.                                          *)
(***************************************************************************)
EXTENDS Fragview

Ext(s, l) == [start |-> s, length |-> l]
File(exts, sev) == [extents |-> exts, severity |-> sev]

\* A device in three whole cells, and one whose last cell is a single block.
Tiny == [device_size |-> 6, files |-> <<File({Ext(0, 1), Ext(4, 1)}, 2),
                                        File({Ext(1, 2), Ext(5, 2)}, 1)>>]

TinyAndSmaller == {Tiny, [device_size |-> 3, files |-> <<File({Ext(2, 1)}, 1)>>]}

\* With one line the page of two lines before is out of date, and a view may
\* be a single block.
FourSizes == {<<2, 2>>, <<3, 1>>, <<3, 2>>, <<4, 3>>}
\* One square and a scrollbar, and a line of squares with or without one.
TwoSizes == {<<2, 2>>, <<4, 1>>}
OneSize == {<<2, 2>>}
NoClicks == {}
\* Two squares of either window; the margin right of the narrow one, a square
\* of the flat one; and a point above the map.
MCClicks == {<<0, 0>>, <<0, 1>>, <<1, 0>>, <<0, 0 - 1>>}
MCDesiredSizes == 1 .. 12
MCViewStarts == 0 .. 12
MCViewLengths == 1 .. 12
=============================================================================
