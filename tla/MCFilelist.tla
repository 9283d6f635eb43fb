----------------------------- MODULE MCFilelist -----------------------------
(***************************************************************************)
(* An instance of Filelist for TLC: three columns, and four files of which *)
(* some have the same value in a column.                                   *)
(***************************************************************************)
EXTENDS Filelist

MCColumns == {"fragments", "name", "size"}
MCDescending == {"fragments", "size"}
File(f, n, s) ==
  [c \in MCColumns |-> CASE c = "fragments" -> f [] c = "name" -> n [] OTHER -> s]
MCRows == {File(1, 1, 5), File(3, 2, 5), File(2, 3, 8), File(3, 4, 1)}
=============================================================================
