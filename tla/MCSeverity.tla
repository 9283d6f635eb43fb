----------------------------- MODULE MCSeverity -----------------------------
(***************************************************************************)
(* Instances of Severity for TLC: all files of up to three extents on a    *)
(* small disk, and of two on a larger one, with a window of three blocks.  *)
(***************************************************************************)
EXTENDS Severity

Extents(starts, lengths) == [start : starts, length : lengths]

AllFiles ==
  LET small == Extents({0, 1, 3, 4, 8}, 1 .. 4)
  IN  {<< >>} \cup {<<a>> : a \in small} \cup {<<a, b>> : a, b \in small}
        \cup {<<a, b, c>> : a, b, c \in Extents({0, 2, 3, 7}, {1, 2, 4})}
=============================================================================
