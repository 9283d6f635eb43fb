------------------------------ MODULE DiskMap -------------------------------
(***************************************************************************)
(* What the map of fragview promises, in the words of README.md: a display *)
(* of the disk, one square for each cluster of blocks, "white for          *)
(* unoccupied blocks and colored for occupied ones. If cluster contains    *)
(* part of fragmented file its color will be red, and for non-fragmented   *)
(* -- blue".  There is no cache here and no index: a draw looks at every   *)
(* block of every file.                                                    *)
(***************************************************************************)
EXTENDS Integers

VARIABLES
  device,   \* number of blocks
  files,    \* the files found, each with its extents and its severity
  size,     \* blocks in a cluster
  view,     \* the clusters in view
  shown,    \* there is a device, and more than one block of it in view
  painted,  \* the colour of each square on the screen
  pending   \* a draw is due

vars == <<device, files, size, view, shown, painted, pending>>

HasBlockIn(i, k) ==
  \E b \in 0 .. device - 1, e \in files[i].extents :
    /\ b \div size = k
    /\ e.start =< b /\ b < e.start + e.length

Colour(k) ==
  LET inside == {i \in DOMAIN files : HasBlockIn(i, k)}
  IN  CASE inside = {} -> "free"
        [] \E i \in inside : files[i].severity >= 2 -> "fragmented"
        [] OTHER -> "continuous"

Init == pending = TRUE

\* Whatever changes what is to be seen asks for a draw; the screen stays as
\* it is until then.
Change == pending' = TRUE /\ painted' = painted

\* A draw shows the disk as it is.
Paint ==
  /\ pending
  /\ pending' = FALSE
  /\ shown => painted' = [k \in view |-> Colour(k)]
  /\ UNCHANGED <<device, files, size, view, shown>>

Next == Change \/ Paint

Spec == Init /\ [][Next]_vars
=============================================================================
