------------------------------ MODULE Severity ------------------------------
(***************************************************************************)
(* One call of Clusters::get_file_severity (src/clusters.cc:276), how much *)
(* slower than a continuous file this one is read at its worst.  A window  *)
(* is laid at the start of each extent; the times of reading its blocks,   *)
(* of skipping small gaps and of moving the head over large ones are       *)
(* compared with that of reading as many blocks in one piece.              *)
(*                                                                         *)
(* A step is one round of the inner loop, or the end of one of the outer   *)
(* loop.  Times are counted in the time it takes to read a block, so that  *)
(* they are whole numbers, and a severity is the fraction of two of them.  *)
(***************************************************************************)
EXTENDS Integers, Sequences, FiniteSets

CONSTANTS
  Window,   \* size of the window, in blocks
  Shift,    \* the largest gap that is read and thrown away, in blocks
  Penalty,  \* the time of a move of the head
  Files     \* sequences of extents [start, length]

VARIABLES
  extents,   \* fi->extents
  k1, k2,    \* the extent the window starts at, and the one to be read
  span,      \* what is left of the window
  read_time,
  overall    \* overall_severity, as [time, raw]

vars == <<extents, k1, k2, span, read_time, overall>>

Extent == [start : Nat, length : Nat \ {0}]

ASSUME SeverityAssumption ==
  /\ Window \in Nat
  /\ Shift \in Nat
  /\ Penalty \in Nat \ {0}
  /\ Shift =< Penalty
  /\ Files \subseteq Seq(Extent)

-----------------------------------------------------------------------------
\* Mutant: a jump backwards counts as a small gap.
GapIgnoringSign(delta) == IF delta =< Shift THEN delta ELSE Penalty

\* The time between two blocks of the file that lie delta blocks apart.
Gap(delta) == IF delta >= 0 /\ delta =< Shift THEN delta ELSE Penalty

Delta(k) == extents[k + 1].start - (extents[k].start + extents[k].length)

AtLeast(a, b) == a.time * b.raw >= b.time * a.raw

Init ==
  /\ extents \in Files
  /\ k1 = 1 /\ k2 = 1
  /\ span = Window
  /\ read_time = Penalty
  /\ overall = [time |-> 1, raw |-> 1]

Reading == k1 <= Len(extents) /\ k2 <= Len(extents) /\ span > 0

\* The extent lies in the window: it is read, and what is between it and the
\* next one.
WholeExtent ==
  /\ extents[k2].length =< span
  /\ span' = span - extents[k2].length
  /\ read_time' = read_time + extents[k2].length +
                    (IF k2 < Len(extents) THEN Gap(Delta(k2)) ELSE 0)

\* Mutant: the jump after the last extent of the window is always paid for.
PartAndJump ==
  /\ extents[k2].length > span
  /\ span' = 0
  /\ read_time' = read_time + span + Penalty

\* The window ends within the extent.
PartOfExtent ==
  /\ extents[k2].length > span
  /\ span' = 0
  /\ read_time' = read_time + span

ReadExtent ==
  /\ Reading
  /\ WholeExtent \/ PartOfExtent
  /\ k2' = k2 + 1
  /\ UNCHANGED <<extents, k1, overall>>

Local == [time |-> read_time, raw |-> (Window - span) + Penalty]

\* Mutant: the worst value is that of the last window.
CloseWindowForgetting ==
  /\ k1 <= Len(extents) /\ ~Reading
  /\ overall' = Local
  /\ k1' = k1 + 1 /\ k2' = k1 + 1
  /\ span' = Window /\ read_time' = Penalty
  /\ UNCHANGED extents

\* Mutant: the time is not reset.
CloseWindowRunningOn ==
  /\ k1 <= Len(extents) /\ ~Reading
  /\ overall' = IF AtLeast(Local, overall) THEN Local ELSE overall
  /\ k1' = k1 + 1 /\ k2' = k1 + 1
  /\ span' = Window /\ UNCHANGED read_time
  /\ UNCHANGED extents

CloseWindow ==
  /\ k1 <= Len(extents) /\ ~Reading
  /\ overall' = IF AtLeast(Local, overall) THEN Local ELSE overall
  /\ k1' = k1 + 1 /\ k2' = k1 + 1
  /\ span' = Window /\ read_time' = Penalty
  /\ UNCHANGED extents

Next == ReadExtent \/ CloseWindow

Spec == Init /\ [][Next]_vars

-----------------------------------------------------------------------------
TypeOK ==
  /\ extents \in Files
  /\ k1 \in 1 .. Len(extents) + 1
  /\ k2 \in k1 .. Len(extents) + 1
  /\ span \in 0 .. Window
  /\ read_time \in Nat
  /\ overall \in [time : Nat, raw : Nat \ {0}]

Done == k1 > Len(extents)

(***************************************************************************)
(* The reference: the file as the sequence of its blocks, each of which    *)
(* takes one unit to read and then a gap to go on from.                    *)
(***************************************************************************)
Blocks == UNION {{k} \X (0 .. extents[k].length - 1) : k \in DOMAIN extents}
Before(b, c) == b[1] < c[1] \/ (b[1] = c[1] /\ b[2] < c[2])
Offset(b) == Cardinality({c \in Blocks : Before(c, b)})
Place(b) == extents[b[1]].start + b[2]

\* The n blocks of the file from an offset on, and the pairs of one of these
\* and the block after it.
BlocksFrom(o, n) == {b \in Blocks : Offset(b) \in o .. o + n - 1}

PassagesFrom(o, n) ==
  {pair \in BlocksFrom(o, n) \X Blocks : Offset(pair[2]) = Offset(pair[1]) + 1}

\* The units of time it takes to go on from one block to the next.
Units(pair) == {pair} \X (0 .. Gap(Place(pair[2]) - Place(pair[1]) - 1) - 1)

UnitsFrom(o, n) == UNION {Units(pair) : pair \in PassagesFrom(o, n)}

\* The time to read the window at an offset and to go on from its last block,
\* against that of a file in one piece.
SeverityAt(o) ==
  LET read == Cardinality(BlocksFrom(o, Window))
  IN  [time |-> Penalty + read + Cardinality(UnitsFrom(o, Window)),
       raw  |-> Penalty + read]

IsWorst(s, offsets) ==
  LET all == {SeverityAt(o) : o \in offsets} \cup {[time |-> 1, raw |-> 1]}
  IN  /\ \A a \in all : AtLeast(s, a)
      /\ \E a \in all : AtLeast(a, s)

\* clusters.cc:279-307: whatever the extents are, out of order, touching,
\* as long as the window or longer, the two loops compute the worst of the
\* windows that start with an extent, as one would from the places of the
\* blocks alone.
WorstAtExtents ==
  Done => IsWorst(overall, {Offset(<<k, 0>>) : k \in DOMAIN extents})

\* A file of n extents is read at most n times slower: a file in one piece is
\* exactly 1, and none that is not in pieces is ever painted as fragmented.
AtMostItsExtents ==
  overall.time =< (IF extents = << >> THEN 1 ELSE Len(extents)) * overall.raw
=============================================================================
