------------------------------ MODULE Extents -------------------------------
(***************************************************************************)
(* How fragview learns where a file lies: Clusters::get_file_extents and   *)
(* Clusters::fibmap_fallback (src/clusters.cc).  The kernel answers one    *)
(* FIEMAP call with as many extents as the buffer holds, and the loop asks *)
(* again from the end of the last one until there are no more.  Where a    *)
(* file system has no FIEMAP, fibmap_fallback fills the same buffer block  *)
(* by block from FIBMAP.                                                   *)
(*                                                                         *)
(* Other processes write to the file between two calls, and between two    *)
(* ioctls of fibmap_fallback.                                              *)
(* Logical and physical offsets are counted in blocks of the file system.  *)
(***************************************************************************)
EXTENDS Integers, Sequences, FiniteSets, SequencesExt

CONSTANTS
  MaxCount,   \* extents the buffer holds, max_count: 292
  BlockSize,  \* sb->st_blksize, in blocks of the file system
  Files,      \* what the file may be: its extents and its size
  Supports,   \* the ioctls its file system may have
  MaxStates   \* what the file is in turn, at most

VARIABLES
  file,        \* the file at present
  supports,    \* the ioctls that work, a subset of {"FIEMAP", "FIBMAP"}
  block_count, \* blocks in sb->st_size, as lstat64 saw it before the open
  pc,          \* where get_file_extents is
  fm_start,    \* fiemap->fm_start
  batch,       \* fiemap->fm_extents, those not taken yet
  k,           \* the block fibmap_fallback asks for next
  extents,     \* fi->extents
  seen         \* all the file has been since lstat64

vars == <<file, supports, block_count, pc, fm_start, batch, k, extents, seen>>

\* physical is 0 where the file system has not chosen a place yet; FIEMAP says
\* so in fe_flags (FIEMAP_EXTENT_DELALLOC).
Mapped == [logical : Nat, physical : Nat, length : Nat \ {0}]

End(x) == x.logical + x.length

\* The extents of a file are in the order of the file.
FileState ==
  {f \in [extents : Seq(Mapped), size : Nat] :
     \A i, j \in DOMAIN f.extents :
       i < j => End(f.extents[i]) =< f.extents[j].logical}

ASSUME ExtentsAssumption ==
  /\ MaxCount \in Nat \ {0}
  /\ BlockSize \in Nat \ {0}
  /\ Files \subseteq FileState
  /\ MaxStates \in Nat
  /\ Supports \subseteq SUBSET {"FIEMAP", "FIBMAP"}

-----------------------------------------------------------------------------
(* The kernel. *)

\* FIEMAP from a logical block on: the extents that reach beyond it, as many
\* as the buffer holds.
Beyond(start) == {i \in DOMAIN file.extents : End(file.extents[i]) > start}

Fiemap(start) ==
  LET first == Min(Beyond(start))
  IN  IF Beyond(start) = {} THEN << >>
      ELSE SubSeq(file.extents, first, Min({Len(file.extents), first + MaxCount - 1}))

\* FIBMAP of a logical block: its physical block, 0 in a hole.
Fibmap(b) ==
  LET hit == {x \in ToSet(file.extents) : x.logical =< b /\ b < End(x)}
      x == CHOOSE x \in hit : TRUE
  IN  IF hit = {} \/ x.physical = 0 THEN 0 ELSE x.physical + b - x.logical

-----------------------------------------------------------------------------
(* get_file_extents. *)

\* Mutant: the length is rounded down.
RoundedDown(x) == [start  |-> x.physical \div BlockSize,
                   length |-> x.length \div BlockSize]

\* Mutant: a block too many when the length is a multiple of BlockSize.
RoundedPast(x) == [start  |-> x.physical \div BlockSize,
                   length |-> x.length \div BlockSize + 1]

Rounded(x) == [start  |-> x.physical \div BlockSize,
               length |-> (x.length - 1) \div BlockSize + 1]

\* Mutant: no extent is taken for the continuation of the one before it.
AppendOnly(found, x) == Append(found, Rounded(x))

\* An extent that continues the last one makes it longer.
AddExtent(found, x) ==
  LET new == Rounded(x)
      last == found[Len(found)]
  IN  IF found # << >> /\ last.start + last.length = new.start
      THEN [found EXCEPT ![Len(found)].length = @ + new.length]
      ELSE Append(found, new)

Init ==
  /\ file \in Files
  /\ supports \in Supports
  /\ block_count = file.size
  /\ pc = "open"
  /\ fm_start = 0
  /\ batch = << >>
  /\ k = 0
  /\ extents = << >>
  /\ seen = {file}

\* A device, a pipe or a file that cannot be opened is skipped.
Open ==
  /\ pc = "open"
  /\ pc' \in {"ask", "skipped"}
  /\ UNCHANGED <<file, supports, block_count, fm_start, batch, k, extents, seen>>

\* Mutant: an empty batch does not end the loop.
AskOn == pc' = "ask"

NoneLeft == pc' = "done"

\* fibmap_fallback up to its loop: it fills in the first record, with the
\* answer for block 0 wherever the request starts.
FibmapFallback ==
  \/ /\ fm_start >= block_count
     /\ NoneLeft
     /\ UNCHANGED <<batch, k>>
  \/ /\ fm_start < block_count
     /\ batch' = <<[logical |-> fm_start, physical |-> Fibmap(0), length |-> 1]>>
     /\ k' = fm_start + 1
     /\ pc' = "fibmap"

\* The next call.  An empty buffer is the end; a file is skipped if neither
\* ioctl works, or if the fallback fails this time.
Ask ==
  /\ pc = "ask"
  /\ \/ /\ "FIEMAP" \in supports
        /\ batch' = Fiemap(fm_start)
        /\ IF batch' = << >> THEN NoneLeft ELSE pc' = "take"
        /\ UNCHANGED k
     \/ supports = {"FIBMAP"} /\ FibmapFallback
     \/ /\ "FIEMAP" \notin supports
        /\ pc' = "skipped"
        /\ UNCHANGED <<batch, k>>
  /\ UNCHANGED <<file, supports, block_count, fm_start, extents, seen>>

\* Mutant: the loop ends with the last record of the buffer still unused.
RoomButOne == Len(batch) < MaxCount - 1

\* There is room for one more record.
Room == Len(batch) < MaxCount

\* One turn of the loop of fibmap_fallback: the block makes the last record
\* longer when it is adjacent on the disk, begins a record, or is a hole.  The
\* loop breaks when a new record is needed and there is no room; an ioctl that
\* fails gives up the whole file.
FibmapBlock ==
  LET p == Fibmap(k)
      last == batch[Len(batch)]
      adjacent == last.physical + last.length = p
  IN  /\ pc = "fibmap"
      /\ \/ /\ k < block_count => p # 0 /\ ~adjacent /\ ~Room
            /\ pc' = "take"
            /\ UNCHANGED <<batch, k>>
         \/ /\ k < block_count
            /\ \/ p = 0 /\ UNCHANGED batch
               \/ /\ p # 0 /\ adjacent
                  /\ batch' = [batch EXCEPT ![Len(batch)].length = @ + 1]
               \/ /\ p # 0 /\ ~adjacent /\ Room
                  /\ batch' = Append(batch, [logical |-> k, physical |-> p, length |-> 1])
            /\ k' = k + 1
            /\ UNCHANGED pc
         \/ /\ k < block_count
            /\ pc' = "skipped"
            /\ UNCHANGED <<batch, k>>
      /\ UNCHANGED <<file, supports, block_count, fm_start, extents, seen>>

\* Mutant: the next call starts where the last extent starts.
StartsAgain(x) == x.logical

\* Where the next call starts after the last extent of the batch.
StartsNext(x) == End(x)

\* One turn of the loop over the buffer, and after the last one the next call.
Take ==
  /\ pc = "take"
  /\ extents' = AddExtent(extents, Head(batch))
  /\ batch' = Tail(batch)
  /\ IF Len(batch) = 1
     THEN fm_start' = StartsNext(Head(batch)) /\ pc' = "ask"
     ELSE UNCHANGED <<fm_start, pc>>
  /\ UNCHANGED <<file, supports, block_count, k, seen>>

\* Another process writes to the file.
FileChanges ==
  /\ pc \notin {"done", "skipped"}
  /\ file' \in Files
  /\ seen' = seen \cup {file'}
  /\ Cardinality(seen') =< MaxStates
  /\ UNCHANGED <<supports, block_count, pc, fm_start, batch, k, extents>>

Next == Open \/ Ask \/ FibmapBlock \/ Take \/ FileChanges

\* The loop runs on its own; nobody has to write to the file.
Fairness == WF_vars(Open \/ Ask \/ FibmapBlock \/ Take)

Spec == Init /\ [][Next]_vars /\ Fairness

-----------------------------------------------------------------------------
(***************************************************************************)
(* What a file is, told without FIEMAP and FIBMAP.  Units are of BlockSize *)
(* blocks; a device gives extents that start on a unit, and all of them    *)
(* have their place once the file is on the disk.                          *)
(***************************************************************************)
Placed(f) == \A x \in ToSet(f.extents) : x.physical # 0
Aligned(f) == \A x \in ToSet(f.extents) : x.physical % BlockSize = 0

UnitsIn(x) == {b \div BlockSize : b \in x.physical .. x.physical + x.length - 1}

UnitsOf(f) == UNION {UnitsIn(x) : x \in {y \in ToSet(f.extents) : y.physical # 0}}

\* The runs of units the file has from its beginning to its end, by the
\* extents they begin with.
Heads(f) ==
  {i \in DOMAIN f.extents :
     i > 1 => LET p == f.extents[i - 1]
              IN  f.extents[i].physical \div BlockSize #
                    (p.physical + p.length - 1) \div BlockSize + 1}

FragmentsOf(f) == Cardinality(Heads(f))

Reported == UNION {e.start .. e.start + e.length - 1 : e \in ToSet(extents)}

StoodStill == seen = {file}

\* The extents are those of the file: its units, in as many fragments.
IsExact == Reported = UnitsOf(file) /\ Len(extents) = FragmentsOf(file)

\* The runs of blocks, each of which takes a record.  There are more of them
\* than runs of units where an extent ends within a unit.
Records(f) ==
  {i \in DOMAIN f.extents :
     i > 1 => LET p == f.extents[i - 1]
              IN  f.extents[i].physical # p.physical + p.length}

\* No hole, and no more runs of blocks than the buffer holds.
Dense(f) ==
  /\ Placed(f)
  /\ \A b \in 0 .. f.size - 1 : \E x \in ToSet(f.extents) : x.logical =< b /\ b < End(x)
  /\ f.extents # << >> => End(f.extents[Len(f.extents)]) = f.size
  /\ Cardinality(Records(f)) =< MaxCount

TypeOK ==
  /\ file \in Files
  /\ supports \in Supports
  /\ block_count \in Nat
  /\ pc \in {"open", "ask", "fibmap", "take", "done", "skipped"}
  /\ fm_start \in Nat /\ k \in Nat
  /\ batch \in Seq(Mapped) /\ Len(batch) =< MaxCount
  /\ extents \in Seq([start : Nat, length : Nat \ {0}])
  /\ seen \subseteq Files

\* However the extents fall into the batches of FIEMAP, and wherever one
\* batch ends in the middle of a run, a file that stands still is reported
\* exactly, once it is on the disk: nothing is lost, doubled or split at the
\* end of a batch, so that the number of extents is a measure of fragmentation
\* (clusters.cc:407-450).
FiemapIsExact ==
  /\ pc = "done" /\ "FIEMAP" \in supports
  /\ StoodStill /\ Placed(file) /\ Aligned(file)
  => IsExact

\* While the file is rewritten, truncated and extended between two calls,
\* FIEMAP still reports no unit that the file never had, as long as none of
\* its extents waits for its place.
NothingMadeUp ==
  "FIEMAP" \in supports /\ (\A f \in seen : Placed(f))
    => Reported \subseteq UNION {UnitsOf(f) : f \in seen}

\* clusters.cc:312, "emulate FIEMAP by means of FIBMAP": the fallback does,
\* for a file without holes whose runs of blocks fit the buffer.
FibmapIsExactWhenDense ==
  pc = "done" /\ supports = {"FIBMAP"} /\ StoodStill /\ Aligned(file) /\ Dense(file)
    => IsExact

\* Each call starts beyond the start of the call before it, also when the file
\* has changed under the loop or FIBMAP found holes: fm_start grows, which is
\* all that makes the do ... while (1) end (clusters.cc:407-450).  A call of
\* the fallback may still ask for blocks that one before it has asked for.
EachCallGetsFurther ==
  [][pc = "take" /\ pc' = "ask" => fm_start' > fm_start]_vars

\* The loop ends, even while other processes write to the file,
\* as long as these do not make it grow for ever.
Terminates == <>(pc \in {"done", "skipped"})

\* clusters.cc:312 as it stands, for every file.
EmulatesFiemap ==
  pc = "done" /\ supports = {"FIBMAP"} /\ StoodStill /\ Aligned(file) => IsExact
=============================================================================
