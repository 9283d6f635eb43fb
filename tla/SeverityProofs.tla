--------------------------- MODULE SeverityProofs ---------------------------
(***************************************************************************)
(* Theorems about Severity, for every file, window, gap and penalty.       *)
(***************************************************************************)
EXTENDS Severity, FiniteSetTheorems, TLAPS

\* The moves of the head that have been paid for: one to the first extent of
\* the window, and one for each extent of it but the last of the file.
Moves == IF k2 =< Len(extents) THEN k2 - k1 + 1 ELSE Len(extents) - k1 + 1

\* The time spent in a window is that of the blocks read and of the moves.
TimeBounded ==
  k1 =< Len(extents) => read_time =< (Window - span) + Penalty * Moves

IInv == TypeOK /\ TimeBounded /\ AtMostItsExtents

-----------------------------------------------------------------------------
(* Arithmetic. *)

\* A gap takes at most the time of a move of the head, and no negative time.
LEMMA GapAtMostPenalty ==
  ASSUME NEW delta \in Int
  PROVE  Gap(delta) \in 0 .. Penalty
  BY SeverityAssumption DEF Gap

\* One more move is one more penalty.
LEMMA OneMore ==
  ASSUME NEW p \in Nat, NEW m \in Nat
  PROVE  p * (m + 1) = p * m + p /\ p * m \in Nat
  OBVIOUS

\* More moves take more time.
LEMMA MoreMoves ==
  ASSUME NEW p \in Nat, NEW m \in Nat, NEW n \in Nat, m =< n
  PROVE  p * m =< p * n
  <1>1. PICK d \in Nat : n = m + d
    <2>1. n - m \in Nat /\ n = m + (n - m)
      OBVIOUS
    <2>. QED BY <2>1
  <1>2. p * n = p * m + p * d
    BY <1>1
  <1>3. p * d \in Nat /\ p * m \in Nat
    OBVIOUS
  <1>. QED BY <1>2, <1>3

\* What is read in n pieces takes at most n times as long as in one piece.
LEMMA PiecesBound ==
  ASSUME NEW b \in Nat, NEW p \in Nat, NEW n \in Nat \ {0}
  PROVE  b + p * n =< n * (b + p)
  <1>1. n * (b + p) = n * b + n * p
    OBVIOUS
  <1>2. n * b >= 1 * b
    BY MoreMoves, 1 \in Nat, 1 =< n, b * 1 = 1 * b, b * n = n * b
  <1>3. n * p = p * n /\ n * p \in Nat /\ n * b \in Nat
    OBVIOUS
  <1>. QED BY <1>1, <1>2, <1>3

-----------------------------------------------------------------------------
\* An extent of the file is an extent.
LEMMA ExtentTyped ==
  ASSUME TypeOK, NEW k \in DOMAIN extents
  PROVE  extents[k].start \in Nat /\ extents[k].length \in Nat \ {0}
  <1>1. extents \in Seq(Extent)
    BY SeverityAssumption DEF TypeOK
  <1>2. extents[k] \in Extent
    BY <1>1
  <1>. QED BY <1>2 DEF Extent

\* A window laid at the first extent has paid for one move and read nothing.
LEMMA InitInvariant == Init => IInv
  <1>. SUFFICES ASSUME Init PROVE IInv
    OBVIOUS
  <1>1. extents \in Seq(Extent) /\ Len(extents) \in Nat
    BY SeverityAssumption DEF Init
  <1>2. TypeOK
    BY <1>1, SeverityAssumption DEF Init, TypeOK
  <1>3. TimeBounded
    <2>1. Penalty * 1 = Penalty
      BY SeverityAssumption
    <2>. QED BY <2>1, <1>1, SeverityAssumption DEF Init, TimeBounded, Moves
  <1>4. AtMostItsExtents
    <2>1. extents # << >> => Len(extents) >= 1
      BY <1>1
    <2>. QED BY <2>1, <1>1 DEF Init, AtMostItsExtents
  <1>. QED BY <1>2, <1>3, <1>4 DEF IInv

\* Moves is a number up to that of the extents, and reading one more extent
\* makes it one more, unless that is the last of the file.
LEMMA MovesGrow ==
  ASSUME TypeOK, Reading, k2' = k2 + 1, UNCHANGED <<extents, k1>>
  PROVE  /\ Moves \in Nat
         /\ Moves' = IF k2 < Len(extents) THEN Moves + 1 ELSE Moves
  <1>1. extents \in Seq(Extent) /\ Len(extents) \in Nat
    BY SeverityAssumption DEF TypeOK
  <1>. QED BY <1>1 DEF TypeOK, Reading, Moves

\* What a round of the inner loop adds to the time is covered by the blocks it
\* takes from the window and by one move.
LEMMA ReadExtentInvariant ==
  ASSUME IInv, ReadExtent
  PROVE  IInv'
  <1>. USE SeverityAssumption
  <1>. DEFINE x == extents[k2]
              gap == IF k2 < Len(extents) THEN Gap(Delta(k2)) ELSE 0
  <1>1. TypeOK /\ Reading /\ k2' = k2 + 1 /\ UNCHANGED <<extents, k1, overall>>
    BY DEF IInv, ReadExtent
  <1>2. extents \in Seq(Extent) /\ Len(extents) \in Nat
    BY <1>1 DEF TypeOK
  <1>3. k1 \in Nat \ {0} /\ k2 \in k1 .. Len(extents) /\ span \in Nat
          /\ span =< Window /\ read_time \in Nat
    BY <1>1, <1>2 DEF TypeOK, Reading
  <1>4. k2 \in DOMAIN extents /\ x.start \in Nat /\ x.length \in Nat \ {0}
    BY <1>1, <1>2, <1>3, ExtentTyped
  <1>5. gap \in 0 .. Penalty /\ (k2 >= Len(extents) => gap = 0)
    <2>1. CASE k2 < Len(extents)
      <3>1. k2 + 1 \in DOMAIN extents
        BY <1>2, <1>3, <2>1
      <3>2. extents[k2 + 1].start \in Nat
        BY <1>1, <3>1, ExtentTyped
      <3>3. Delta(k2) \in Int
        BY <1>4, <3>2 DEF Delta
      <3>. QED BY <2>1, <3>3, <1>2, <1>3, GapAtMostPenalty
    <2>2. CASE ~(k2 < Len(extents))
      BY <2>2
    <2>. QED BY <2>1, <2>2, <1>2, <1>3
  <1>6. \/ /\ x.length =< span
           /\ span' = span - x.length
           /\ read_time' = read_time + x.length + gap
        \/ span' = 0 /\ read_time' = read_time + span
    BY DEF ReadExtent, WholeExtent, PartOfExtent
  <1>7. span' \in 0 .. Window /\ read_time' \in Nat
    <2> DEFINE l == x.length
    <2>1. l \in Nat /\ gap \in Nat
      BY <1>4, <1>5
    <2>2. \/ l =< span /\ span' = span - l /\ read_time' = read_time + l + gap
          \/ span' = 0 /\ read_time' = read_time + span
      BY <1>6
    <2> HIDE DEF l, gap
    <2>. QED BY <1>3, <2>1, <2>2
  <1>8. TypeOK'
    BY <1>1, <1>2, <1>3, <1>7 DEF TypeOK
  <1>9. TimeBounded'
    <2>1. read_time =< (Window - span) + Penalty * Moves
      BY <1>2, <1>3 DEF IInv, TimeBounded
    <2>2. Moves \in Nat
          /\ Moves' = IF k2 < Len(extents) THEN Moves + 1 ELSE Moves
      BY <1>1, MovesGrow
    <2>3. Penalty * (Moves + 1) = Penalty * Moves + Penalty
          /\ Penalty * Moves \in Nat
      BY <2>2, OneMore
    <2>4. read_time' =< (Window - span') + Penalty * Moves + gap
      <3> DEFINE l == x.length
                 paid == Penalty * Moves
      <3>1. l \in Nat /\ gap \in Nat /\ paid \in Nat
            /\ read_time =< (Window - span) + paid
        BY <1>4, <1>5, <2>1, <2>3
      <3>2. \/ l =< span /\ span' = span - l /\ read_time' = read_time + l + gap
            \/ span' = 0 /\ read_time' = read_time + span
        BY <1>6
      <3> HIDE DEF l, gap, paid
      <3>3. read_time' =< (Window - span') + paid + gap
        BY <1>3, <3>1, <3>2
      <3>. QED BY <3>3 DEF paid
    <2>5. Penalty * Moves' >= Penalty * Moves + gap
      <3>1. Penalty * Moves' = IF k2 < Len(extents) THEN Penalty * Moves + Penalty
                                                    ELSE Penalty * Moves
        BY <2>2, <2>3
      <3> DEFINE before == Penalty * Moves
                 after == Penalty * Moves'
      <3>2. /\ before \in Nat /\ Penalty \in Nat /\ gap \in Nat /\ gap =< Penalty
            /\ after = IF k2 < Len(extents) THEN before + Penalty ELSE before
        BY <1>5, <2>3, <3>1
      <3>3. ~(k2 < Len(extents)) => gap = 0
        OBVIOUS
      <3> HIDE DEF before, after, gap
      <3>4. after >= before + gap
        BY <3>2, <3>3
      <3>. QED BY <3>4 DEF before, after
    <2>6. Penalty * Moves' \in Nat
      BY <2>2, <2>3
    <2>7. read_time' =< (Window - span') + Penalty * Moves'
      BY <2>3, <2>4, <2>5, <2>6, <1>5, <1>7
    <2>. QED BY <2>7 DEF TimeBounded
  <1>10. AtMostItsExtents'
    BY <1>1 DEF IInv, AtMostItsExtents
  <1>. QED BY <1>8, <1>9, <1>10 DEF IInv

\* At the end of a window, the time it took is at most that of the blocks and
\* of a move to every extent of the file.
LEMMA CloseWindowInvariant ==
  ASSUME IInv, CloseWindow
  PROVE  IInv'
  <1>. USE SeverityAssumption
  <1>. DEFINE n == Len(extents)
              b == Window - span
  <1>1. /\ TypeOK /\ k1 =< n /\ k1' = k1 + 1 /\ k2' = k1 + 1
        /\ span' = Window /\ read_time' = Penalty /\ extents' = extents
        /\ overall' = IF AtLeast(Local, overall) THEN Local ELSE overall
    BY DEF IInv, CloseWindow
  <1>2. extents \in Seq(Extent) /\ n \in Nat
    BY <1>1 DEF TypeOK
  <1>3. k1 \in 1 .. n /\ k2 \in k1 .. n + 1 /\ n \in Nat \ {0} /\ b \in Nat
          /\ read_time \in Nat
    BY <1>1, <1>2 DEF TypeOK
  <1>4. Local \in [time : Nat, raw : Nat \ {0}]
    BY <1>3 DEF Local
  <1>5. TypeOK'
    <2>1. overall' \in [time : Nat, raw : Nat \ {0}]
      BY <1>1, <1>4 DEF TypeOK
    <2>2. k1' \in 1 .. n + 1 /\ k2' \in k1' .. n + 1 /\ span' \in 0 .. Window
          /\ read_time' \in Nat
      BY <1>1, <1>3
    <2>. QED BY <1>1, <2>1, <2>2 DEF TypeOK
  <1>6. TimeBounded'
    <2>1. k1 + 1 =< n => Moves' = 1
      BY <1>1, <1>3 DEF Moves
    <2>2. Penalty * 1 = Penalty /\ Window - Window = 0
      OBVIOUS
    <2>. QED BY <1>1, <2>1, <2>2 DEF TimeBounded
  <1>7. Local.time =< n * Local.raw
    <2>1. read_time =< b + Penalty * Moves
      BY <1>1 DEF IInv, TimeBounded
    <2>2. Moves \in Nat /\ Moves =< n
      BY <1>3 DEF Moves
    <2>3. Penalty * Moves =< Penalty * n
      BY <2>2, <1>2, MoreMoves
    <2>4. b + Penalty * n =< n * (b + Penalty)
      BY <1>3, PiecesBound
    <2>5. Penalty * Moves \in Nat /\ Penalty * n \in Nat /\ n * (b + Penalty) \in Nat
      BY <2>2, <1>3
    <2>6. read_time =< n * (b + Penalty)
      BY <2>1, <2>3, <2>4, <2>5, <1>3
    <2>. QED BY <2>6 DEF Local
  <1>8. AtMostItsExtents'
    <2>1. extents # << >>
      BY <1>2, <1>3
    <2>2. overall.time =< n * overall.raw
      BY <2>1 DEF IInv, AtMostItsExtents
    <2>3. overall'.time =< n * overall'.raw
      BY <2>2, <1>7, <1>1
    <2>. QED BY <2>1, <2>3, <1>1 DEF AtMostItsExtents
  <1>. QED BY <1>5, <1>6, <1>8 DEF IInv

\* IInv is an invariant.
LEMMA Invariant == Spec => []IInv
  <1>1. IInv /\ [Next]_vars => IInv'
    <2>. SUFFICES ASSUME IInv, [Next]_vars PROVE IInv'
      OBVIOUS
    <2>1. CASE ReadExtent
      BY <2>1, ReadExtentInvariant
    <2>2. CASE CloseWindow
      BY <2>2, CloseWindowInvariant
    <2>3. CASE UNCHANGED vars
      BY <2>3 DEF IInv, TypeOK, TimeBounded, Moves, AtMostItsExtents, vars
    <2>. QED BY <2>1, <2>2, <2>3 DEF Next
  <1>. QED BY <1>1, InitInvariant, PTL DEF Spec

-----------------------------------------------------------------------------
\* The unsigned span never wraps around and no time is negative, whatever the
\* extents of the file are (clusters.cc:282-302).
THEOREM TypeCorrect == Spec => []TypeOK
  BY Invariant, PTL DEF IInv

\* The severity of a file is at most the number of its extents: a file in one
\* piece is exactly 1, on every disk and with every window.
THEOREM SeverityAtMostExtents == Spec => []AtMostItsExtents
  BY Invariant, PTL DEF IInv

-----------------------------------------------------------------------------
(* The blocks of a file, in their order. *)

\* What a block is.
LEMMA BlocksFacts ==
  ASSUME extents \in Files
  PROVE  /\ Len(extents) \in Nat /\ DOMAIN extents = 1 .. Len(extents)
         /\ \A k \in 1 .. Len(extents) :
              extents[k].start \in Nat /\ extents[k].length \in Nat \ {0}
         /\ \A k, j : <<k, j>> \in Blocks <=>
              k \in 1 .. Len(extents) /\ j \in 0 .. extents[k].length - 1
         /\ \A b \in Blocks :
              /\ b = <<b[1], b[2]>> /\ b[1] \in 1 .. Len(extents)
              /\ b[2] \in 0 .. extents[b[1]].length - 1
         /\ IsFiniteSet(Blocks)
  <1>1. /\ Len(extents) \in Nat /\ DOMAIN extents = 1 .. Len(extents)
        /\ \A k \in 1 .. Len(extents) :
             extents[k].start \in Nat /\ extents[k].length \in Nat \ {0}
    <2>1. extents \in Seq(Extent)
      BY SeverityAssumption
    <2>2. \A x \in Extent : x.start \in Nat /\ x.length \in Nat \ {0}
      BY DEF Extent
    <2>. QED BY <2>1, <2>2
  <1>2. \A k, j : <<k, j>> \in Blocks <=>
          k \in 1 .. Len(extents) /\ j \in 0 .. extents[k].length - 1
    BY <1>1 DEF Blocks
  <1>3. \A b \in Blocks :
          /\ b = <<b[1], b[2]>> /\ b[1] \in 1 .. Len(extents)
          /\ b[2] \in 0 .. extents[b[1]].length - 1
    BY <1>1 DEF Blocks
  <1>4. IsFiniteSet(Blocks)
    <2> DEFINE of == [k \in 1 .. Len(extents) |-> {k} \X (0 .. extents[k].length - 1)]
               all == {of[k] : k \in 1 .. Len(extents)}
    <2>1. IsFiniteSet(1 .. Len(extents))
      BY <1>1, FS_Interval
    <2>2. of \in Surjection(1 .. Len(extents), all)
      BY DEF Surjection
    <2>3. IsFiniteSet(all)
      BY <2>1, <2>2, FS_Surjection
    <2>4. ASSUME NEW k \in 1 .. Len(extents) PROVE IsFiniteSet(of[k])
      <3>1. extents[k].length - 1 \in Int /\ 0 \in Int
        BY <1>1
      <3>2. IsFiniteSet(0 .. extents[k].length - 1)
        BY <3>1, FS_Interval
      <3>3. IsFiniteSet({k})
        BY FS_Singleton
      <3>. QED BY <3>2, <3>3, FS_Product
    <2>5. \A s \in all : IsFiniteSet(s)
      BY <2>4
    <2>6. Blocks = UNION all
      BY <1>1 DEF Blocks
    <2> HIDE DEF all
    <2>. QED BY <2>3, <2>5, <2>6, FS_UNION
  <1>. QED BY <1>1, <1>2, <1>3, <1>4

\* The blocks of one extent up to one of them.
LEMMA Column ==
  ASSUME NEW k, NEW m \in Nat
  PROVE  IsFiniteSet({k} \X (0 .. m - 1)) /\ Cardinality({k} \X (0 .. m - 1)) = m
  <1>1. IsFiniteSet({k}) /\ Cardinality({k}) = 1
    BY FS_Singleton
  <1>2. IsFiniteSet(0 .. m - 1) /\ Cardinality(0 .. m - 1) = m
    <2>1. m - 1 \in Int /\ 0 \in Int
      OBVIOUS
    <2>2. IsFiniteSet(0 .. m - 1) /\ Cardinality(0 .. m - 1)
            = IF 0 > m - 1 THEN 0 ELSE m - 1 - 0 + 1
      BY <2>1, FS_Interval
    <2>. QED BY <2>2
  <1>3. IsFiniteSet({k} \X (0 .. m - 1))
        /\ Cardinality({k} \X (0 .. m - 1)) = Cardinality({k}) * Cardinality(0 .. m - 1)
    BY <1>1, <1>2, FS_Product
  <1>. QED BY <1>1, <1>2, <1>3

\* Sets that have nothing in common have the elements of both together.
LEMMA Disjoint ==
  ASSUME NEW S, NEW T, IsFiniteSet(S), IsFiniteSet(T), S \cap T = {}
  PROVE  /\ IsFiniteSet(S \cup T)
         /\ Cardinality(S \cup T) = Cardinality(S) + Cardinality(T)
  <1>1. Cardinality(S) \in Nat /\ Cardinality(T) \in Nat
    BY FS_CardinalityType
  <1>2. Cardinality(S \cap T) = 0
    BY FS_EmptySet
  <1>3. IsFiniteSet(S \cup T)
        /\ Cardinality(S \cup T) = Cardinality(S) + Cardinality(T) - Cardinality(S \cap T)
    BY FS_Union
  <1>. QED BY <1>1, <1>2, <1>3

\* The number of blocks before an extent.
Start(k) == Cardinality({c \in Blocks : c[1] < k})

LEMMA StartMonotone ==
  ASSUME extents \in Files, NEW k \in Nat, NEW m \in Nat
  PROVE  /\ Start(k) \in Nat
         /\ k =< m => Start(k) =< Start(m)
  <1> DEFINE S == {c \in Blocks : c[1] < k}
             T == {c \in Blocks : c[1] < m}
  <1>1. IsFiniteSet(S) /\ IsFiniteSet(T)
    BY BlocksFacts, FS_Subset
  <1>2. Cardinality(S) \in Nat
    BY <1>1, FS_CardinalityType
  <1>3. k =< m => S \in SUBSET T
    <2>1. \A b \in Blocks : b[1] \in Nat
      BY BlocksFacts
    <2>. QED BY <2>1
  <1>4. k =< m => Cardinality(S) =< Cardinality(T)
    BY <1>1, <1>3, FS_Subset
  <1>. QED BY <1>2, <1>4 DEF Start

\* After an extent there are as many more as it is long.
LEMMA StartGrows ==
  ASSUME extents \in Files, NEW k \in 1 .. Len(extents)
  PROVE  Start(k + 1) = Start(k) + extents[k].length
  <1> DEFINE S == {c \in Blocks : c[1] < k}
             T == {k} \X (0 .. extents[k].length - 1)
  <1>1. IsFiniteSet(S) /\ extents[k].length \in Nat
    BY BlocksFacts, FS_Subset
  <1>2. {c \in Blocks : c[1] < k + 1} = S \cup T
    <2>1. \A b \in Blocks : b[1] < k + 1 <=> b[1] < k \/ b[1] = k
      BY BlocksFacts
    <2>2. \A b \in Blocks : b[1] = k <=> b \in T
      BY BlocksFacts
    <2>3. T \subseteq Blocks
      BY BlocksFacts
    <2> HIDE DEF T
    <2>. QED BY <2>1, <2>2, <2>3
  <1>3. S \cap T = {}
    OBVIOUS
  <1>4. IsFiniteSet(T) /\ Cardinality(T) = extents[k].length
    BY <1>1, Column
  <1> HIDE DEF S, T
  <1>5. Cardinality(S \cup T) = Cardinality(S) + Cardinality(T)
    BY <1>1, <1>3, <1>4, Disjoint
  <1>. QED BY <1>2, <1>4, <1>5 DEF Start, S

\* A block comes after those of the extents before it and those before it in
\* its own.
LEMMA OffsetIs ==
  ASSUME extents \in Files, NEW b \in Blocks
  PROVE  Offset(b) = Start(b[1]) + b[2] /\ Offset(b) \in Nat
  <1> DEFINE S == {c \in Blocks : c[1] < b[1]}
             T == {b[1]} \X (0 .. b[2] - 1)
  <1>1. b[1] \in 1 .. Len(extents) /\ b[2] \in 0 .. extents[b[1]].length - 1
        /\ IsFiniteSet(S) /\ b[1] \in Nat /\ b[2] \in Nat
    BY BlocksFacts, FS_Subset
  <1>2. {c \in Blocks : Before(c, b)} = S \cup T
    <2>1. \A c \in Blocks : c[1] = b[1] /\ c[2] < b[2] <=> c \in T
      BY BlocksFacts, <1>1
    <2>2. T \subseteq Blocks
      BY BlocksFacts, <1>1
    <2> HIDE DEF T
    <2>. QED BY <2>1, <2>2 DEF Before
  <1>3. S \cap T = {}
    BY <1>1
  <1>4. IsFiniteSet(T) /\ Cardinality(T) = b[2]
    BY <1>1, Column
  <1> HIDE DEF S, T
  <1>5. Cardinality(S \cup T) = Cardinality(S) + Cardinality(T)
    BY <1>1, <1>3, <1>4, Disjoint
  <1>6. Start(b[1]) \in Nat
    BY <1>1, StartMonotone
  <1>7. Offset(b) = Start(b[1]) + b[2]
    BY <1>2, <1>4, <1>5 DEF Offset, Start, S
  <1>. QED BY <1>1, <1>6, <1>7

\* The offsets of the first m blocks of an extent, and of no other block.
LEMMA OffsetsOfExtent ==
  ASSUME extents \in Files, NEW k \in 1 .. Len(extents),
         NEW m \in 0 .. extents[k].length, NEW b \in Blocks
  PROVE  Offset(b) \in Start(k) .. Start(k) + m - 1 <=> b \in {k} \X (0 .. m - 1)
  <1>1. /\ k \in Nat /\ k + 1 \in Nat /\ extents[k].length \in Nat /\ m \in Nat
        /\ m =< extents[k].length
        /\ b = <<b[1], b[2]>> /\ b[1] \in 1 .. Len(extents) /\ b[2] \in Nat /\ b[1] \in Nat
        /\ b[1] + 1 \in Nat
        /\ b[2] < extents[b[1]].length /\ extents[b[1]].length \in Nat
    BY BlocksFacts
  <1>2. Offset(b) = Start(b[1]) + b[2] /\ Start(b[1]) \in Nat /\ Start(k) \in Nat
    BY <1>1, OffsetIs, StartMonotone
  <1>3. CASE b[1] = k
    BY <1>1, <1>2, <1>3
  <1>4. CASE b[1] < k
    <2>1. Start(b[1] + 1) =< Start(k)
      <3>1. b[1] + 1 =< k
        BY <1>1, <1>4
      <3>. QED BY <1>1, <3>1, StartMonotone
    <2>2. Start(b[1] + 1) = Start(b[1]) + extents[b[1]].length
      BY <1>1, StartGrows
    <2>3. ~(Offset(b) >= Start(k))
      BY <1>1, <1>2, <2>1, <2>2
    <2>4. b \notin {k} \X (0 .. m - 1)
      BY <1>1, <1>4
    <2>. QED BY <1>2, <2>3, <2>4
  <1>5. CASE b[1] > k
    <2>1. Start(k + 1) =< Start(b[1])
      <3>1. k + 1 =< b[1]
        BY <1>1, <1>5
      <3>. QED BY <1>1, <3>1, StartMonotone
    <2>2. Start(k + 1) = Start(k) + extents[k].length
      BY StartGrows
    <2>3. ~(Offset(b) =< Start(k) + m - 1)
      <3> DEFINE s == Start(k)
                 t == Start(b[1])
                 l == extents[k].length
      <3>1. s \in Nat /\ t \in Nat /\ l \in Nat /\ s + l =< t /\ Offset(b) = t + b[2]
        BY <1>1, <1>2, <2>1, <2>2
      <3>2. m =< l /\ m \in Nat /\ b[2] \in Nat
        BY <1>1
      <3> HIDE DEF s, t, l
      <3>3. ~(t + b[2] =< s + m - 1)
        BY <3>1, <3>2
      <3>. QED BY <3>1, <3>3 DEF s
    <2>4. b \notin {k} \X (0 .. m - 1)
      BY <1>1, <1>5
    <2>. QED BY <1>2, <2>3, <2>4
  <1>. QED BY <1>1, <1>3, <1>4, <1>5

-----------------------------------------------------------------------------
(* The window over the blocks. *)

\* The first m blocks of an extent.
FirstOf(k, m) == {k} \X (0 .. m - 1)

\* The first m blocks of an extent come into the window after all before them.
LEMMA BlocksGrow ==
  ASSUME extents \in Files, NEW k \in 1 .. Len(extents),
         NEW m \in 0 .. extents[k].length,
         NEW o \in Nat, NEW u \in Nat, o + u = Start(k)
  PROVE  /\ BlocksFrom(o, u + m) = BlocksFrom(o, u) \cup FirstOf(k, m)
         /\ BlocksFrom(o, u) \cap FirstOf(k, m) = {}
         /\ Cardinality(BlocksFrom(o, u + m)) = Cardinality(BlocksFrom(o, u)) + m
  <1> DEFINE T == {k} \X (0 .. m - 1)
             s == Start(k)
  <1>a. T = FirstOf(k, m)
    BY DEF FirstOf
  <1>1. s \in Nat /\ m \in Nat /\ o + u = s /\ m =< extents[k].length
    BY BlocksFacts, StartMonotone
  <1>2. T \subseteq Blocks
    BY BlocksFacts
  <1>3. \A b \in Blocks : Offset(b) \in s .. s + m - 1 <=> b \in T
    BY OffsetsOfExtent
  <1>4. \A b \in Blocks : Offset(b) \in Nat
    BY OffsetIs
  <1> HIDE DEF T, s
  <1>5. ASSUME NEW b \in Blocks
        PROVE  /\ b \in BlocksFrom(o, u + m) <=> b \in BlocksFrom(o, u) \/ b \in T
               /\ ~(b \in BlocksFrom(o, u) /\ b \in T)
    <2> DEFINE x == Offset(b)
    <2>1. x \in Nat /\ (x \in s .. s + m - 1 <=> b \in T)
      BY <1>3, <1>4
    <2>2. /\ b \in BlocksFrom(o, u + m) <=> x \in o .. o + (u + m) - 1
          /\ b \in BlocksFrom(o, u) <=> x \in o .. o + u - 1
      BY DEF BlocksFrom
    <2> HIDE DEF x
    <2>3. x \in o .. o + (u + m) - 1 <=> x \in o .. o + u - 1 \/ x \in s .. s + m - 1
      BY <1>1, <2>1
    <2>4. ~(x \in o .. o + u - 1 /\ x \in s .. s + m - 1)
      BY <1>1, <2>1
    <2>. QED BY <2>1, <2>2, <2>3, <2>4
  <1>6. BlocksFrom(o, u + m) \subseteq Blocks /\ BlocksFrom(o, u) \subseteq Blocks
    BY DEF BlocksFrom
  <1>7. BlocksFrom(o, u + m) = BlocksFrom(o, u) \cup T /\ BlocksFrom(o, u) \cap T = {}
    BY <1>2, <1>5, <1>6
  <1>8. IsFiniteSet(BlocksFrom(o, u))
    BY <1>6, BlocksFacts, FS_Subset
  <1>9. IsFiniteSet(T) /\ Cardinality(T) = m
    BY <1>1, Column DEF T
  <1>10. Cardinality(BlocksFrom(o, u + m)) = Cardinality(BlocksFrom(o, u)) + m
    BY <1>7, <1>8, <1>9, Disjoint
  <1>. QED BY <1>a, <1>7, <1>10

\* A block is followed by the next one of its extent, the last one of an extent
\* by the first one of the next.
LEMMA Successor ==
  ASSUME extents \in Files, NEW k \in 1 .. Len(extents),
         NEW j \in 0 .. extents[k].length - 1, NEW c \in Blocks
  PROVE  Offset(c) = Offset(<<k, j>>) + 1 <=>
           \/ j < extents[k].length - 1 /\ c = <<k, j + 1>>
           \/ j = extents[k].length - 1 /\ k < Len(extents) /\ c = <<k + 1, 0>>
  <1> DEFINE s == Start(k)
             l == extents[k].length
             x == Offset(c)
  <1>1. /\ Len(extents) \in Nat /\ l \in Nat \ {0} /\ j \in Nat /\ s \in Nat /\ k \in Nat
        /\ j < l /\ c = <<c[1], c[2]>> /\ c[1] \in 1 .. Len(extents) /\ c[1] \in Nat
        /\ c[2] \in Nat /\ c[2] < extents[c[1]].length
    BY BlocksFacts, StartMonotone
  <1>2. Offset(<<k, j>>) = s + j /\ x = Start(c[1]) + c[2] /\ Start(c[1]) \in Nat
    <2>1. <<k, j>> \in Blocks
      BY BlocksFacts
    <2>. QED BY <1>1, <2>1, OffsetIs, StartMonotone
  <1>3. Start(k + 1) = s + l
    BY StartGrows
  <1>4. CASE c[1] < k
    <2>1. Start(c[1] + 1) = Start(c[1]) + extents[c[1]].length
      BY <1>1, StartGrows
    <2>2. Start(c[1] + 1) =< s
      <3>1. c[1] + 1 =< k /\ c[1] + 1 \in Nat
        BY <1>1, <1>4
      <3>. QED BY <1>1, <3>1, StartMonotone
    <2>3. extents[c[1]].length \in Nat
      BY <1>1, BlocksFacts
    <2> HIDE DEF s, l, x
    <2>4. x < s + j + 1
      BY <1>1, <1>2, <2>1, <2>2, <2>3
    <2>5. x # s + j + 1
      BY <1>1, <1>2, <2>4
    <2>6. c # <<k, j + 1>> /\ c # <<k + 1, 0>>
      BY <1>1, <1>4
    <2>. QED BY <1>2, <2>5, <2>6 DEF x
  <1>5. CASE c[1] = k
    <2> HIDE DEF s, x
    <2>1. x = s + j + 1 <=> c[2] = j + 1
      BY <1>1, <1>2, <1>5 DEF s
    <2>2. c = <<k, j + 1>> <=> c[2] = j + 1
      BY <1>1, <1>5
    <2>3. c # <<k + 1, 0>>
      BY <1>1, <1>5
    <2>4. c[2] = j + 1 => j < l - 1
      BY <1>1, <1>5
    <2>. QED BY <1>1, <1>2, <2>1, <2>2, <2>3, <2>4 DEF x
  <1>6. CASE c[1] = k + 1
    <2> HIDE DEF s, x
    <2>1. x = s + l + c[2]
      BY <1>2, <1>3, <1>6
    <2> HIDE DEF l
    <2>2. x = s + j + 1 <=> j = l - 1 /\ c[2] = 0
      BY <1>1, <2>1
    <2>3. c = <<k + 1, 0>> <=> c[2] = 0
      BY <1>1, <1>6
    <2>4. c # <<k, j + 1>> /\ k < Len(extents)
      BY <1>1, <1>6
    <2>. QED BY <1>1, <1>2, <2>2, <2>3, <2>4 DEF x, l
  <1>7. CASE c[1] > k + 1
    <2>1. k + 1 \in 1 .. Len(extents)
      BY <1>1, <1>7
    <2>2. Start(k + 1 + 1) = s + l + extents[k + 1].length /\ extents[k + 1].length \in Nat \ {0}
      BY <1>3, <2>1, StartGrows, BlocksFacts
    <2>3. Start(k + 1 + 1) =< Start(c[1])
      <3>1. k + 1 + 1 =< c[1] /\ k + 1 + 1 \in Nat
        BY <1>1, <1>7
      <3>. QED BY <1>1, <3>1, StartMonotone
    <2> DEFINE t == Start(c[1])
               h == extents[k + 1].length
               v == c[2]
    <2>4. /\ s \in Nat /\ l \in Nat /\ j \in Nat /\ j < l /\ h \in Nat \ {0}
          /\ t \in Nat /\ v \in Nat /\ x = t + v /\ s + l + h =< t
      BY <1>1, <1>2, <2>2, <2>3
    <2> HIDE DEF s, l, x, t, h, v
    <2>5. x > s + j + 1
      BY <2>4
    <2>6. x # s + j + 1
      BY <2>4, <2>5
    <2>7. c # <<k, j + 1>> /\ c # <<k + 1, 0>>
      BY <1>1, <1>7
    <2>. QED BY <1>2, <2>6, <2>7 DEF x
  <1>. QED BY <1>1, <1>4, <1>5, <1>6, <1>7

\* The units of time that lie between the blocks of a file are finitely many.
LEMMA UnitsFinite ==
  ASSUME extents \in Files, NEW o, NEW n
  PROVE  IsFiniteSet(UnitsFrom(o, n))
  <1> DEFINE P == PassagesFrom(o, n)
             of == [pair \in P |-> Units(pair)]
             all == {of[pair] : pair \in P}
  <1>1. IsFiniteSet(Blocks \X Blocks)
    BY BlocksFacts, FS_Product
  <1>2. P \subseteq Blocks \X Blocks
    BY DEF PassagesFrom, BlocksFrom
  <1>3. IsFiniteSet(P)
    BY <1>1, <1>2, FS_Subset
  <1>4. of \in Surjection(P, all)
    BY DEF Surjection
  <1>5. IsFiniteSet(all)
    BY <1>3, <1>4, FS_Surjection
  <1>6. ASSUME NEW pair \in P PROVE IsFiniteSet(of[pair])
    <2> DEFINE b == pair[1]
               c == pair[2]
               g == Gap(Place(c) - Place(b) - 1)
    <2>1. b \in Blocks /\ c \in Blocks
      BY <1>2
    <2>2. Place(b) \in Nat /\ Place(c) \in Nat
      BY <2>1, BlocksFacts DEF Place
    <2>3. Place(c) - Place(b) - 1 \in Int
      BY <2>2
    <2>4. g \in 0 .. Penalty
      BY <2>3, GapAtMostPenalty
    <2>5. g \in Nat
      BY <2>4, SeverityAssumption
    <2>6. of[pair] = {pair} \X (0 .. g - 1)
      BY DEF Units
    <2> HIDE DEF g, of
    <2>7. IsFiniteSet({pair} \X (0 .. g - 1))
      BY <2>5, Column
    <2>. QED BY <2>6, <2>7
  <1>7. \A s \in all : IsFiniteSet(s)
    BY <1>6
  <1>8. UnitsFrom(o, n) = UNION all
    BY DEF UnitsFrom
  <1> HIDE DEF all
  <1>. QED BY <1>5, <1>7, <1>8, FS_UNION

\* From one block of an extent to the next it takes no time, from the last one
\* to the next extent that of the gap.
LEMMA UnitsOfPassages ==
  ASSUME extents \in Files, NEW k \in 1 .. Len(extents)
  PROVE  /\ \A j \in 0 .. extents[k].length - 1 :
              j < extents[k].length - 1 => Units(<<<<k, j>>, <<k, j + 1>>>>) = {}
         /\ k < Len(extents) =>
              /\ Gap(Delta(k)) \in Nat
              /\ Units(<<<<k, extents[k].length - 1>>, <<k + 1, 0>>>>)
                   = {<<<<k, extents[k].length - 1>>, <<k + 1, 0>>>>}
                       \X (0 .. Gap(Delta(k)) - 1)
  <1>1. extents[k].start \in Nat /\ extents[k].length \in Nat /\ Len(extents) \in Nat
    BY BlocksFacts
  <1>2. ASSUME NEW j \in 0 .. extents[k].length - 1, j < extents[k].length - 1
        PROVE  Units(<<<<k, j>>, <<k, j + 1>>>>) = {}
    <2>1. Place(<<k, j>>) = extents[k].start + j
          /\ Place(<<k, j + 1>>) = extents[k].start + (j + 1)
      BY DEF Place
    <2>2. Place(<<k, j + 1>>) - Place(<<k, j>>) - 1 = 0
      BY <1>1, <2>1
    <2>3. Gap(0) = 0
      BY SeverityAssumption DEF Gap
    <2>4. Units(<<<<k, j>>, <<k, j + 1>>>>) = {<<<<k, j>>, <<k, j + 1>>>>} \X (0 .. 0 - 1)
      BY <2>2, <2>3 DEF Units
    <2>5. 0 .. 0 - 1 = {}
      OBVIOUS
    <2>. QED BY <2>4, <2>5
  <1>3. ASSUME k < Len(extents)
        PROVE  /\ Gap(Delta(k)) \in Nat
               /\ Units(<<<<k, extents[k].length - 1>>, <<k + 1, 0>>>>)
                    = {<<<<k, extents[k].length - 1>>, <<k + 1, 0>>>>}
                        \X (0 .. Gap(Delta(k)) - 1)
    <2> DEFINE b == <<k, extents[k].length - 1>>
               c == <<k + 1, 0>>
    <2>1. k + 1 \in 1 .. Len(extents) /\ extents[k + 1].start \in Nat
      BY <1>1, <1>3, BlocksFacts
    <2>2. Place(b) = extents[k].start + (extents[k].length - 1)
          /\ Place(c) = extents[k + 1].start + 0
      BY DEF Place
    <2>3. Place(c) - Place(b) - 1 = Delta(k) /\ Delta(k) \in Int
      BY <1>1, <2>1, <2>2 DEF Delta
    <2>4. Gap(Delta(k)) \in Nat
      BY <2>3, GapAtMostPenalty, SeverityAssumption
    <2> HIDE DEF b, c
    <2>5. Units(<<b, c>>) = {<<b, c>>} \X (0 .. Gap(Delta(k)) - 1)
      BY <2>3 DEF Units
    <2>. QED BY <2>4, <2>5 DEF b, c
  <1>. QED BY <1>2, <1>3

\* The first m blocks of an extent add the time of its gap if they are all.
LEMMA UnitsGrow ==
  ASSUME extents \in Files, NEW k \in 1 .. Len(extents),
         NEW m \in 0 .. extents[k].length, m # 0,
         NEW o \in Nat, NEW u \in Nat, o + u = Start(k)
  PROVE  Cardinality(UnitsFrom(o, u + m)) =
           Cardinality(UnitsFrom(o, u))
             + (IF m = extents[k].length /\ k < Len(extents) THEN Gap(Delta(k)) ELSE 0)
  <1> DEFINE T == {k} \X (0 .. m - 1)
             l == extents[k].length
             last == <<<<k, l - 1>>, <<k + 1, 0>>>>
             W == IF m = l /\ k < Len(extents) THEN Units(last) ELSE {}
             A == UnitsFrom(o, u)
             B == UnitsFrom(o, u + m)
  <1>1. l \in Nat \ {0} /\ m \in Nat /\ m =< l /\ Len(extents) \in Nat /\ k \in Nat
    BY BlocksFacts
  <1>2. /\ BlocksFrom(o, u + m) = BlocksFrom(o, u) \cup T
        /\ BlocksFrom(o, u) \cap T = {}
    <2> HIDE DEF l, last, W, A, B
    <2>1. /\ BlocksFrom(o, u + m) = BlocksFrom(o, u) \cup FirstOf(k, m)
          /\ BlocksFrom(o, u) \cap FirstOf(k, m) = {}
      BY BlocksGrow
    <2>. QED BY <2>1 DEF FirstOf
  <1>3. \A pair, x : x \in Units(pair) => x[1] = pair
    BY DEF Units
  <1>4. ASSUME NEW b \in T, NEW c \in Blocks, Offset(c) = Offset(b) + 1
        PROVE  Units(<<b, c>>) \subseteq W
    <2>1. PICK j \in 0 .. m - 1 : b = <<k, j>>
      OBVIOUS
    <2>2. j \in 0 .. l - 1
      BY <1>1
    <2>3. \/ j < l - 1 /\ c = <<k, j + 1>>
          \/ j = l - 1 /\ k < Len(extents) /\ c = <<k + 1, 0>>
      BY <1>4, <2>1, <2>2, Successor
    <2>4. CASE j < l - 1 /\ c = <<k, j + 1>>
      BY <2>1, <2>2, <2>4, UnitsOfPassages
    <2>5. CASE j = l - 1 /\ k < Len(extents) /\ c = <<k + 1, 0>>
      <3>1. m = l
        BY <1>1, <2>5
      <3>. QED BY <2>1, <2>5, <3>1
    <2>. QED BY <2>3, <2>4, <2>5
  <1>5. W \subseteq B
    <2>1. SUFFICES ASSUME m = l, k < Len(extents) PROVE last \in PassagesFrom(o, u + m)
      BY DEF UnitsFrom
    <2>2. <<k, l - 1>> \in T /\ l - 1 \in 0 .. l - 1
      BY <1>1, <2>1
    <2>3. <<k + 1, 0>> \in Blocks
      <3>1. k + 1 \in 1 .. Len(extents)
        BY <1>1, <2>1
      <3>2. 0 \in 0 .. extents[k + 1].length - 1
        BY <3>1, BlocksFacts
      <3>. QED BY <3>1, <3>2, BlocksFacts
    <2>4. Offset(<<k + 1, 0>>) = Offset(<<k, l - 1>>) + 1
      BY <2>1, <2>2, <2>3, Successor
    <2> HIDE DEF T, l
    <2>. QED BY <1>2, <2>2, <2>3, <2>4 DEF PassagesFrom
  <1>6. PassagesFrom(o, u + m) =
          PassagesFrom(o, u) \cup {p \in T \X Blocks : Offset(p[2]) = Offset(p[1]) + 1}
    <2> HIDE DEF T
    <2>. QED BY <1>2 DEF PassagesFrom
  <1>7. B = A \cup W
    <2>1. A \subseteq B
      BY <1>6 DEF UnitsFrom
    <2>2. ASSUME NEW x \in B PROVE x \in A \/ x \in W
      <3>1. PICK p \in PassagesFrom(o, u + m) : x \in Units(p)
        BY DEF UnitsFrom
      <3>2. CASE p \in PassagesFrom(o, u)
        BY <3>1, <3>2 DEF UnitsFrom
      <3>3. CASE p \in {q \in T \X Blocks : Offset(q[2]) = Offset(q[1]) + 1}
        <4>1. p = <<p[1], p[2]>> /\ p[1] \in T /\ p[2] \in Blocks /\ Offset(p[2]) = Offset(p[1]) + 1
          BY <3>3
        <4>2. Units(<<p[1], p[2]>>) \subseteq W
          BY <1>4, <4>1
        <4>. QED BY <3>1, <4>1, <4>2
      <3>. QED BY <1>6, <3>2, <3>3
    <2> HIDE DEF A, B, W
    <2>. QED BY <1>5, <2>1, <2>2
  <1>8. A \cap W = {}
    <2>1. SUFFICES ASSUME NEW x \in A, m = l, x \in Units(last) PROVE FALSE
      OBVIOUS
    <2>2. PICK p \in PassagesFrom(o, u) : x \in Units(p)
      BY <2>1 DEF UnitsFrom
    <2>3. p = last
      BY <1>3, <2>1, <2>2
    <2>4. p[1] \in BlocksFrom(o, u)
      BY DEF PassagesFrom
    <2>5. <<k, l - 1>> \in T
      BY <1>1, <2>1
    <2>. QED BY <1>2, <2>3, <2>4, <2>5
  <1>9. IsFiniteSet(W) /\ Cardinality(W)
          = IF m = l /\ k < Len(extents) THEN Gap(Delta(k)) ELSE 0
    <2>1. CASE m = l /\ k < Len(extents)
      <3>1. Units(last) = {last} \X (0 .. Gap(Delta(k)) - 1) /\ Gap(Delta(k)) \in Nat
        BY <2>1, UnitsOfPassages
      <3> DEFINE g == Gap(Delta(k))
      <3>2. g \in Nat
        BY <3>1
      <3> HIDE DEF g, last
      <3>3. IsFiniteSet({last} \X (0 .. g - 1)) /\ Cardinality({last} \X (0 .. g - 1)) = g
        BY <3>2, Column
      <3>. QED BY <2>1, <3>1, <3>3 DEF g
    <2>2. CASE ~(m = l /\ k < Len(extents))
      BY <2>2, FS_EmptySet
    <2>. QED BY <2>1, <2>2
  <1>10. IsFiniteSet(A)
    BY UnitsFinite
  <1> HIDE DEF A, B, W
  <1>11. Cardinality(B) = Cardinality(A) + Cardinality(W)
    BY <1>7, <1>8, <1>9, <1>10, Disjoint
  <1>. QED BY <1>9, <1>11 DEF A, B, W

\* No block is left once the last extent is in the window.
LEMMA NothingLeft ==
  ASSUME extents \in Files, NEW o \in Nat, NEW u \in Nat, NEW w \in Nat, u =< w,
         o + u = Start(Len(extents) + 1)
  PROVE  BlocksFrom(o, w) = BlocksFrom(o, u) /\ UnitsFrom(o, w) = UnitsFrom(o, u)
  <1>1. ASSUME NEW b \in Blocks PROVE Offset(b) \in Nat /\ Offset(b) < o + u
    <2> DEFINE k == b[1]
               n == Len(extents)
    <2>1. k \in 1 .. n /\ n \in Nat /\ b[2] \in Nat /\ b[2] < extents[k].length
          /\ extents[k].length \in Nat
      BY BlocksFacts
    <2>2. Start(k + 1) = Start(k) + extents[k].length
      BY <2>1, StartGrows
    <2>3. Start(k + 1) =< Start(n + 1)
      <3>1. k + 1 \in Nat /\ n + 1 \in Nat /\ k + 1 =< n + 1
        BY <2>1
      <3>. QED BY <3>1, StartMonotone
    <2>4. Offset(b) = Start(k) + b[2] /\ Start(k) \in Nat
      BY <2>1, OffsetIs, StartMonotone
    <2> DEFINE s == Start(k)
               e == Start(n + 1)
               l == extents[k].length
               j == b[2]
    <2>5. /\ s \in Nat /\ l \in Nat /\ j \in Nat /\ j < l /\ s + l =< e /\ e \in Nat
          /\ Offset(b) = s + j /\ o + u = e
      BY <2>1, <2>2, <2>3, <2>4
    <2> HIDE DEF s, e, l, j
    <2>. QED BY <2>5
  <1>2. \A b \in Blocks : Offset(b) \in o .. o + w - 1 <=> Offset(b) \in o .. o + u - 1
    BY <1>1
  <1>3. BlocksFrom(o, w) = BlocksFrom(o, u)
    BY <1>2 DEF BlocksFrom
  <1>4. PassagesFrom(o, w) = PassagesFrom(o, u)
    BY <1>3 DEF PassagesFrom
  <1>. QED BY <1>3, <1>4 DEF UnitsFrom

\* Before anything is read nothing is in the window.
LEMMA NothingYet ==
  ASSUME NEW o \in Nat
  PROVE  Cardinality(BlocksFrom(o, 0)) = 0 /\ Cardinality(UnitsFrom(o, 0)) = 0
  <1>1. o .. o + 0 - 1 = {}
    OBVIOUS
  <1>2. BlocksFrom(o, 0) = {}
    BY <1>1 DEF BlocksFrom
  <1>3. PassagesFrom(o, 0) = {}
    BY <1>2 DEF PassagesFrom
  <1>4. UnitsFrom(o, 0) = {}
    BY <1>3 DEF UnitsFrom
  <1>. QED BY <1>2, <1>4, FS_EmptySet

-----------------------------------------------------------------------------
(* The order of severities. *)

Severities == [time : Nat, raw : Nat \ {0}]

\* One of two severities is the larger one.
LEMMA AtLeastTotal ==
  ASSUME NEW a \in Severities, NEW b \in Severities
  PROVE  AtLeast(a, a) /\ (AtLeast(a, b) \/ AtLeast(b, a))
  <1>1. a.time * a.raw \in Nat /\ a.time * b.raw \in Nat /\ b.time * a.raw \in Nat
    BY DEF Severities
  <1>. QED BY <1>1 DEF AtLeast

\* What is multiplied by a positive number keeps its order.
LEMMA Cancel ==
  ASSUME NEW p \in Nat \ {0}, NEW m \in Nat, NEW n \in Nat, p * n =< p * m
  PROVE  n =< m
  <1>1. SUFFICES ASSUME m + 1 =< n PROVE FALSE
    OBVIOUS
  <1>2. p * (m + 1) =< p * n
    BY <1>1, MoreMoves
  <1>3. p * (m + 1) = p * m + p /\ p * m \in Nat
    BY OneMore
  <1>4. p * n \in Nat
    OBVIOUS
  <1>. QED BY <1>2, <1>3, <1>4

LEMMA AtLeastTransitive ==
  ASSUME NEW a \in Severities, NEW b \in Severities, NEW c \in Severities,
         AtLeast(a, b), AtLeast(b, c)
  PROVE  AtLeast(a, c)
  <1> DEFINE at == a.time  ar == a.raw
             bt == b.time  br == b.raw
             ct == c.time  cr == c.raw
  <1>1. /\ at \in Nat /\ bt \in Nat /\ ct \in Nat
        /\ ar \in Nat \ {0} /\ br \in Nat \ {0} /\ cr \in Nat \ {0}
        /\ bt * ar =< at * br /\ ct * br =< bt * cr
    BY DEF Severities, AtLeast
  <1> HIDE DEF at, ar, bt, br, ct, cr
  <1>2. /\ bt * ar \in Nat /\ at * br \in Nat /\ ct * br \in Nat /\ bt * cr \in Nat
        /\ at * cr \in Nat /\ ct * ar \in Nat /\ ar \in Nat /\ cr \in Nat
    BY <1>1
  <1>3. cr * (bt * ar) =< cr * (at * br)
    BY <1>1, <1>2, MoreMoves
  <1>4. ar * (ct * br) =< ar * (bt * cr)
    BY <1>1, <1>2, MoreMoves
  <1>5. /\ ar * (ct * br) = br * (ct * ar)
        /\ ar * (bt * cr) = cr * (bt * ar)
        /\ cr * (at * br) = br * (at * cr)
    BY <1>1
  <1>6. br * (ct * ar) =< br * (at * cr)
    <2>1. br * (ct * ar) =< cr * (bt * ar)
      BY <1>4, <1>5
    <2>2. cr * (bt * ar) =< br * (at * cr)
      BY <1>3, <1>5
    <2>3. br * (ct * ar) \in Nat /\ cr * (bt * ar) \in Nat /\ br * (at * cr) \in Nat
      BY <1>1, <1>2
    <2>. QED BY <2>1, <2>2, <2>3
  <1>7. ct * ar =< at * cr
    BY <1>1, <1>2, <1>6, Cancel
  <1>. QED BY <1>2, <1>7 DEF AtLeast, at, ar, ct, cr

\* The severity of a window is one.
LEMMA SeverityTyped ==
  ASSUME extents \in Files, NEW o
  PROVE  SeverityAt(o) \in Severities
  <1>1. BlocksFrom(o, Window) \subseteq Blocks
    BY DEF BlocksFrom
  <1>2. IsFiniteSet(BlocksFrom(o, Window))
    BY <1>1, BlocksFacts, FS_Subset
  <1>3. Cardinality(BlocksFrom(o, Window)) \in Nat
    BY <1>2, FS_CardinalityType
  <1>4. Cardinality(UnitsFrom(o, Window)) \in Nat
    BY UnitsFinite, FS_CardinalityType
  <1>. QED BY <1>3, <1>4, SeverityAssumption DEF SeverityAt, Severities

\* The larger of the worst so far and one more is the worst of all.
LEMMA WorstOfOneMore ==
  ASSUME extents \in Files, NEW s \in Severities, NEW offsets, NEW o,
         IsWorst(s, offsets), NEW w,
         w = IF AtLeast(SeverityAt(o), s) THEN SeverityAt(o) ELSE s
  PROVE  IsWorst(w, offsets \cup {o})
  <1> DEFINE all == {SeverityAt(p) : p \in offsets} \cup {[time |-> 1, raw |-> 1]}
             more == {SeverityAt(p) : p \in offsets \cup {o}} \cup {[time |-> 1, raw |-> 1]}
             x == SeverityAt(o)
  <1>1. \A a \in all : a \in Severities
    BY SeverityTyped DEF Severities
  <1>2. x \in Severities
    BY SeverityTyped
  <1>3. more = all \cup {x}
    OBVIOUS
  <1>4. (\A a \in all : AtLeast(s, a)) /\ (\E a \in all : AtLeast(a, s))
    BY DEF IsWorst
  <1> HIDE DEF all, more, x
  <1>5. CASE AtLeast(x, s)
    <2>1. w = x
      BY <1>5 DEF x
    <2>2. \A a \in all : AtLeast(x, a)
      BY <1>1, <1>2, <1>4, <1>5, AtLeastTransitive
    <2>3. AtLeast(x, x)
      BY <1>2, AtLeastTotal
    <2>4. (\A a \in more : AtLeast(w, a)) /\ (\E a \in more : AtLeast(a, w))
      BY <1>3, <2>1, <2>2, <2>3
    <2>. QED BY <2>4 DEF IsWorst, more
  <1>6. CASE ~AtLeast(x, s)
    <2>1. w = s
      BY <1>6 DEF x
    <2>2. AtLeast(s, x)
      BY <1>2, <1>6, AtLeastTotal
    <2>3. (\A a \in more : AtLeast(w, a)) /\ (\E a \in more : AtLeast(a, w))
      BY <1>3, <1>4, <2>1, <2>2
    <2>. QED BY <2>3 DEF IsWorst, more
  <1>. QED BY <1>5, <1>6

-----------------------------------------------------------------------------
(* The two loops. *)

\* What has been read of the window and the time it took are those of the
\* blocks from its first extent on.  As long as it is not full it ends with the
\* extents that have been read.
WindowSoFar ==
  k1 =< Len(extents) =>
    LET used == Window - span
    IN  /\ span > 0 => Start(k1) + used = Start(k2)
        /\ Cardinality(BlocksFrom(Start(k1), used)) = used
        /\ read_time = Penalty + used + Cardinality(UnitsFrom(Start(k1), used))

\* The severity so far is the worst of the windows that are closed.
WorstSoFar == IsWorst(overall, {Start(k) : k \in 1 .. k1 - 1})

WorstInv == IInv /\ WindowSoFar /\ WorstSoFar

\* No step changes the file, and what is said of its blocks stays true.
LEMMA Unmoved ==
  ASSUME extents' = extents
  PROVE  /\ \A k : Start(k)' = Start(k)
         /\ \A o, n : BlocksFrom(o, n)' = BlocksFrom(o, n)
         /\ \A o, n : UnitsFrom(o, n)' = UnitsFrom(o, n)
         /\ \A s, offsets : IsWorst(s, offsets)' <=> IsWorst(s, offsets)
  <1>1. Blocks' = Blocks
    BY DEF Blocks
  <1>2. \A k : Start(k)' = Start(k)
    BY <1>1 DEF Start
  <1>3. \A b : Offset(b)' = Offset(b)
    BY <1>1 DEF Offset, Before
  <1>4. \A b : Place(b)' = Place(b)
    BY DEF Place
  <1>5. \A o, n : BlocksFrom(o, n)' = BlocksFrom(o, n)
    BY <1>1, <1>3 DEF BlocksFrom
  <1>6. \A o, n : PassagesFrom(o, n)' = PassagesFrom(o, n)
    BY <1>1, <1>3, <1>5 DEF PassagesFrom
  <1>7. \A p : Units(p)' = Units(p)
    BY <1>4 DEF Units
  <1>8. \A o, n : UnitsFrom(o, n)' = UnitsFrom(o, n)
    BY <1>6, <1>7 DEF UnitsFrom
  <1>9. \A o : SeverityAt(o)' = SeverityAt(o)
    BY <1>5, <1>8 DEF SeverityAt
  <1>10. \A s, offsets : IsWorst(s, offsets)' <=> IsWorst(s, offsets)
    BY <1>9 DEF IsWorst
  <1>. QED BY <1>2, <1>5, <1>8, <1>10

LEMMA WorstInit ==
  ASSUME Init
  PROVE  WorstInv
  <1>1. IInv
    BY InitInvariant
  <1>2. extents \in Files /\ k1 = 1 /\ k2 = 1 /\ span = Window /\ read_time = Penalty
        /\ overall = [time |-> 1, raw |-> 1]
    BY DEF Init
  <1>3. Start(1) \in Nat
    BY <1>2, StartMonotone
  <1>4. Window - Window = 0 /\ Start(1) + 0 = Start(1) /\ Penalty + 0 + 0 = Penalty
    BY <1>3, SeverityAssumption
  <1>5. WindowSoFar
    BY <1>2, <1>3, <1>4, NothingYet DEF WindowSoFar
  <1>6. WorstSoFar
    <2>1. {Start(k) : k \in 1 .. k1 - 1} = {}
      BY <1>2
    <2>2. AtLeast([time |-> 1, raw |-> 1], [time |-> 1, raw |-> 1])
      BY DEF AtLeast
    <2>3. IsWorst([time |-> 1, raw |-> 1], {})
      BY <2>2 DEF IsWorst
    <2>. QED BY <1>2, <2>1, <2>3 DEF WorstSoFar
  <1>. QED BY <1>1, <1>5, <1>6 DEF WorstInv

\* A round of the inner loop takes as many blocks as are left in the extent or
\* in the window, and the time to go on from the last one of the extent.
LEMMA WorstReadExtent ==
  ASSUME WorstInv, ReadExtent
  PROVE  WorstInv'
  <1> DEFINE n == Len(extents)
             o == Start(k1)
             used == Window - span
             l == extents[k2].length
             m == IF l =< span THEN l ELSE span
             gap == IF m = l /\ k2 < n THEN Gap(Delta(k2)) ELSE 0
  <1>1. IInv'
    BY ReadExtentInvariant DEF WorstInv
  <1>2. TypeOK /\ Reading /\ k2' = k2 + 1 /\ k1' = k1 /\ extents' = extents
        /\ overall' = overall
    BY DEF WorstInv, IInv, ReadExtent
  <1>3. /\ extents \in Files /\ n \in Nat /\ k1 \in 1 .. n /\ k2 \in 1 .. n
        /\ k1 \in Nat /\ k2 \in Nat
        /\ span \in Nat \ {0} /\ used \in Nat /\ span =< Window /\ l \in Nat \ {0}
    <2>1. extents \in Files /\ k1 =< n /\ k2 =< n /\ span > 0
      BY <1>2 DEF TypeOK, Reading
    <2>2. n \in Nat
      BY <2>1, BlocksFacts
    <2>3. k1 \in 1 .. n /\ k2 \in 1 .. n /\ k1 \in Nat /\ k2 \in Nat
      BY <1>2, <2>1, <2>2 DEF TypeOK
    <2>4. l \in Nat \ {0}
      BY <2>1, <2>3, BlocksFacts
    <2>5. span \in Nat \ {0} /\ used \in Nat /\ span =< Window
      BY <1>2, <2>1, SeverityAssumption DEF TypeOK
    <2>. QED BY <2>1, <2>2, <2>3, <2>4, <2>5
  <1>4. /\ o + used = Start(k2) /\ o \in Nat
        /\ Cardinality(BlocksFrom(o, used)) = used
        /\ read_time = Penalty + used + Cardinality(UnitsFrom(o, used))
    <2>1. o \in Nat
      BY <1>3, StartMonotone
    <2>2. k1 =< n /\ span > 0
      BY <1>3
    <2>. QED BY <2>1, <2>2 DEF WorstInv, WindowSoFar
  <1>5. m \in 0 .. l /\ m \in Nat \ {0} /\ m =< span /\ m =< l
    BY <1>3
  <1>6. span' = span - m /\ read_time' = read_time + m + gap
    <2>1. CASE WholeExtent
      BY <1>3, <2>1 DEF WholeExtent
    <2>2. CASE PartOfExtent
      <3>1. m = span /\ m # l /\ gap = 0 /\ span' = 0 /\ read_time' = read_time + span
        BY <1>3, <2>2 DEF PartOfExtent
      <3>2. read_time \in Nat
        BY <1>2 DEF TypeOK
      <3> HIDE DEF m, gap
      <3>. QED BY <1>3, <3>1, <3>2
    <2>. QED BY <2>1, <2>2 DEF ReadExtent
  <1>7. Cardinality(BlocksFrom(o, used + m)) = used + m
    <2> HIDE DEF m, used, o
    <2>1. Cardinality(BlocksFrom(o, used + m)) = Cardinality(BlocksFrom(o, used)) + m
      BY <1>3, <1>4, <1>5, BlocksGrow
    <2>. QED BY <1>4, <2>1
  <1>8. Cardinality(UnitsFrom(o, used + m)) = Cardinality(UnitsFrom(o, used)) + gap
    <2> HIDE DEF m, used, o
    <2>. QED BY <1>3, <1>4, <1>5, UnitsGrow
  <1>9. Window - span' = used + m
    <2> HIDE DEF m
    <2>. QED BY <1>3, <1>5, <1>6, SeverityAssumption
  <1>10. read_time' = Penalty + (used + m) + Cardinality(UnitsFrom(o, used + m))
    <2> DEFINE c == Cardinality(UnitsFrom(o, used))
    <2>1. c \in Nat
      BY <1>3, UnitsFinite, FS_CardinalityType
    <2>2. gap \in Nat
      <3>1. k2 < n => Gap(Delta(k2)) \in Nat
        BY <1>3, UnitsOfPassages
      <3>. QED BY <3>1
    <2>3. read_time' = Penalty + used + c + m + gap
      BY <1>4, <1>6
    <2> HIDE DEF m, used, gap, c
    <2>4. Penalty + used + c + m + gap = Penalty + (used + m) + (c + gap)
      BY <1>3, <1>5, <2>1, <2>2, SeverityAssumption
    <2>. QED BY <1>8, <2>3, <2>4 DEF c
  <1>11. span' > 0 => o + (used + m) = Start(k2 + 1)
    <2>1. SUFFICES ASSUME span' > 0 PROVE o + (used + m) = Start(k2 + 1)
      OBVIOUS
    <2>2. m = l
      BY <1>3, <1>6, <2>1
    <2>3. Start(k2 + 1) = Start(k2) + l
      BY <1>3, StartGrows
    <2> HIDE DEF o, used, l, m
    <2>. QED BY <1>3, <1>4, <1>5, <2>2, <2>3
  <1>12. /\ Start(k1)' = o /\ Start(k2)' = Start(k2 + 1)
         /\ \A p, w : BlocksFrom(p, w)' = BlocksFrom(p, w) /\ UnitsFrom(p, w)' = UnitsFrom(p, w)
    BY <1>2, Unmoved
  <1>13. WindowSoFar'
    <2> HIDE DEF o, used, m
    <2>1. /\ span' > 0 => Start(k1)' + (Window - span') = Start(k2)'
      BY <1>9, <1>11, <1>12
    <2>2. Cardinality(BlocksFrom(Start(k1), Window - span))' = Window - span'
      BY <1>2, <1>7, <1>9, <1>12
    <2>3. read_time' = Penalty + (Window - span')
                         + Cardinality(UnitsFrom(Start(k1), Window - span))'
      BY <1>2, <1>9, <1>10, <1>12
    <2>. QED BY <2>1, <2>2, <2>3 DEF WindowSoFar
  <1>14. WorstSoFar'
    <2>1. {Start(k) : k \in 1 .. k1 - 1}' = {Start(k) : k \in 1 .. k1 - 1}
      BY <1>2, Unmoved
    <2>. QED BY <1>2, <2>1, Unmoved DEF WorstInv, WorstSoFar
  <1>. QED BY <1>1, <1>13, <1>14 DEF WorstInv

\* A window that is full, or that no extent is left for, has the severity of
\* its place, and the next one starts empty.
LEMMA WorstCloseWindow ==
  ASSUME WorstInv, CloseWindow
  PROVE  WorstInv'
  <1> DEFINE n == Len(extents)
             o == Start(k1)
             used == Window - span
  <1>1. IInv'
    BY CloseWindowInvariant DEF WorstInv
  <1>2. /\ TypeOK /\ k1 =< n /\ ~Reading /\ k1' = k1 + 1 /\ k2' = k1 + 1
        /\ span' = Window /\ read_time' = Penalty /\ extents' = extents
        /\ overall' = IF AtLeast(Local, overall) THEN Local ELSE overall
    BY DEF WorstInv, IInv, CloseWindow
  <1>3. /\ extents \in Files /\ n \in Nat /\ k1 \in 1 .. n /\ k1 \in Nat
        /\ k2 \in k1 .. n + 1 /\ span \in Nat /\ used \in Nat /\ used =< Window
        /\ o \in Nat
    <2>1. extents \in Files
      BY <1>2 DEF TypeOK
    <2>2. n \in Nat
      BY <2>1, BlocksFacts
    <2>3. k1 \in 1 .. n /\ k1 \in Nat /\ k2 \in k1 .. n + 1
      BY <1>2, <2>2 DEF TypeOK
    <2>4. span \in Nat /\ used \in Nat /\ used =< Window
      BY <1>2, SeverityAssumption DEF TypeOK
    <2>5. o \in Nat
      BY <2>1, <2>3, StartMonotone
    <2>. QED BY <2>1, <2>2, <2>3, <2>4, <2>5
  <1>4. /\ span > 0 => o + used = Start(k2)
        /\ Cardinality(BlocksFrom(o, used)) = used
        /\ read_time = Penalty + used + Cardinality(UnitsFrom(o, used))
    BY <1>2 DEF WorstInv, WindowSoFar
  <1>5. BlocksFrom(o, Window) = BlocksFrom(o, used) /\ UnitsFrom(o, Window) = UnitsFrom(o, used)
    <2>1. CASE span > 0
      <3>1. k2 = n + 1
        BY <1>2, <1>3, <2>1 DEF Reading
      <3>2. o + used = Start(n + 1)
        BY <1>4, <2>1, <3>1
      <3> HIDE DEF o, used
      <3>. QED BY <1>3, <3>2, NothingLeft, SeverityAssumption
    <2>2. CASE span = 0
      <3>1. used = Window
        BY <2>2, SeverityAssumption
      <3>. QED BY <3>1
    <2>. QED BY <1>3, <2>1, <2>2
  <1>6. Local = SeverityAt(o)
    <2> DEFINE c == Cardinality(UnitsFrom(o, used))
    <2>1. c \in Nat
      BY <1>3, UnitsFinite, FS_CardinalityType
    <2>2. SeverityAt(o) = [time |-> Penalty + used + c, raw |-> Penalty + used]
      BY <1>4, <1>5 DEF SeverityAt
    <2>3. Local = [time |-> Penalty + used + c, raw |-> used + Penalty]
      BY <1>4 DEF Local
    <2>4. used + Penalty = Penalty + used
      BY <1>3, SeverityAssumption
    <2>. QED BY <2>2, <2>3, <2>4
  <1>7. WorstSoFar'
    <2> DEFINE before == {Start(k) : k \in 1 .. k1 - 1}
    <2>1. {Start(k) : k \in 1 .. k1 - 1}' = before \cup {o}
      <3>1. 1 .. k1' - 1 = (1 .. k1 - 1) \cup {k1}
        BY <1>2, <1>3
      <3>2. {Start(k) : k \in 1 .. k1' - 1} = before \cup {o}
        BY <3>1
      <3>. QED BY <1>2, <3>2, Unmoved
    <2>2. IsWorst(overall, before) /\ overall \in Severities
      BY <1>2 DEF WorstInv, WorstSoFar, TypeOK, Severities
    <2> HIDE DEF before, o
    <2>3. IsWorst(overall', before \cup {o})
      BY <1>2, <1>3, <1>6, <2>2, WorstOfOneMore
    <2>. QED BY <1>2, <2>1, <2>3, Unmoved DEF WorstSoFar
  <1>8. WindowSoFar'
    <2>1. k1 + 1 \in Nat /\ Start(k1 + 1) \in Nat
      BY <1>3, StartMonotone
    <2>2. Window - Window = 0 /\ Start(k1 + 1) + 0 = Start(k1 + 1) /\ Penalty + 0 + 0 = Penalty
      BY <2>1, SeverityAssumption
    <2>3. /\ Cardinality(BlocksFrom(Start(k1 + 1), 0)) = 0
          /\ Cardinality(UnitsFrom(Start(k1 + 1), 0)) = 0
      BY <2>1, NothingYet
    <2>4. Start(k1)' = Start(k1 + 1) /\ Start(k2)' = Start(k1 + 1) /\ Window - span' = 0
      BY <1>2, <2>2, Unmoved
    <2>5. /\ Cardinality(BlocksFrom(Start(k1), Window - span))' = 0
          /\ Cardinality(UnitsFrom(Start(k1), Window - span))' = 0
      BY <1>2, <2>3, <2>4, Unmoved
    <2>. QED BY <1>2, <2>2, <2>4, <2>5 DEF WindowSoFar
  <1>. QED BY <1>1, <1>7, <1>8 DEF WorstInv

LEMMA WorstInvariant == Spec => []WorstInv
  <1>1. WorstInv /\ [Next]_vars => WorstInv'
    <2>. SUFFICES ASSUME WorstInv, [Next]_vars PROVE WorstInv'
      OBVIOUS
    <2>1. CASE ReadExtent
      BY <2>1, WorstReadExtent
    <2>2. CASE CloseWindow
      BY <2>2, WorstCloseWindow
    <2>3. CASE UNCHANGED vars
      <3>1. extents' = extents /\ k1' = k1 /\ k2' = k2 /\ span' = span
            /\ read_time' = read_time /\ overall' = overall
        BY <2>3 DEF vars
      <3>2. IInv'
        BY <3>1 DEF WorstInv, IInv, TypeOK, TimeBounded, Moves, AtMostItsExtents
      <3>3. WindowSoFar'
        BY <3>1, Unmoved DEF WorstInv, WindowSoFar
      <3>4. WorstSoFar'
        BY <3>1, Unmoved DEF WorstInv, WorstSoFar
      <3>. QED BY <3>2, <3>3, <3>4 DEF WorstInv
    <2>. QED BY <2>1, <2>2, <2>3 DEF Next
  <1>. QED BY <1>1, WorstInit, PTL DEF Spec

\* clusters.cc:279-307: whatever the extents are, out of order, touching, as
\* long as the window or longer, and whatever the window, the two loops compute
\* the worst of the windows that start with an extent, as one would from the
\* places of the blocks alone.
THEOREM ComputesTheWorst == Spec => []WorstAtExtents
  <1>1. WorstInv => WorstAtExtents
    <2>. SUFFICES ASSUME WorstInv, Done PROVE IsWorst(overall, {Offset(<<k, 0>>) : k \in DOMAIN extents})
      BY DEF WorstAtExtents
    <2>1. /\ extents \in Files /\ Len(extents) \in Nat /\ DOMAIN extents = 1 .. Len(extents)
          /\ k1 = Len(extents) + 1
      <3>1. extents \in Files
        BY DEF WorstInv, IInv, TypeOK
      <3>2. Len(extents) \in Nat /\ DOMAIN extents = 1 .. Len(extents)
        BY <3>1, BlocksFacts
      <3>3. k1 \in 1 .. Len(extents) + 1 /\ k1 > Len(extents)
        BY DEF WorstInv, IInv, TypeOK, Done
      <3>. QED BY <3>1, <3>2, <3>3
    <2>2. \A k \in 1 .. Len(extents) : Offset(<<k, 0>>) = Start(k)
      <3>1. SUFFICES ASSUME NEW k \in 1 .. Len(extents) PROVE Offset(<<k, 0>>) = Start(k)
        OBVIOUS
      <3>2. 0 \in 0 .. extents[k].length - 1
        BY <2>1, BlocksFacts
      <3>3. <<k, 0>> \in Blocks
        BY <2>1, <3>2, BlocksFacts
      <3>4. Offset(<<k, 0>>) = Start(k) + 0 /\ Start(k) \in Nat
        <4>1. k \in Nat
          OBVIOUS
        <4>2. <<k, 0>>[1] = k /\ <<k, 0>>[2] = 0
          OBVIOUS
        <4>. QED BY <2>1, <3>3, <4>1, <4>2, OffsetIs, StartMonotone
      <3>. QED BY <3>4
    <2>3. 1 .. k1 - 1 = 1 .. Len(extents)
      BY <2>1
    <2>4. {Start(k) : k \in 1 .. k1 - 1} = {Offset(<<k, 0>>) : k \in DOMAIN extents}
      BY <2>1, <2>2, <2>3
    <2>. QED BY <2>4 DEF WorstInv, WorstSoFar
  <1>. QED BY <1>1, WorstInvariant, PTL
=============================================================================
