---------------------------- MODULE ExtentsProofs ----------------------------
(***************************************************************************)
(* Theorems about Extents, for a buffer of any size, blocks of any size,   *)
(* any files and any changes made to them under the loop.                  *)
(***************************************************************************)
EXTENDS Extents, FiniteSetTheorems, SequenceTheorems, WellFoundedInduction, TLAPS

-----------------------------------------------------------------------------
(* Numbers. *)

\* A set of numbers that is not empty has a least one, which Min is.
LEMMA MinIsLeast ==
  ASSUME NEW T \in SUBSET Nat, T # {}
  PROVE  Min(T) \in T /\ \A y \in T : Min(T) =< y
<1> DEFINE R == OpToRel(<, Nat)
<1>1. IsWellFoundedOn(R, Nat)
  BY NatLessThanWellFounded
<1> HIDE DEF R
<1>2. PICK m \in T : \A y \in T : <<y, m>> \notin R
  BY <1>1, WFMin
<1>3. \A y \in T : ~(y < m)
  BY <1>2 DEF R, OpToRel
<1>4. \A y \in T : m =< y
  BY <1>3
<1> QED
  BY <1>4 DEF Min

LEMMA DivBounds ==
  ASSUME NEW a \in Nat, NEW g \in Nat \ {0}
  PROVE  /\ a \div g \in Nat
         /\ (a \div g) * g \in Nat
         /\ (a \div g) * g =< a
         /\ a < (a \div g + 1) * g
OBVIOUS

LEMMA DivMonotone ==
  ASSUME NEW a \in Nat, NEW b \in Nat, NEW g \in Nat \ {0}, a =< b
  PROVE  a \div g =< b \div g
OBVIOUS

LEMMA DivBelow ==
  ASSUME NEW a \in Nat, NEW c \in Nat, NEW g \in Nat \ {0}, a < (c + 1) * g
  PROVE  a \div g =< c
OBVIOUS

LEMMA DivAbove ==
  ASSUME NEW a \in Nat, NEW c \in Nat, NEW g \in Nat \ {0}, c * g =< a
  PROVE  c =< a \div g
OBVIOUS

LEMMA Distributes ==
  ASSUME NEW a \in Nat, NEW c \in Nat, NEW g \in Nat
  PROVE  (a + c) * g = a * g + c * g /\ (a + c + 1) * g = a * g + (c + 1) * g
OBVIOUS

\* A length that is rounded up on its own reaches no further than the extent,
\* and just as far if the extent starts on a unit.
LEMMA RoundedEnd ==
  ASSUME NEW p \in Nat, NEW n \in Nat, NEW g \in Nat \ {0}
  PROVE  /\ p \div g + n \div g =< (p + n) \div g
         /\ p % g = 0 => p \div g + n \div g = (p + n) \div g
<1> DEFINE a == p \div g
           c == n \div g
<1>1. a \in Nat /\ c \in Nat /\ a * g =< p /\ c * g =< n /\ n < (c + 1) * g
      /\ a * g \in Nat /\ c * g \in Nat
  BY DivBounds
<1>2. p % g = 0 => p = a * g
  OBVIOUS
<1>3. (p + n) \div g \in Nat
  BY DivBounds
<1> HIDE DEF a, c
<1>4. (a + c) * g = a * g + c * g /\ (a + c + 1) * g = a * g + (c + 1) * g
  BY <1>1, Distributes
<1>5. (a + c) * g =< p + n
  BY <1>1, <1>4
<1>6. a + c =< (p + n) \div g
  BY <1>1, <1>5, DivAbove
<1>7. ASSUME p = a * g PROVE (p + n) \div g =< a + c
  <2>1. (c + 1) * g \in Nat
    BY <1>1
  <2>2. p + n < (a + c + 1) * g
    BY <1>1, <1>4, <1>7, <2>1
  <2> QED
    BY <1>1, <2>2, DivBelow
<1> QED
  BY <1>1, <1>2, <1>3, <1>6, <1>7 DEF a, c

\* The units of the numbers from p to q are all from that of p to that of q.
UnitsBetween(p, q, g) == {b \div g : b \in p .. q}

LEMMA UnitsAreBetween ==
  ASSUME NEW p \in Nat, NEW q \in Nat, NEW g \in Nat \ {0}, p =< q
  PROVE  UnitsBetween(p, q, g) = (p \div g) .. (q \div g)
<1>a. ASSUME NEW b \in p .. q PROVE b \div g \in (p \div g) .. (q \div g)
  <2>1. b \in Nat /\ p =< b /\ b =< q
    BY <1>a
  <2> QED
    BY <2>1, DivBounds, DivMonotone
<1>b. SUFFICES ASSUME NEW u \in (p \div g) .. (q \div g)
               PROVE  \E b \in p .. q : b \div g = u
  BY <1>a DEF UnitsBetween
<1>c. u \in Nat /\ p \div g =< u /\ u =< q \div g
  BY DivBounds
<1>1. u * g \in Nat /\ u * g =< (q \div g) * g /\ (q \div g) * g =< q
  <2>1. q \div g \in Nat /\ (q \div g) * g =< q
    BY DivBounds
  <2>2. u * g \in Nat /\ u * g =< (q \div g) * g
    BY <1>c, <2>1
  <2> QED
    BY <2>1, <2>2
<1>2. CASE p =< u * g
  <2>1. (u * g) \div g = u
    BY <1>c
  <2>2. u * g \in p .. q
    BY <1>1, <1>2, DivBounds
  <2> QED
    BY <2>1, <2>2
<1>3. CASE u * g < p
  <2>1. u =< p \div g
    BY <1>c, <1>3, <1>1, DivAbove
  <2>2. p \div g = u
    BY <1>c, <2>1, DivBounds
  <2> QED
    BY <2>2
<1> QED
  BY <1>1, <1>2, <1>3

-----------------------------------------------------------------------------
(* The loop over the buffer. *)

Found == [start : Nat, length : Nat \ {0}]
Units(e) == e.start .. e.start + e.length - 1
ReportedIn(found) == UNION {Units(e) : e \in ToSet(found)}

\* Where the last run of units ends.
Ending(found) == found[Len(found)].start + found[Len(found)].length

MappedAt(x) ==
  /\ x.logical \in Nat
  /\ x.physical \in Nat
  /\ x.length \in Nat \ {0}

\* What the rounding makes of an extent: units it has, and if it starts on a
\* unit all of them.
LEMMA RoundedFacts ==
  ASSUME NEW x, MappedAt(x)
  PROVE  /\ Rounded(x) \in Found
         /\ Units(Rounded(x)) \subseteq UnitsIn(x)
         /\ x.physical % BlockSize = 0 =>
              /\ UnitsIn(x) \subseteq Units(Rounded(x))
              /\ Rounded(x).start + Rounded(x).length
                   = (x.physical + x.length - 1) \div BlockSize + 1
<1> DEFINE p == x.physical
           n == x.length - 1
           s == p \div BlockSize
           l == n \div BlockSize
           e == (p + n) \div BlockSize
<1>1. p \in Nat /\ n \in Nat /\ BlockSize \in Nat \ {0}
  BY ExtentsAssumption DEF MappedAt
<1>2. Rounded(x).start = s /\ Rounded(x).length = l + 1 /\ Rounded(x) = [start |-> s, length |-> l + 1]
  BY DEF Rounded
<1>3. p + n = x.physical + x.length - 1
  BY DEF MappedAt
<1>4. UnitsIn(x) = {b \div BlockSize : b \in p .. p + n}
  BY <1>3 DEF UnitsIn
<1> HIDE DEF p, n
<1>5. s \in Nat /\ l \in Nat /\ e \in Nat /\ s =< e /\ p + n \in Nat /\ p =< p + n
  BY <1>1, DivBounds, DivMonotone
<1>6. s + l =< e /\ (p % BlockSize = 0 => s + l = e)
  BY <1>1, RoundedEnd
<1>7. Units(Rounded(x)) = s .. s + l
  BY <1>2, <1>5 DEF Units
<1>8. UnitsIn(x) = s .. e
  <2>1. UnitsBetween(p, p + n, BlockSize) = s .. e
    BY <1>1, <1>5, UnitsAreBetween
  <2> QED
    BY <1>4, <2>1 DEF UnitsBetween
<1>10. Rounded(x) \in Found
  BY <1>2, <1>5 DEF Found
<1> HIDE DEF s, l, e
<1>11. Units(Rounded(x)) \subseteq UnitsIn(x)
  BY <1>5, <1>6, <1>7, <1>8
<1>12. p % BlockSize = 0 => UnitsIn(x) \subseteq Units(Rounded(x))
  BY <1>6, <1>7, <1>8
<1>13. p % BlockSize = 0 => Rounded(x).start + Rounded(x).length = e + 1
  BY <1>2, <1>5, <1>6
<1> QED
  BY <1>3, <1>10, <1>11, <1>12, <1>13 DEF p, e

\* Whether an extent continues the last run or begins one, its units come in,
\* and the last run ends where the extent does.
LEMMA AddExtentFacts ==
  ASSUME NEW found \in Seq(Found), NEW x, MappedAt(x)
  PROVE  LET more == AddExtent(found, x)
             new == Rounded(x)
         IN  /\ more \in Seq(Found) /\ more # << >>
             /\ ReportedIn(more) = ReportedIn(found) \cup Units(new)
             /\ Ending(more) = new.start + new.length
             /\ Len(more) = IF found # << >> /\ Ending(found) = new.start
                            THEN Len(found) ELSE Len(found) + 1
<1> DEFINE more == AddExtent(found, x)
           new == Rounded(x)
           n == Len(found)
<1>1. new \in Found /\ n \in Nat /\ DOMAIN found = 1 .. n
  BY RoundedFacts
<1>2. new.start \in Nat /\ new.length \in Nat \ {0}
  BY <1>1 DEF Found
<1>3. \A i \in 1 .. n : found[i] \in Found /\ found[i].start \in Nat /\ found[i].length \in Nat \ {0}
  <2>1. \A e \in Found : e.start \in Nat /\ e.length \in Nat \ {0}
    BY DEF Found
  <2> QED
    BY <2>1
<1>4. CASE found # << >> /\ Ending(found) = new.start
  <2> DEFINE last == found[n]
             longer == [last EXCEPT !.length = @ + new.length]
  <2>1. n \in 1 .. n /\ n # 0
    BY <1>4
  <2>2. more = [found EXCEPT ![n] = longer]
    BY <1>4 DEF AddExtent, Ending
  <2>3. longer \in Found /\ longer.start = last.start /\ longer.length = last.length + new.length
    BY <1>2, <1>3, <2>1 DEF Found
  <2> HIDE DEF longer, new, more
  <2>4. more \in Seq(Found) /\ Len(more) = n
    BY <2>1, <2>2, <2>3, ExceptSeq
  <2>5. \A i \in 1 .. n : more[i] = IF i = n THEN longer ELSE found[i]
    BY <2>1, <2>2, <2>3, ExceptSeq
  <2>6. last.start + last.length = new.start /\ last.start \in Nat /\ last.length \in Nat \ {0}
    BY <1>3, <1>4, <2>1 DEF Ending
  <2> HIDE DEF last
  <2>7. Units(longer) = Units(last) \cup Units(new)
    <3>1. \A a \in Nat : \A l, m \in Nat \ {0} :
            a .. a + (l + m) - 1 = (a .. a + l - 1) \cup (a + l .. a + l + m - 1)
      OBVIOUS
    <3> DEFINE a == last.start
               l == last.length
               m == new.length
    <3>2. Units(longer) = a .. a + (l + m) - 1
      BY <2>3 DEF Units
    <3>3. Units(last) = a .. a + l - 1 /\ Units(new) = a + l .. a + l + m - 1
      BY <2>6 DEF Units
    <3>4. a \in Nat /\ l \in Nat \ {0} /\ m \in Nat \ {0}
      BY <1>2, <2>6
    <3> HIDE DEF a, l, m
    <3> QED
      BY <3>1, <3>2, <3>3, <3>4
  <2>8. Ending(more) = new.start + new.length
    <3>1. Ending(more) = longer.start + longer.length
      BY <2>1, <2>4, <2>5 DEF Ending
    <3> QED
      BY <1>2, <2>3, <2>6, <3>1
  <2>9. ReportedIn(more) = ReportedIn(found) \cup Units(new)
    <3>1. ReportedIn(more) = UNION {Units(more[i]) : i \in 1 .. n}
      BY <2>4 DEF ReportedIn, ToSet
    <3>2. ReportedIn(found) = UNION {Units(found[i]) : i \in 1 .. n}
      BY <1>1 DEF ReportedIn, ToSet
    <3>3. Units(more[n]) = Units(found[n]) \cup Units(new)
      BY <2>1, <2>5, <2>7 DEF last
    <3>4. \A i \in 1 .. n : i # n => Units(more[i]) = Units(found[i])
      BY <2>5
    <3> QED
      BY <2>1, <3>1, <3>2, <3>3, <3>4
  <2>10. more # << >>
    BY <2>1, <2>4
  <2> QED
    BY <1>4, <2>4, <2>8, <2>9, <2>10 DEF more, new
<1>5. CASE ~(found # << >> /\ Ending(found) = new.start)
  <2>1. more = Append(found, new)
    BY <1>5 DEF AddExtent, Ending
  <2> HIDE DEF new, more
  <2>2. more \in Seq(Found) /\ Len(more) = n + 1 /\ more # << >>
    BY <1>1, <2>1
  <2>3. more[n + 1] = new /\ \A i \in 1 .. n : more[i] = found[i]
    BY <1>1, <2>1
  <2>4. ReportedIn(more) = ReportedIn(found) \cup Units(new)
    <3>1. ReportedIn(more) = UNION {Units(more[i]) : i \in 1 .. n + 1}
      BY <1>1, <2>2 DEF ReportedIn, ToSet
    <3>2. ReportedIn(found) = UNION {Units(found[i]) : i \in 1 .. n}
      BY <1>1 DEF ReportedIn, ToSet
    <3>3. \A i \in 1 .. n + 1 : i = n + 1 \/ i \in 1 .. n
      BY <1>1
    <3>4. n + 1 \in 1 .. n + 1 /\ \A i \in 1 .. n : i \in 1 .. n + 1
      BY <1>1
    <3> HIDE DEF n
    <3> QED
      BY <2>3, <3>1, <3>2, <3>3, <3>4
  <2>5. Ending(more) = new.start + new.length
    BY <2>2, <2>3 DEF Ending
  <2> QED
    BY <1>5, <2>2, <2>4, <2>5 DEF more, new
<1> QED
  BY <1>4, <1>5

-----------------------------------------------------------------------------
(* The kernel. *)

LEMMA MappedFacts ==
  ASSUME NEW x \in Mapped
  PROVE  MappedAt(x) /\ End(x) \in Nat /\ x.logical < End(x)
<1>1. x.logical \in Nat /\ x.physical \in Nat /\ x.length \in Nat \ {0}
  BY DEF Mapped
<1> QED
  BY <1>1 DEF MappedAt, End

LEMMA FileFacts ==
  ASSUME NEW f \in Files
  PROVE  /\ f.extents \in Seq(Mapped) /\ f.size \in Nat
         /\ Len(f.extents) \in Nat /\ DOMAIN f.extents = 1 .. Len(f.extents)
         /\ \A i \in 1 .. Len(f.extents) : f.extents[i] \in Mapped
         /\ \A i, j \in 1 .. Len(f.extents) :
              i < j => End(f.extents[i]) =< f.extents[j].logical
<1>1. f \in FileState
  BY ExtentsAssumption
<1>2. f.extents \in Seq(Mapped) /\ f.size \in Nat
  BY <1>1 DEF FileState
<1>3. /\ Len(f.extents) \in Nat /\ DOMAIN f.extents = 1 .. Len(f.extents)
      /\ \A i \in 1 .. Len(f.extents) : f.extents[i] \in Mapped
  BY <1>2
<1>4. \A i, j \in DOMAIN f.extents : i < j => End(f.extents[i]) =< f.extents[j].logical
  BY <1>1 DEF FileState
<1> QED
  BY <1>2, <1>3, <1>4

\* The first done extents of the file end at start or before, and the others
\* reach beyond it.
SplitAt(start, done) ==
  /\ done \in 0 .. Len(file.extents)
  /\ \A i \in 1 .. Len(file.extents) : i =< done <=> End(file.extents[i]) =< start

\* The buffer holds extents of the file that follow the first done.
Follows(buffer, done) ==
  /\ done + Len(buffer) =< Len(file.extents)
  /\ \A i \in 1 .. Len(buffer) : buffer[i] = file.extents[done + i]

\* FIEMAP gives the next extents of the file, and nothing only at its end.
LEMMA FiemapFacts ==
  ASSUME file \in Files, NEW start \in Nat
  PROVE  /\ Fiemap(start) \in Seq(Mapped) /\ Len(Fiemap(start)) =< MaxCount
         /\ \E done \in 0 .. Len(file.extents) :
              /\ SplitAt(start, done)
              /\ Follows(Fiemap(start), done)
              /\ Fiemap(start) = << >> => done = Len(file.extents)
<1> DEFINE ext == file.extents
           n == Len(ext)
           f == Min(Beyond(start))
           m == Min({n, f + MaxCount - 1})
<1>1. /\ ext \in Seq(Mapped) /\ n \in Nat /\ DOMAIN ext = 1 .. n
      /\ \A i \in 1 .. n : ext[i] \in Mapped
  BY FileFacts
<1>2. \A i, j \in 1 .. n : i < j => End(ext[i]) =< ext[j].logical
  BY FileFacts
<1>3. \A i \in 1 .. n : End(ext[i]) \in Nat /\ ext[i].logical < End(ext[i]) /\ ext[i].logical \in Nat
  BY <1>1, MappedFacts DEF MappedAt
<1>4. Beyond(start) = {i \in 1 .. n : End(ext[i]) > start} /\ MaxCount \in Nat \ {0}
  BY <1>1, ExtentsAssumption DEF Beyond
<1>5. CASE Beyond(start) = {}
  <2>1. Fiemap(start) = << >>
    BY <1>5 DEF Fiemap
  <2>2. \A i \in 1 .. n : End(ext[i]) =< start
    BY <1>3, <1>4, <1>5
  <2>3. SplitAt(start, n) /\ Follows(<< >>, n) /\ n \in 0 .. n
    BY <1>1, <2>2 DEF SplitAt, Follows
  <2> QED
    BY <1>4, <2>1, <2>3
<1>6. CASE Beyond(start) # {}
  <2>1. f \in 1 .. n /\ End(ext[f]) > start /\ \A i \in 1 .. n : End(ext[i]) > start => f =< i
    <3>1. Beyond(start) \in SUBSET Nat
      BY <1>1, <1>4
    <3> QED
      BY <1>4, <1>6, <3>1, MinIsLeast
  <2> HIDE DEF f
  <2>2. m \in f .. n /\ m =< f + MaxCount - 1 /\ m \in Nat
    <3>1. {n, f + MaxCount - 1} \in SUBSET Nat
      BY <1>1, <1>4, <2>1
    <3>2. m \in {n, f + MaxCount - 1} /\ m =< n /\ m =< f + MaxCount - 1
      BY <3>1, MinIsLeast
    <3> QED
      BY <1>1, <1>4, <2>1, <3>2
  <2>3. Fiemap(start) = SubSeq(ext, f, m)
    BY <1>6 DEF Fiemap, f
  <2> HIDE DEF m, n, ext
  <2>4. \A i \in f .. m : ext[i] \in Mapped
    BY <1>1, <2>1, <2>2
  <2>5. f \in Int /\ m \in Int
    BY <2>1, <2>2
  <2>6. /\ Fiemap(start) \in Seq(Mapped)
        /\ Len(Fiemap(start)) = m - f + 1
        /\ \A i \in 1 .. m - f + 1 : Fiemap(start)[i] = ext[f + i - 1]
    <3>1. Len(Fiemap(start)) = IF f =< m THEN m - f + 1 ELSE 0
      BY <2>3, <2>4, <2>5, SubSeqProperties
    <3> QED
      BY <2>2, <2>3, <2>4, <2>5, <3>1, SubSeqProperties
  <2>7. Len(Fiemap(start)) =< MaxCount /\ Fiemap(start) # << >>
    BY <1>4, <2>1, <2>2, <2>6
  <2>8. ASSUME NEW i \in 1 .. n PROVE i =< f - 1 <=> End(ext[i]) =< start
    <3>1. CASE i < f
      BY <1>3, <2>1, <3>1
    <3>2. CASE i = f
      BY <1>3, <2>1, <3>2
    <3>3. CASE i > f
      <4>1. End(ext[f]) =< ext[i].logical /\ ext[i].logical < End(ext[i])
        BY <1>2, <1>3, <2>1, <3>3
      <4> QED
        BY <1>3, <2>1, <3>3, <4>1
    <3> QED
      BY <2>1, <3>1, <3>2, <3>3
  <2>9. SplitAt(start, f - 1) /\ f - 1 \in 0 .. n
    BY <1>1, <2>1, <2>8 DEF SplitAt, n, ext
  <2>10. Follows(Fiemap(start), f - 1)
    <3>1. f - 1 + Len(Fiemap(start)) =< n
      BY <1>1, <2>1, <2>2, <2>6
    <3>2. \A i \in 1 .. Len(Fiemap(start)) : f + i - 1 = f - 1 + i
      BY <2>1
    <3>3. \A i \in 1 .. Len(Fiemap(start)) : Fiemap(start)[i] = ext[f - 1 + i]
      BY <2>6, <3>2
    <3> QED
      BY <3>1, <3>3 DEF Follows, n, ext
  <2> QED
    BY <2>6, <2>7, <2>9, <2>10 DEF n, ext
<1> QED
  BY <1>5, <1>6

\* FIBMAP answers with a number of a block.
LEMMA FibmapType ==
  ASSUME file \in Files, NEW b \in Nat
  PROVE  Fibmap(b) \in Nat
<1> DEFINE hit == {x \in ToSet(file.extents) : x.logical =< b /\ b < End(x)}
           y == CHOOSE x \in hit : TRUE
<1>1. CASE hit = {}
  BY <1>1 DEF Fibmap
<1>2. CASE hit # {}
  <2>1. y \in hit
    BY <1>2
  <2>2. y \in Mapped
    BY <2>1, FileFacts DEF ToSet
  <2>3. y.physical \in Nat /\ y.logical \in Nat /\ y.logical =< b
    BY <2>1, <2>2, MappedFacts DEF MappedAt
  <2>4. Fibmap(b) = IF hit = {} \/ y.physical = 0 THEN 0 ELSE y.physical + b - y.logical
    BY DEF Fibmap
  <2> HIDE DEF y, hit
  <2> QED
    BY <2>3, <2>4
<1> QED
  BY <1>1, <1>2

-----------------------------------------------------------------------------
(* The invariant. *)

\* The buffer holds what lies beyond the place the call started at.
BatchIsNext ==
  /\ pc = "fibmap" => "FIEMAP" \notin supports /\ fm_start =< k
  /\ pc \in {"fibmap", "take"} =>
       batch # << >> /\ \A i \in 1 .. Len(batch) : End(batch[i]) > fm_start

\* What FIEMAP has put in the buffer was in the file.
BatchWasInFile ==
  /\ file \in seen
  /\ "FIEMAP" \in supports /\ pc = "take" =>
       \A i \in 1 .. Len(batch) : \E f \in seen : batch[i] \in ToSet(f.extents)

\* The first done extents of the file, and no other, are entered.
Entered(done) ==
  LET last == file.extents[done]
  IN  /\ Reported = UNION {UnitsIn(file.extents[i]) : i \in 1 .. done}
      /\ Len(extents) = Cardinality({i \in Heads(file) : i =< done})
      /\ extents = << >> <=> done = 0
      /\ done > 0 =>
           Ending(extents) = (last.physical + last.length - 1) \div BlockSize + 1

\* While the file stands still, the loop takes its extents one after another,
\* wherever the batches end.
ExactSoFar ==
  "FIEMAP" \in supports /\ StoodStill /\ Aligned(file) =>
    \E done \in 0 .. Len(file.extents) :
      /\ pc \in {"open", "ask"} => SplitAt(fm_start, done) /\ Entered(done)
      /\ pc = "take" => Follows(batch, done) /\ Entered(done)
      /\ pc = "done" => done = Len(file.extents) /\ Entered(done)

IInv == TypeOK /\ BatchIsNext /\ BatchWasInFile /\ NothingMadeUp /\ ExactSoFar

LEMMA ReportedFacts == Reported = ReportedIn(extents)
BY DEF Reported, ReportedIn, Units

LEMMA InitIInv == Init => IInv
<1> SUFFICES ASSUME Init PROVE IInv
  OBVIOUS
<1>1. TypeOK
  BY FileFacts, ExtentsAssumption DEF Init, TypeOK
<1>2. BatchIsNext /\ BatchWasInFile
  BY DEF Init, BatchIsNext, BatchWasInFile
<1>3. Reported = {} /\ extents = << >> /\ Len(extents) = 0
  BY DEF Init, Reported, ToSet
<1>4. NothingMadeUp
  BY <1>3 DEF NothingMadeUp
<1>5. SplitAt(fm_start, 0)
  <2>1. ASSUME NEW i \in 1 .. Len(file.extents) PROVE End(file.extents[i]) > 0
    <3>1. file.extents[i] \in Mapped
      BY FileFacts DEF Init
    <3> QED
      BY <3>1, MappedFacts DEF MappedAt
  <2>2. fm_start = 0 /\ Len(file.extents) \in Nat
    BY FileFacts DEF Init
  <2>3. \A i \in 1 .. Len(file.extents) : End(file.extents[i]) \in Nat
    BY FileFacts, MappedFacts DEF Init
  <2> QED
    BY <2>1, <2>2, <2>3 DEF SplitAt
<1>6. Entered(0)
  <2>1. {i \in Heads(file) : i =< 0} = {} /\ Heads(file) \subseteq Nat
    BY FileFacts DEF Heads, Init
  <2> QED
    BY <1>3, <2>1, FS_EmptySet DEF Entered
<1>7. ExactSoFar
  BY <1>5, <1>6 DEF ExactSoFar, Init, SplitAt
<1> QED
  BY <1>1, <1>2, <1>4, <1>7 DEF IInv

\* What does not touch the file or what is found of it, and skips it or asks
\* for the next batch.
LEMMA OpenIInv ==
  ASSUME IInv, Open
  PROVE  IInv'
<1>1. UNCHANGED <<file, supports, block_count, fm_start, batch, k, extents, seen>>
      /\ pc = "open" /\ pc' \in {"ask", "skipped"}
  BY DEF Open
<1>2. TypeOK' /\ BatchIsNext' /\ BatchWasInFile'
  BY <1>1 DEF IInv, TypeOK, BatchIsNext, BatchWasInFile
<1>3. NothingMadeUp'
  BY <1>1 DEF IInv, NothingMadeUp, Reported
<1>4. ExactSoFar'
  <2>1. \A d : SplitAt(fm_start, d)' <=> SplitAt(fm_start, d)
    BY <1>1 DEF SplitAt
  <2>2. \A d : Entered(d)' <=> Entered(d)
    BY <1>1 DEF Entered, Reported, Ending
  <2> QED
    BY <1>1, <2>1, <2>2 DEF IInv, ExactSoFar, StoodStill, Aligned
<1> QED
  BY <1>2, <1>3, <1>4 DEF IInv

LEMMA AskIInv ==
  ASSUME IInv, Ask
  PROVE  IInv'
<1>1. UNCHANGED <<file, supports, block_count, fm_start, extents, seen>> /\ pc = "ask"
  BY DEF Ask
<1>2. file \in Files /\ fm_start \in Nat /\ block_count \in Nat
  BY DEF IInv, TypeOK
<1>3. NothingMadeUp'
  BY <1>1 DEF IInv, NothingMadeUp, Reported
<1>4. CASE "FIEMAP" \in supports
  <2>1. batch' = Fiemap(fm_start) /\ UNCHANGED k
        /\ pc' = IF batch' = << >> THEN "done" ELSE "take"
    BY <1>4 DEF Ask, NoneLeft
  <2>2. batch' \in Seq(Mapped) /\ Len(batch') =< MaxCount
    BY <1>2, <2>1, FiemapFacts
  <2>3. PICK done \in 0 .. Len(file.extents) :
          /\ SplitAt(fm_start, done)
          /\ Follows(batch', done)
          /\ batch' = << >> => done = Len(file.extents)
    BY <1>2, <2>1, FiemapFacts
  <2>4. TypeOK'
    BY <1>1, <2>1, <2>2 DEF IInv, TypeOK
  <2>5. ASSUME NEW i \in 1 .. Len(batch')
        PROVE  End(batch'[i]) > fm_start /\ batch'[i] \in ToSet(file.extents)
    <3>1. Len(batch') \in Nat /\ Len(file.extents) \in Nat
      BY <1>2, <2>2, FileFacts
    <3>2. done + i \in 1 .. Len(file.extents) /\ ~(done + i =< done)
      BY <2>3, <2>5, <3>1 DEF Follows
    <3>3. batch'[i] = file.extents[done + i]
      BY <2>3, <2>5 DEF Follows
    <3>4. file.extents[done + i] \in Mapped /\ DOMAIN file.extents = 1 .. Len(file.extents)
      BY <1>2, <3>2, FileFacts
    <3>5. End(file.extents[done + i]) \in Nat /\ ~(End(file.extents[done + i]) =< fm_start)
      BY <2>3, <3>2, <3>4, MappedFacts DEF SplitAt
    <3> QED
      BY <1>2, <3>2, <3>3, <3>4, <3>5 DEF ToSet
  <2>6. BatchIsNext' /\ BatchWasInFile'
    BY <1>1, <2>1, <2>5 DEF IInv, BatchIsNext, BatchWasInFile
  <2>7. ExactSoFar'
    <3>1. SUFFICES ASSUME StoodStill, Aligned(file)
                   PROVE  /\ pc' = "take" => Follows(batch', done) /\ Entered(done)
                          /\ pc' = "done" => done = Len(file.extents) /\ Entered(done)
      BY <1>1, <2>1 DEF ExactSoFar, StoodStill, Aligned, Follows, Entered, Reported, Ending
    <3>2. PICK d \in 0 .. Len(file.extents) : SplitAt(fm_start, d) /\ Entered(d)
      BY <1>1, <1>4, <3>1 DEF IInv, ExactSoFar
    <3>3. d = done
      <4>1. \A a, b \in 0 .. Len(file.extents) : a < b /\ SplitAt(fm_start, a) => ~SplitAt(fm_start, b)
        <5>1. TAKE a, b \in 0 .. Len(file.extents)
        <5>2. SUFFICES ASSUME a < b, SplitAt(fm_start, a), SplitAt(fm_start, b) PROVE FALSE
          OBVIOUS
        <5>3. b \in 1 .. Len(file.extents)
          BY <1>2, <5>2, FileFacts
        <5> QED
          BY <5>2, <5>3 DEF SplitAt
      <4>2. Len(file.extents) \in Nat
        BY <1>2, FileFacts
      <4> QED
        BY <2>3, <3>2, <4>1, <4>2
    <3> QED
      BY <2>1, <2>3, <3>2, <3>3
  <2> QED
    BY <1>3, <2>4, <2>6, <2>7 DEF IInv
<1>5. CASE "FIEMAP" \notin supports
  <2>1. ExactSoFar' /\ BatchWasInFile'
    BY <1>1, <1>5 DEF IInv, ExactSoFar, BatchWasInFile
  <2>2. TypeOK' /\ BatchIsNext'
    <3>1. CASE pc' \in {"done", "skipped"} /\ UNCHANGED <<batch, k>>
      BY <1>1, <3>1 DEF IInv, TypeOK, BatchIsNext
    <3>2. CASE /\ batch' = <<[logical |-> fm_start, physical |-> Fibmap(0), length |-> 1]>>
               /\ k' = fm_start + 1 /\ pc' = "fibmap"
      <4> DEFINE x == [logical |-> fm_start, physical |-> Fibmap(0), length |-> 1]
      <4>1. x \in Mapped /\ End(x) = fm_start + 1
        BY <1>2, FibmapType DEF Mapped, End
      <4> HIDE DEF x
      <4>2. batch' \in Seq(Mapped) /\ Len(batch') = 1 /\ batch'[1] = x /\ batch' # << >>
        BY <3>2, <4>1 DEF x
      <4>3. Len(batch') =< MaxCount
        BY <4>2, ExtentsAssumption
      <4>4. TypeOK'
        BY <1>1, <1>2, <3>2, <4>2, <4>3 DEF IInv, TypeOK
      <4>5. BatchIsNext'
        BY <1>1, <1>2, <1>5, <3>2, <4>1, <4>2 DEF BatchIsNext
      <4> QED
        BY <4>4, <4>5
    <3> QED
      BY <1>5, <3>1, <3>2 DEF Ask, FibmapFallback, NoneLeft
  <2> QED
    BY <1>3, <2>1, <2>2 DEF IInv
<1> QED
  BY <1>4, <1>5

\* A block comes in, is passed over, makes the loop break or gives up the file:
\* the records in the buffer only grow.
LEMMA FibmapBlockIInv ==
  ASSUME IInv, FibmapBlock
  PROVE  IInv'
<1> DEFINE p == Fibmap(k)
           n == Len(batch)
           last == batch[n]
<1>1. UNCHANGED <<file, supports, block_count, fm_start, extents, seen>> /\ pc = "fibmap"
  BY DEF FibmapBlock
<1>2. "FIEMAP" \notin supports /\ fm_start =< k /\ batch # << >>
      /\ \A i \in 1 .. n : End(batch[i]) > fm_start
  BY <1>1 DEF IInv, BatchIsNext
<1>3. /\ batch \in Seq(Mapped) /\ n \in Nat \ {0} /\ n =< MaxCount
      /\ k \in Nat /\ fm_start \in Nat /\ p \in Nat /\ file \in Files
      /\ last \in Mapped
  <2>1. batch \in Seq(Mapped) /\ n \in Nat \ {0} /\ n =< MaxCount
        /\ k \in Nat /\ fm_start \in Nat /\ file \in Files
    BY <1>2 DEF IInv, TypeOK
  <2> QED
    BY <2>1, FibmapType
<1>4. NothingMadeUp' /\ BatchWasInFile' /\ ExactSoFar'
  BY <1>1, <1>2 DEF IInv, NothingMadeUp, BatchWasInFile, ExactSoFar
<1>8. CASE pc' = "skipped" /\ UNCHANGED <<batch, k>>
  BY <1>1, <1>2, <1>3, <1>4, <1>8 DEF IInv, TypeOK, BatchIsNext
<1>5. CASE UNCHANGED batch /\ pc' \in {"take", "fibmap"} /\ k' \in {k, k + 1}
  BY <1>1, <1>2, <1>3, <1>4, <1>5 DEF IInv, TypeOK, BatchIsNext
<1>6. CASE batch' = [batch EXCEPT ![n].length = @ + 1] /\ k' = k + 1 /\ UNCHANGED pc
  <2> DEFINE longer == [last EXCEPT !.length = @ + 1]
  <2>1. batch' = [batch EXCEPT ![n] = longer]
    BY <1>6
  <2>2. longer \in Mapped /\ longer.logical = last.logical /\ longer.length = last.length + 1
        /\ last.logical \in Nat /\ last.length \in Nat
    BY <1>3 DEF Mapped
  <2>3. End(longer) = End(last) + 1 /\ End(last) \in Nat
    BY <2>2 DEF End
  <2>4. n \in 1 .. n
    BY <1>3
  <2> HIDE DEF longer, n, last
  <2>5. batch' \in Seq(Mapped) /\ Len(batch') = n
        /\ \A i \in 1 .. n : batch'[i] = IF i = n THEN longer ELSE batch[i]
    BY <1>3, <2>1, <2>2, <2>4, ExceptSeq DEF n
  <2>6. \A i \in 1 .. n : End(batch'[i]) > fm_start
    BY <1>2, <1>3, <2>3, <2>4, <2>5 DEF last
  <2>7. TypeOK'
    BY <1>1, <1>3, <1>6, <2>5 DEF IInv, TypeOK
  <2>8. batch' # << >>
    BY <1>3, <2>5
  <2>9. BatchIsNext'
    BY <1>1, <1>2, <1>3, <1>6, <2>5, <2>6, <2>8 DEF BatchIsNext
  <2> QED
    BY <1>4, <2>7, <2>9 DEF IInv
<1>7. CASE /\ batch' = Append(batch, [logical |-> k, physical |-> p, length |-> 1])
           /\ n < MaxCount /\ k' = k + 1 /\ UNCHANGED pc
  <2> DEFINE x == [logical |-> k, physical |-> p, length |-> 1]
  <2>1. x \in Mapped /\ End(x) = k + 1
    BY <1>3 DEF Mapped, End
  <2> HIDE DEF x
  <2>2. batch' = Append(batch, x)
    BY <1>7 DEF x
  <2>3. batch' \in Seq(Mapped) /\ Len(batch') = n + 1 /\ batch'[n + 1] = x
        /\ \A i \in 1 .. n : batch'[i] = batch[i]
    BY <1>3, <2>1, <2>2
  <2> HIDE DEF n
  <2>4. \A i \in 1 .. n + 1 : i \in 1 .. n \/ i = n + 1
    BY <1>3
  <2>5. \A i \in 1 .. n + 1 : End(batch'[i]) > fm_start
    BY <1>2, <1>3, <2>1, <2>3, <2>4
  <2>6. TypeOK'
    BY <1>1, <1>3, <1>7, <2>3, ExtentsAssumption DEF IInv, TypeOK
  <2>7. batch' # << >>
    BY <1>3, <2>3
  <2>8. BatchIsNext'
    BY <1>1, <1>2, <1>3, <1>7, <2>3, <2>5, <2>7 DEF BatchIsNext
  <2> QED
    BY <1>4, <2>6, <2>8 DEF IInv
<1> QED
  BY <1>5, <1>6, <1>7, <1>8 DEF FibmapBlock, Room

\* Another process writes to the file: it has been one thing more, and does not
\* stand still unless it is written as it was.
LEMMA FileChangesIInv ==
  ASSUME IInv, FileChanges
  PROVE  IInv'
<1>1. /\ UNCHANGED <<supports, block_count, pc, fm_start, batch, k, extents>>
      /\ file' \in Files /\ seen' = seen \cup {file'}
  BY DEF FileChanges
<1>2. TypeOK' /\ BatchIsNext' /\ BatchWasInFile'
  BY <1>1 DEF IInv, TypeOK, BatchIsNext, BatchWasInFile
<1>3. NothingMadeUp'
  BY <1>1 DEF IInv, NothingMadeUp, Reported
<1>4. ExactSoFar'
  <2>1. SUFFICES ASSUME StoodStill' PROVE ExactSoFar'
    BY DEF ExactSoFar
  <2>2. file' = file /\ StoodStill
    BY <1>1, <2>1 DEF StoodStill, IInv, BatchWasInFile
  <2>3. \A d : SplitAt(fm_start, d)' <=> SplitAt(fm_start, d)
    BY <1>1, <2>2 DEF SplitAt
  <2>4. \A d : Entered(d)' <=> Entered(d)
    BY <1>1, <2>2 DEF Entered, Reported, Ending
  <2>5. \A d : Follows(batch, d)' <=> Follows(batch, d)
    BY <1>1, <2>2 DEF Follows
  <2> QED
    BY <1>1, <2>2, <2>3, <2>4, <2>5 DEF IInv, ExactSoFar, Aligned
<1> QED
  BY <1>2, <1>3, <1>4 DEF IInv

\* The next extent of a file that stands still comes in: its units, and a new
\* run if it does not go on where the one before it ends.
LEMMA EntersNext ==
  ASSUME IInv, Take, StoodStill, Aligned(file),
         NEW done \in 0 .. Len(file.extents),
         Follows(batch, done), Entered(done)
  PROVE  done + 1 \in 1 .. Len(file.extents) /\ Entered(done + 1)'
<1> DEFINE ext == file.extents
           d == done + 1
           x == ext[d]
           new == Rounded(x)
<1>1. UNCHANGED file /\ pc = "take" /\ extents' = AddExtent(extents, Head(batch))
  BY DEF Take
<1>2. batch # << >> /\ batch \in Seq(Mapped) /\ Len(batch) \in Nat \ {0} /\ file \in Files
      /\ extents \in Seq(Found) /\ BlockSize \in Nat \ {0}
  BY <1>1, ExtentsAssumption DEF IInv, TypeOK, BatchIsNext, Found
<1>3. Head(batch) = x /\ d \in 1 .. Len(ext) /\ Len(ext) \in Nat /\ DOMAIN ext = 1 .. Len(ext)
  BY <1>2, FileFacts DEF Follows
<1>4. x \in Mapped /\ MappedAt(x) /\ x.physical % BlockSize = 0
  BY <1>2, <1>3, FileFacts, MappedFacts DEF Aligned, ToSet
<1>5. /\ UnitsIn(x) = Units(new)
      /\ new.start + new.length = (x.physical + x.length - 1) \div BlockSize + 1
  <2> HIDE DEF x
  <2>1. Units(new) \subseteq UnitsIn(x) /\ UnitsIn(x) \subseteq Units(new)
    BY <1>4, RoundedFacts
  <2>2. new.start + new.length = (x.physical + x.length - 1) \div BlockSize + 1
    BY <1>4, RoundedFacts
  <2> QED
    BY <2>1, <2>2
<1>6. new.start = x.physical \div BlockSize
  BY DEF Rounded
<1>7. /\ extents' # << >> /\ extents' \in Seq(Found)
      /\ ReportedIn(extents') = ReportedIn(extents) \cup Units(new)
      /\ Ending(extents') = new.start + new.length
      /\ Len(extents') = IF extents # << >> /\ Ending(extents) = new.start
                         THEN Len(extents) ELSE Len(extents) + 1
  BY <1>1, <1>2, <1>3, <1>4, AddExtentFacts
<1>8. Reported' = UNION {UnitsIn(ext[i]) : i \in 1 .. d}
  <2>1. Reported = UNION {UnitsIn(ext[i]) : i \in 1 .. done}
    BY DEF Entered
  <2>2. Reported' = ReportedIn(extents') /\ Reported = ReportedIn(extents)
    BY DEF Reported, ReportedIn, Units
  <2>3. \A i \in 1 .. d : i = d \/ i \in 1 .. done
    OBVIOUS
  <2>4. d \in 1 .. d /\ \A i \in 1 .. done : i \in 1 .. d
    OBVIOUS
  <2>5. Reported' = Reported \cup UnitsIn(x)
    BY <1>5, <1>7, <2>2
  <2> HIDE DEF d, new
  <2> QED
    BY <2>1, <2>3, <2>4, <2>5
<1>9. Len(extents') = Cardinality({i \in Heads(file) : i =< d})
  <2> DEFINE before == {i \in Heads(file) : i =< done}
  <2>1. Len(extents) = Cardinality(before)
    BY DEF Entered
  <2>2. Heads(file) \subseteq 1 .. Len(ext)
    BY <1>3 DEF Heads
  <2>3. IsFiniteSet(before)
    <3>1. before \in SUBSET (1 .. Len(ext))
      BY <2>2
    <3>2. IsFiniteSet(1 .. Len(ext))
      BY <1>3, FS_Interval
    <3> HIDE DEF before, ext
    <3> QED
      BY <3>1, <3>2, FS_Subset
  <2>4. d \notin before
    OBVIOUS
  <2>5. d \in Heads(file) <=> ~(extents # << >> /\ Ending(extents) = new.start)
    <3>1. CASE done = 0
      BY <1>3, <3>1 DEF Heads, Entered
    <3>2. CASE done # 0
      <4>1. extents # << >> /\ d - 1 = done /\ d > 1
        BY <3>2 DEF Entered
      <4>2. Ending(extents)
              = (ext[done].physical + ext[done].length - 1) \div BlockSize + 1
        BY <3>2 DEF Entered
      <4>3. d \in Heads(file) <=>
              ext[d].physical \div BlockSize #
                (ext[done].physical + ext[done].length - 1) \div BlockSize + 1
        BY <1>3, <4>1 DEF Heads
      <4> QED
        BY <1>6, <4>1, <4>2, <4>3
    <3> QED
      BY <3>1, <3>2
  <2>6. {i \in Heads(file) : i =< d}
          = IF d \in Heads(file) THEN before \cup {d} ELSE before
    BY <2>2
  <2>7. Cardinality(before \cup {d}) = Cardinality(before) + 1
    BY <2>3, <2>4, FS_AddElement
  <2> HIDE DEF before, d, new
  <2> QED
    BY <1>7, <2>1, <2>5, <2>6, <2>7
<1>10. Ending(extents') = (x.physical + x.length - 1) \div BlockSize + 1
  BY <1>5, <1>7
<1> QED
  BY <1>1, <1>3, <1>7, <1>8, <1>9, <1>10 DEF Entered, Ending

LEMMA TakeIInv ==
  ASSUME IInv, Take
  PROVE  IInv' /\ (pc' = "ask" => fm_start' > fm_start)
<1> DEFINE x == Head(batch)
           n == Len(batch)
<1>1. /\ UNCHANGED <<file, supports, block_count, k, seen>> /\ pc = "take"
      /\ extents' = AddExtent(extents, x) /\ batch' = Tail(batch)
      /\ n = 1 => fm_start' = End(x) /\ pc' = "ask"
      /\ n # 1 => UNCHANGED <<fm_start, pc>>
  BY DEF Take, StartsNext
<1>2. batch # << >> /\ batch \in Seq(Mapped) /\ n \in Nat \ {0} /\ n =< MaxCount
      /\ file \in Files /\ extents \in Seq(Found) /\ fm_start \in Nat /\ MaxCount \in Nat
  BY <1>1, ExtentsAssumption DEF IInv, TypeOK, BatchIsNext, Found
<1>3. x = batch[1] /\ 1 \in 1 .. n /\ x \in Mapped /\ MappedAt(x) /\ End(x) \in Nat
  BY <1>2, MappedFacts
<1>4. /\ batch' \in Seq(Mapped) /\ Len(batch') = n - 1
      /\ \A i \in 1 .. n - 1 : batch'[i] = batch[i + 1]
  BY <1>1, <1>2, HeadTailProperties
<1>5. /\ extents' \in Seq(Found)
      /\ ReportedIn(extents') = ReportedIn(extents) \cup Units(Rounded(x))
  BY <1>1, <1>2, <1>3, AddExtentFacts
<1>6. End(x) > fm_start
  BY <1>1, <1>3 DEF IInv, BatchIsNext
<1> HIDE DEF x, n
<1>7. pc' = "ask" => fm_start' > fm_start
  BY <1>1, <1>6
<1>8. TypeOK'
  <2>1. fm_start' \in Nat /\ pc' \in {"ask", "take"} /\ Len(batch') =< MaxCount
    BY <1>1, <1>2, <1>3, <1>4
  <2> QED
    BY <1>1, <1>4, <1>5, <2>1 DEF IInv, TypeOK, Found
<1>9. BatchIsNext'
  <2>1. SUFFICES ASSUME n # 1
                 PROVE  batch' # << >> /\ \A i \in 1 .. n - 1 : End(batch'[i]) > fm_start'
    BY <1>1, <1>2, <1>4 DEF BatchIsNext
  <2>2. batch' # << >>
    BY <1>2, <1>4, <2>1
  <2>3. \A i \in 1 .. n - 1 : i + 1 \in 1 .. n
    BY <1>2
  <2> QED
    BY <1>1, <1>4, <2>1, <2>2, <2>3 DEF IInv, BatchIsNext, n
<1>10. BatchWasInFile'
  <2>1. \A i \in 1 .. n - 1 : i + 1 \in 1 .. n
    BY <1>2
  <2> QED
    BY <1>1, <1>4, <2>1 DEF IInv, BatchWasInFile, n
<1>11. NothingMadeUp'
  <2>1. SUFFICES ASSUME "FIEMAP" \in supports, \A f \in seen : Placed(f)
                 PROVE  Reported' \subseteq UNION {UnitsOf(f) : f \in seen}
    BY <1>1 DEF NothingMadeUp, Placed
  <2>2. PICK f \in seen : x \in ToSet(f.extents)
    BY <1>1, <1>3, <2>1 DEF IInv, BatchWasInFile, n
  <2>3. UnitsIn(x) \subseteq UnitsOf(f)
    BY <2>1, <2>2 DEF Placed, UnitsOf
  <2>4. Units(Rounded(x)) \subseteq UnitsIn(x)
    BY <1>3, RoundedFacts
  <2>5. Reported \subseteq UNION {UnitsOf(g) : g \in seen}
    BY <2>1 DEF IInv, NothingMadeUp
  <2>6. Reported' = Reported \cup Units(Rounded(x))
    <3>1. Reported' = ReportedIn(extents') /\ Reported = ReportedIn(extents)
      BY DEF Reported, ReportedIn, Units
    <3> QED
      BY <1>5, <3>1
  <2> QED
    BY <2>3, <2>4, <2>5, <2>6
<1>12. ExactSoFar'
  <2>1. SUFFICES ASSUME "FIEMAP" \in supports, StoodStill, Aligned(file) PROVE ExactSoFar'
    BY <1>1 DEF ExactSoFar, StoodStill, Aligned
  <2>2. PICK done \in 0 .. Len(file.extents) : Follows(batch, done) /\ Entered(done)
    BY <1>1, <2>1 DEF IInv, ExactSoFar
  <2>3. done + 1 \in 1 .. Len(file.extents) /\ Entered(done + 1)'
    BY <2>1, <2>2, EntersNext
  <2>4. Len(file.extents) \in Nat /\ done \in Nat
    BY <1>2, FileFacts
  <2>5. CASE n # 1
    <3>1. Follows(batch, done + 1)'
      <4>1. done + 1 + Len(batch') =< Len(file.extents)
        BY <1>2, <1>4, <2>2, <2>4 DEF Follows, n
      <4>2. \A i \in 1 .. n - 1 : i + 1 \in 1 .. n /\ done + (i + 1) = done + 1 + i
        BY <1>2, <2>4
      <4>3. \A i \in 1 .. n - 1 : batch'[i] = file.extents[done + 1 + i]
        BY <1>4, <2>2, <4>2 DEF Follows, n
      <4> QED
        BY <1>1, <1>4, <4>1, <4>3 DEF Follows
    <3> QED
      BY <1>1, <2>3, <2>4, <2>5, <3>1 DEF ExactSoFar
  <2>6. CASE n = 1
    <3>1. x = file.extents[done + 1]
      BY <1>3, <2>2 DEF Follows, n
    <3>2. SplitAt(fm_start, done + 1)'
      <4>1. ASSUME NEW i \in 1 .. Len(file.extents)
            PROVE  i =< done + 1 <=> End(file.extents[i]) =< End(x)
        <5> DEFINE e == file.extents[i]
        <5>1. End(e) \in Nat /\ e.logical \in Nat /\ e.logical < End(e)
              /\ x.logical \in Nat /\ x.logical < End(x)
          BY <1>2, <1>3, <4>1, FileFacts, MappedFacts DEF MappedAt
        <5>2. i < done + 1 => End(e) =< x.logical
          BY <1>2, <2>3, <3>1, <4>1, FileFacts
        <5>3. done + 1 < i => End(x) =< e.logical
          BY <1>2, <2>3, <3>1, <4>1, FileFacts
        <5>4. i = done + 1 => End(e) = End(x)
          BY <3>1
        <5> HIDE DEF e
        <5>5. i \in Nat
          BY <4>1
        <5>6. i =< done + 1 <=> End(e) =< End(x)
          <6>1. CASE i < done + 1
            BY <1>3, <2>4, <5>1, <5>2, <5>5, <6>1
          <6>2. CASE i = done + 1
            BY <1>3, <2>4, <5>1, <5>4, <5>5, <6>2
          <6>3. CASE done + 1 < i
            BY <1>3, <2>4, <5>1, <5>3, <5>5, <6>3
          <6> QED
            BY <2>4, <5>5, <6>1, <6>2, <6>3
        <5> QED
          BY <5>6 DEF e
      <4> QED
        BY <1>1, <2>3, <2>4, <2>6, <4>1 DEF SplitAt
    <3> QED
      BY <1>1, <2>3, <2>4, <2>6, <3>2 DEF ExactSoFar
  <2> QED
    BY <2>5, <2>6
<1> QED
  BY <1>7, <1>8, <1>9, <1>10, <1>11, <1>12 DEF IInv

LEMMA NextIInv ==
  ASSUME IInv, [Next]_vars
  PROVE  IInv'
<1>1. CASE UNCHANGED vars
  <2>1. TypeOK' /\ BatchIsNext' /\ BatchWasInFile'
    BY <1>1 DEF vars, IInv, TypeOK, BatchIsNext, BatchWasInFile
  <2>2. NothingMadeUp'
    BY <1>1 DEF vars, IInv, NothingMadeUp, Reported
  <2>3. \A d : /\ SplitAt(fm_start, d)' <=> SplitAt(fm_start, d)
               /\ Entered(d)' <=> Entered(d)
               /\ Follows(batch, d)' <=> Follows(batch, d)
    BY <1>1 DEF vars, SplitAt, Follows, Entered, Reported, Ending
  <2>4. ExactSoFar'
    BY <1>1, <2>3 DEF vars, IInv, ExactSoFar, StoodStill, Aligned
  <2> QED
    BY <2>1, <2>2, <2>4 DEF IInv
<1> QED
  BY <1>1, OpenIInv, AskIInv, FibmapBlockIInv, TakeIInv, FileChangesIInv DEF Next

\* The invariant holds in every state of the loop.
LEMMA Invariant == Spec => []IInv
<1> QED
  BY InitIInv, NextIInv, PTL DEF Spec

-----------------------------------------------------------------------------
(* The theorems. *)

\* Wherever fm_start gets to and whatever the file system answers, what is
\* found are extents of at least one unit, and the buffer is never overrun
\* (get_file_extents and fibmap_fallback, clusters.cc:313-462).
THEOREM ExtentsTypes == Spec => []TypeOK
<1>1. IInv => TypeOK
  BY DEF IInv
<1> QED
  BY <1>1, Invariant, PTL

\* Each call starts beyond the one before it, with FIEMAP and with FIBMAP, for
\* any file and any changes to it (clusters.cc:447-450).
THEOREM CallsGetFurther == Spec => EachCallGetsFurther
<1>1. ASSUME IInv, [Next]_vars
      PROVE  [pc = "take" /\ pc' = "ask" => fm_start' > fm_start]_vars
  <2>1. SUFFICES ASSUME pc = "take", pc' = "ask", Next PROVE fm_start' > fm_start
    BY <1>1 DEF vars
  <2>2. Take
    BY <2>1 DEF Next, Open, Ask, FibmapBlock, FileChanges
  <2> QED
    BY <1>1, <2>1, <2>2, TakeIInv
<1> QED
  BY <1>1, Invariant, PTL DEF Spec, EachCallGetsFurther

\* Of a file that is rewritten under the loop FIEMAP reports units the file
\* had at one time or another (clusters.cc:407-450).
THEOREM FiemapMakesNothingUp == Spec => []NothingMadeUp
<1>1. IInv => NothingMadeUp
  BY DEF IInv
<1> QED
  BY <1>1, Invariant, PTL

\* A file that stands still is reported with all its units, and as many
\* extents as it has runs of them, for a buffer of any size
\* (clusters.cc:407-450).
THEOREM FiemapReportsFile == Spec => []FiemapIsExact
<1>1. IInv => FiemapIsExact
  <2>1. SUFFICES ASSUME IInv, pc = "done", "FIEMAP" \in supports, StoodStill,
                        Placed(file), Aligned(file)
                 PROVE  IsExact
    BY DEF FiemapIsExact
  <2> DEFINE ext == file.extents
             n == Len(ext)
  <2>2. Entered(n)
    BY <2>1 DEF IInv, ExactSoFar
  <2>3. DOMAIN ext = 1 .. n /\ n \in Nat
    BY <2>1, FileFacts DEF IInv, TypeOK
  <2>4. Reported = UnitsOf(file)
    <3>1. Reported = UNION {UnitsIn(ext[i]) : i \in 1 .. n}
      BY <2>2 DEF Entered
    <3>2. {y \in ToSet(ext) : y.physical # 0} = {ext[i] : i \in 1 .. n}
      BY <2>1, <2>3 DEF Placed, ToSet
    <3>3. UnitsOf(file) = UNION {UnitsIn(x) : x \in {ext[i] : i \in 1 .. n}}
      BY <3>2 DEF UnitsOf
    <3> QED
      BY <3>1, <3>3
  <2>5. Len(extents) = FragmentsOf(file)
    <3>1. {i \in Heads(file) : i =< n} = Heads(file)
      BY <2>3 DEF Heads
    <3> QED
      BY <2>2, <3>1 DEF Entered, FragmentsOf
  <2> QED
    BY <2>4, <2>5 DEF IsExact
<1> QED
  BY <1>1, Invariant, PTL

-----------------------------------------------------------------------------
(* FIBMAP of a file without holes. *)

DenseFile ==
  /\ file \in Files /\ Aligned(file) /\ Dense(file)

\* The blocks below e that are not adjacent on the disk to the one before them,
\* and those whose units are not.
BlockBreaks(e) == {l \in 0 .. e - 1 : l > 0 => Fibmap(l) # Fibmap(l - 1) + 1}

UnitBreaks(e) ==
  {l \in BlockBreaks(e) :
     l > 0 => Fibmap(l) \div BlockSize # Fibmap(l - 1) \div BlockSize + 1}

\* The extents follow each other without a gap from 0 to the size.
LEMMA DenseTiles ==
  ASSUME DenseFile
  PROVE  LET ext == file.extents
             n == Len(ext)
         IN  /\ n > 0 => ext[1].logical = 0 /\ End(ext[n]) = file.size
             /\ \A i \in 1 .. n : End(ext[i]) =< file.size
             /\ \A i \in 1 .. n : i > 1 => ext[i].logical = End(ext[i - 1])
             /\ n = 0 => file.size = 0
<1> DEFINE ext == file.extents
           n == Len(ext)
           size == file.size
<1>1. /\ n \in Nat /\ size \in Nat /\ DOMAIN ext = 1 .. n
      /\ \A i \in 1 .. n : ext[i] \in Mapped
      /\ \A i, j \in 1 .. n : i < j => End(ext[i]) =< ext[j].logical
      /\ ext \in Seq(Mapped)
  BY FileFacts DEF DenseFile
<1>2. \A i \in 1 .. n : End(ext[i]) \in Nat /\ ext[i].logical \in Nat /\ ext[i].logical < End(ext[i])
  BY <1>1, MappedFacts DEF MappedAt
<1>3. \A b \in 0 .. size - 1 : \E j \in 1 .. n : ext[j].logical =< b /\ b < End(ext[j])
  BY <1>1 DEF DenseFile, Dense, ToSet
<1>4. n > 0 => End(ext[n]) = size
  <2>1. n > 0 => ext # << >>
    BY <1>1
  <2> QED
    BY <2>1 DEF DenseFile, Dense
<1> HIDE DEF n, size, ext
<1>5. \A i \in 1 .. n : End(ext[i]) =< size
  <2>1. TAKE i \in 1 .. n
  <2>2. n \in 1 .. n /\ i =< n /\ (i = n \/ i < n)
    BY <1>1
  <2>3. i < n => End(ext[i]) =< ext[n].logical
    BY <1>1, <2>2
  <2> QED
    BY <1>1, <1>2, <1>4, <2>2, <2>3
<1>6. ASSUME NEW i \in 1 .. n, NEW b \in Nat, b < ext[i].logical,
             \A j \in 1 .. n : j < i => End(ext[j]) =< b
      PROVE  FALSE
  <2>1. b \in 0 .. size - 1
    BY <1>1, <1>2, <1>5, <1>6
  <2>2. PICK j \in 1 .. n : ext[j].logical =< b /\ b < End(ext[j])
    BY <1>3, <2>1
  <2>3. ~(j < i)
    BY <1>2, <1>6, <2>2
  <2>4. j = i \/ i < j
    BY <1>1, <2>3
  <2>5. i < j => ext[i].logical < ext[j].logical
    BY <1>1, <1>2
  <2> QED
    BY <1>2, <1>6, <2>2, <2>4, <2>5
<1>7. n > 0 => ext[1].logical = 0
  <2>1. SUFFICES ASSUME n > 0, ext[1].logical # 0 PROVE FALSE
    OBVIOUS
  <2>2. 1 \in 1 .. n /\ 0 < ext[1].logical
    BY <1>1, <1>2, <2>1
  <2> QED
    BY <1>6, <2>2
<1>8. ASSUME NEW i \in 1 .. n, i > 1 PROVE ext[i].logical = End(ext[i - 1])
  <2>1. i - 1 \in 1 .. n /\ i - 1 < i
    BY <1>1, <1>8
  <2>2. End(ext[i - 1]) =< ext[i].logical
    BY <1>1, <2>1
  <2>3. ASSUME NEW j \in 1 .. n, j < i PROVE End(ext[j]) =< End(ext[i - 1])
    <3>1. j = i - 1 \/ j < i - 1
      BY <1>1, <1>8, <2>3
    <3>2. j < i - 1 => End(ext[j]) =< ext[i - 1].logical
      BY <1>1, <2>1
    <3> QED
      BY <1>2, <2>1, <3>1, <3>2
  <2>4. End(ext[i - 1]) \in Nat /\ ext[i].logical \in Nat
    BY <1>2, <2>1
  <2>5. ~(End(ext[i - 1]) < ext[i].logical)
    BY <1>6, <2>3, <2>4
  <2> QED
    BY <2>2, <2>4, <2>5
<1>9. n = 0 => size = 0
  BY <1>1, <1>3
<1> QED
  BY <1>4, <1>5, <1>7, <1>8, <1>9 DEF n, size, ext

\* FIBMAP of a block is its place in the one extent it lies in.
LEMMA FibmapInExtent ==
  ASSUME DenseFile, NEW i \in 1 .. Len(file.extents), NEW l \in Nat,
         file.extents[i].logical =< l, l < End(file.extents[i])
  PROVE  /\ Fibmap(l) = file.extents[i].physical + (l - file.extents[i].logical)
         /\ Fibmap(l) \in Nat /\ Fibmap(l) # 0
<1> DEFINE ext == file.extents
           n == Len(ext)
           x == ext[i]
           hit == {y \in ToSet(file.extents) : y.logical =< l /\ l < End(y)}
<1>1. /\ DOMAIN ext = 1 .. n /\ n \in Nat
      /\ \A j \in 1 .. n : ext[j] \in Mapped
      /\ \A a, b \in 1 .. n : a < b => End(ext[a]) =< ext[b].logical
  BY FileFacts DEF DenseFile
<1>2. \A j \in 1 .. n : End(ext[j]) \in Nat /\ ext[j].logical \in Nat
  BY <1>1, MappedFacts DEF MappedAt
<1>3. hit = {x}
  <2>1. x \in hit
    BY <1>1 DEF ToSet
  <2>2. ASSUME NEW y \in hit PROVE y = x
    <3>1. PICK j \in 1 .. n : y = ext[j]
      BY <1>1 DEF ToSet
    <3>2. ~(i < j)
      BY <1>1, <1>2, <2>2, <3>1
    <3>3. ~(j < i)
      BY <1>1, <1>2, <2>2, <3>1
    <3> QED
      BY <1>1, <3>1, <3>2, <3>3
  <2> QED
    BY <2>1, <2>2
<1>4. x.physical \in Nat /\ x.physical # 0 /\ x.logical \in Nat
  BY <1>1, MappedFacts DEF MappedAt, DenseFile, Dense, Placed, ToSet
<1>5. (CHOOSE y \in hit : TRUE) = x
  BY <1>3
<1>6. Fibmap(l) = IF hit = {} \/ x.physical = 0 THEN 0 ELSE x.physical + l - x.logical
  BY <1>5 DEF Fibmap
<1> HIDE DEF x, hit
<1>7. Fibmap(l) = x.physical + (l - x.logical) /\ x.logical =< l
  BY <1>3, <1>4, <1>6 DEF x
<1>8. Fibmap(l) \in Nat /\ Fibmap(l) # 0
  BY <1>4, <1>7
<1> QED
  BY <1>7, <1>8 DEF x

\* The first block of an extent, and its neighbours.
LEMMA ExtentBlocks ==
  ASSUME DenseFile, NEW i \in 1 .. Len(file.extents)
  PROVE  LET x == file.extents[i]
             y == file.extents[i - 1]
         IN  /\ x.logical \in 0 .. file.size - 1
             /\ Fibmap(x.logical) = x.physical
             /\ i > 1 => /\ x.logical > 0
                         /\ Fibmap(x.logical - 1) = y.physical + y.length - 1
             /\ i = 1 => x.logical = 0
             /\ \A l \in Nat : x.logical < l /\ l < End(x) => Fibmap(l) = Fibmap(l - 1) + 1
<1> DEFINE ext == file.extents
           n == Len(ext)
           x == ext[i]
           y == ext[i - 1]
<1>1. x \in Mapped /\ n \in Nat /\ file.size \in Nat /\ (i > 1 => i - 1 \in 1 .. n /\ y \in Mapped)
  <2>1. n \in Nat /\ file.size \in Nat /\ \A j \in 1 .. n : ext[j] \in Mapped
    BY FileFacts DEF DenseFile
  <2>2. i > 1 => i - 1 \in 1 .. n
    BY <2>1
  <2> QED
    BY <2>1, <2>2
<1>2. x.logical \in Nat /\ End(x) \in Nat /\ x.logical < End(x) /\ x.physical \in Nat
  BY <1>1, MappedFacts DEF MappedAt
<1>3. End(x) =< file.size /\ (i > 1 => x.logical = End(y)) /\ (i = 1 => x.logical = 0)
  BY <1>1, DenseTiles
<1>4. \A l \in Nat : x.logical =< l /\ l < End(x) =>
        Fibmap(l) = x.physical + (l - x.logical) /\ Fibmap(l) \in Nat
  BY FibmapInExtent
<1>5. i > 1 => \A l \in Nat : y.logical =< l /\ l < End(y) =>
                 Fibmap(l) = y.physical + (l - y.logical)
  BY <1>1, FibmapInExtent
<1>6. i > 1 => y.logical \in Nat /\ y.physical \in Nat /\ y.length \in Nat \ {0}
               /\ End(y) = y.logical + y.length
  BY <1>1, MappedFacts DEF MappedAt, End
<1> HIDE DEF x, y
<1>7. Fibmap(x.logical) = x.physical
  BY <1>2, <1>4
<1>8. ASSUME i > 1
      PROVE  x.logical > 0 /\ Fibmap(x.logical - 1) = y.physical + y.length - 1
  <2>1. x.logical - 1 \in Nat /\ y.logical =< x.logical - 1 /\ x.logical - 1 < End(y)
    BY <1>3, <1>6, <1>8
  <2>2. Fibmap(x.logical - 1) = y.physical + (x.logical - 1 - y.logical)
    BY <1>5, <1>8, <2>1
  <2> QED
    BY <1>2, <1>3, <1>6, <1>8, <2>1, <2>2
<1>9. ASSUME NEW l \in Nat, x.logical < l, l < End(x) PROVE Fibmap(l) = Fibmap(l - 1) + 1
  <2>1. l - 1 \in Nat /\ x.logical =< l - 1 /\ l - 1 < End(x)
    BY <1>2, <1>9
  <2>2. Fibmap(l) = x.physical + (l - x.logical) /\ Fibmap(l - 1) = x.physical + (l - 1 - x.logical)
    BY <1>2, <1>4, <1>9, <2>1
  <2> QED
    BY <1>2, <1>9, <2>2
<1>10. x.logical \in 0 .. file.size - 1
  BY <1>1, <1>2, <1>3
<1> QED
  BY <1>3, <1>7, <1>8, <1>9, <1>10 DEF x, y

\* Every block of the file has a place, and lies in an extent.
LEMMA BlockInExtent ==
  ASSUME DenseFile, NEW l \in 0 .. file.size - 1
  PROVE  /\ l \in Nat /\ Fibmap(l) \in Nat /\ Fibmap(l) # 0
         /\ \E i \in 1 .. Len(file.extents) :
              file.extents[i].logical =< l /\ l < End(file.extents[i])
<1>1. DOMAIN file.extents = 1 .. Len(file.extents) /\ file.size \in Nat
  BY FileFacts DEF DenseFile
<1>2. PICK i \in 1 .. Len(file.extents) :
        file.extents[i].logical =< l /\ l < End(file.extents[i])
  BY <1>1 DEF DenseFile, Dense, ToSet
<1>3. l \in Nat
  BY <1>1
<1> QED
  BY <1>2, <1>3, FibmapInExtent

\* A block begins a run of blocks just where an extent begins that is one of
\* Records, and a run of units where it is one of Heads.
LEMMA BreakIsLogical ==
  ASSUME DenseFile, NEW l \in BlockBreaks(file.size)
  PROVE  \E i \in Records(file) : l = file.extents[i].logical
<1> DEFINE ext == file.extents
<1>1. l \in 0 .. file.size - 1 /\ (l > 0 => Fibmap(l) # Fibmap(l - 1) + 1)
  BY DEF BlockBreaks
<1>2. PICK i \in 1 .. Len(ext) : ext[i].logical =< l /\ l < End(ext[i]) /\ l \in Nat
  BY <1>1, BlockInExtent
<1>3. ext[i].logical \in 0 .. file.size - 1 /\ file.size \in Nat /\ DOMAIN ext = 1 .. Len(ext)
      /\ Len(ext) \in Nat
  BY ExtentBlocks, FileFacts DEF DenseFile
<1>4. ext[i].logical \in Nat
  BY <1>3
<1>5. ext[i].logical < l => Fibmap(l) = Fibmap(l - 1) + 1
  BY <1>2, ExtentBlocks
<1>6. ~(ext[i].logical < l)
  BY <1>1, <1>2, <1>4, <1>5
<1>7. l = ext[i].logical
  BY <1>2, <1>4, <1>6
<1>8. i \in Records(file)
  <2>1. SUFFICES ASSUME i > 1
                 PROVE  ext[i].physical # ext[i - 1].physical + ext[i - 1].length
    BY <1>3 DEF Records
  <2>2. l > 0 /\ Fibmap(l) = ext[i].physical
        /\ Fibmap(l - 1) = ext[i - 1].physical + ext[i - 1].length - 1
    BY <1>7, <2>1, ExtentBlocks
  <2>3. i - 1 \in 1 .. Len(ext)
    BY <1>3, <2>1
  <2>4. ext[i - 1].physical \in Nat /\ ext[i - 1].length \in Nat
    BY <2>3, FileFacts, MappedFacts DEF DenseFile, MappedAt
  <2> QED
    BY <1>1, <2>2, <2>4
<1> QED
  BY <1>7, <1>8

LEMMA BreaksAreRecords ==
  ASSUME DenseFile
  PROVE  BlockBreaks(file.size) = {file.extents[i].logical : i \in Records(file)}
<1> DEFINE ext == file.extents
<1>1. ASSUME NEW i \in Records(file)
      PROVE  ext[i].logical \in BlockBreaks(file.size)
  <2>1. i \in 1 .. Len(ext) /\ Len(ext) \in Nat
    BY FileFacts DEF DenseFile, Records
  <2>2. /\ ext[i].logical \in 0 .. file.size - 1
        /\ Fibmap(ext[i].logical) = ext[i].physical
        /\ i > 1 => /\ ext[i].logical > 0
                    /\ Fibmap(ext[i].logical - 1) = ext[i - 1].physical + ext[i - 1].length - 1
        /\ i = 1 => ext[i].logical = 0
    BY <2>1, ExtentBlocks
  <2>3. CASE i = 1
    BY <2>2, <2>3 DEF BlockBreaks
  <2>4. CASE i > 1
    <3>1. i - 1 \in 1 .. Len(ext)
      BY <2>1, <2>4
    <3>2. ext[i - 1].physical \in Nat /\ ext[i - 1].length \in Nat
      BY <3>1, FileFacts, MappedFacts DEF DenseFile, MappedAt
    <3>3. ext[i].physical # ext[i - 1].physical + ext[i - 1].length
      BY <2>4 DEF Records
    <3> QED
      BY <2>2, <2>4, <3>2, <3>3 DEF BlockBreaks
  <2> QED
    BY <2>1, <2>3, <2>4
<1> QED
  BY <1>1, BreakIsLogical DEF BlockBreaks

\* A run begins with a unit.
LEMMA BreakIsAligned ==
  ASSUME DenseFile, NEW l \in BlockBreaks(file.size)
  PROVE  Fibmap(l) \in Nat /\ Fibmap(l) # 0 /\ Fibmap(l) % BlockSize = 0
<1>1. PICK i \in Records(file) : l = file.extents[i].logical
  BY BreakIsLogical
<1>2. i \in 1 .. Len(file.extents) /\ DOMAIN file.extents = 1 .. Len(file.extents)
  BY FileFacts DEF DenseFile, Records
<1>3. Fibmap(l) = file.extents[i].physical
  BY <1>1, <1>2, ExtentBlocks
<1>4. file.extents[i].physical % BlockSize = 0
  BY <1>2 DEF DenseFile, Aligned, ToSet
<1>5. l \in 0 .. file.size - 1
  BY DEF BlockBreaks
<1> QED
  BY <1>3, <1>4, <1>5, BlockInExtent

LEMMA UnitBreaksAreHeads ==
  ASSUME DenseFile
  PROVE  /\ UnitBreaks(file.size) = {file.extents[i].logical : i \in Heads(file)}
         /\ Heads(file) \subseteq Records(file)
<1> DEFINE ext == file.extents
           n == Len(ext)
<1>1. /\ n \in Nat /\ DOMAIN ext = 1 .. n /\ BlockSize \in Nat \ {0}
      /\ \A i \in 1 .. n : /\ ext[i].physical \in Nat /\ ext[i].physical # 0
                           /\ ext[i].length \in Nat \ {0}
                           /\ ext[i].physical % BlockSize = 0
  <2>1. n \in Nat /\ DOMAIN ext = 1 .. n /\ BlockSize \in Nat \ {0}
    BY FileFacts, ExtentsAssumption DEF DenseFile
  <2>2. ASSUME NEW i \in 1 .. n
        PROVE  ext[i].physical \in Nat /\ ext[i].length \in Nat \ {0}
    BY FileFacts, MappedFacts DEF DenseFile, MappedAt
  <2>3. ASSUME NEW i \in 1 .. n
        PROVE  ext[i].physical # 0 /\ ext[i].physical % BlockSize = 0
    BY <2>1 DEF DenseFile, Dense, Placed, Aligned, ToSet
  <2> QED
    BY <2>1, <2>2, <2>3
<1>2. ASSUME NEW p \in Nat, p # 0, p % BlockSize = 0
      PROVE  p \div BlockSize = (p - 1) \div BlockSize + 1
  <2>1. BlockSize \in Nat \ {0}
    BY <1>1
  <2> QED
    BY <1>2, <2>1
<1>3. Heads(file) \subseteq Records(file)
  <2>1. SUFFICES ASSUME NEW i \in Heads(file), i > 1
                 PROVE  ext[i].physical # ext[i - 1].physical + ext[i - 1].length
    BY DEF Heads, Records
  <2>2. i \in 1 .. n /\ i - 1 \in 1 .. n
    BY <1>1, <2>1 DEF Heads
  <2>3. ext[i].physical \div BlockSize #
          (ext[i - 1].physical + ext[i - 1].length - 1) \div BlockSize + 1
    BY <2>1 DEF Heads
  <2>4. ext[i].physical \div BlockSize = (ext[i].physical - 1) \div BlockSize + 1
    BY <1>1, <1>2, <2>2
  <2> DEFINE last == ext[i - 1].physical + ext[i - 1].length
  <2>5. ext[i - 1].physical + ext[i - 1].length - 1 = last - 1
    BY <1>1, <2>2
  <2> HIDE DEF last
  <2>6. ext[i].physical # last
    BY <2>3, <2>4, <2>5
  <2> QED
    BY <2>6 DEF last
<1>4. ASSUME NEW i \in Records(file)
      PROVE  ext[i].logical \in UnitBreaks(file.size) <=> i \in Heads(file)
  <2>1. i \in 1 .. n
    BY <1>1 DEF Records
  <2>2. ext[i].logical \in BlockBreaks(file.size)
    BY BreaksAreRecords
  <2>3. /\ Fibmap(ext[i].logical) = ext[i].physical
        /\ i > 1 => /\ ext[i].logical > 0
                    /\ Fibmap(ext[i].logical - 1) = ext[i - 1].physical + ext[i - 1].length - 1
        /\ i = 1 => ext[i].logical = 0
    BY <2>1, ExtentBlocks
  <2>4. CASE i = 1
    BY <1>1, <2>1, <2>2, <2>3, <2>4 DEF UnitBreaks, Heads
  <2>5. CASE i > 1
    BY <1>1, <2>1, <2>2, <2>3, <2>5 DEF UnitBreaks, Heads
  <2> QED
    BY <1>1, <2>1, <2>4, <2>5
<1>5. UnitBreaks(file.size) \subseteq BlockBreaks(file.size)
  BY DEF UnitBreaks
<1> HIDE DEF ext
<1>6. BlockBreaks(file.size) = {ext[i].logical : i \in Records(file)}
  BY BreaksAreRecords DEF ext
<1>7. UnitBreaks(file.size) = {ext[i].logical : i \in Heads(file)}
  BY <1>3, <1>4, <1>5, <1>6
<1> QED
  BY <1>3, <1>7 DEF ext

\* There are as many runs as extents they begin with.
LEMMA CountBreaks ==
  ASSUME DenseFile
  PROVE  /\ Cardinality(BlockBreaks(file.size)) =< MaxCount
         /\ Cardinality(UnitBreaks(file.size)) = FragmentsOf(file)
<1> DEFINE ext == file.extents
           n == Len(ext)
<1>1. /\ n \in Nat /\ DOMAIN ext = 1 .. n
      /\ \A i \in 1 .. n : ext[i].logical \in Nat /\ End(ext[i]) \in Nat
                           /\ ext[i].logical < End(ext[i])
      /\ \A i, j \in 1 .. n : i < j => End(ext[i]) =< ext[j].logical
  <2>1. ASSUME NEW i \in 1 .. n
        PROVE  ext[i].logical \in Nat /\ End(ext[i]) \in Nat /\ ext[i].logical < End(ext[i])
    BY FileFacts, MappedFacts DEF DenseFile, MappedAt
  <2> QED
    BY <2>1, FileFacts DEF DenseFile
<1>2. ASSUME NEW S \in SUBSET (1 .. n)
      PROVE  Cardinality({ext[i].logical : i \in S}) = Cardinality(S)
  <2> DEFINE T == {ext[i].logical : i \in S}
             f == [i \in S |-> ext[i].logical]
  <2>1. IsFiniteSet(S)
    <3>1. IsFiniteSet(1 .. n)
      BY <1>1, FS_Interval
    <3> QED
      BY <3>1, FS_Subset
  <2>2. \A i, j \in S : ext[i].logical = ext[j].logical => i = j
    <3>1. TAKE i, j \in S
    <3>2. i \in 1 .. n /\ j \in 1 .. n
      OBVIOUS
    <3>3. i < j => ext[i].logical < ext[j].logical
      BY <1>1, <3>2
    <3>4. j < i => ext[j].logical < ext[i].logical
      BY <1>1, <3>2
    <3>5. i < j \/ j < i \/ i = j
      BY <3>2, <1>1
    <3> QED
      BY <1>1, <3>2, <3>3, <3>4, <3>5
  <2>3. f \in Bijection(S, T)
    BY <2>2 DEF Bijection, Injection, Surjection, IsInjective
  <2>4. ExistsBijection(S, T)
    BY <2>3 DEF ExistsBijection
  <2> HIDE DEF T, f
  <2>5. Cardinality(S) = Cardinality(T)
    BY <2>1, <2>4, FS_Bijection
  <2> QED
    BY <2>5 DEF T
<1>3. Records(file) \in SUBSET (1 .. n) /\ Heads(file) \in SUBSET (1 .. n)
  BY <1>1 DEF Records, Heads
<1>4. Cardinality(BlockBreaks(file.size)) = Cardinality(Records(file))
  BY <1>2, <1>3, BreaksAreRecords
<1>5. Cardinality(UnitBreaks(file.size)) = Cardinality(Heads(file))
  BY <1>2, <1>3, UnitBreaksAreHeads
<1> QED
  BY <1>4, <1>5 DEF FragmentsOf, DenseFile, Dense

\* The blocks below e lie in these units; all of them in the file's.
UnitsBelow(e) == {Fibmap(l) \div BlockSize : l \in 0 .. e - 1}

LEMMA UnitsOfDense ==
  ASSUME DenseFile
  PROVE  UnitsBelow(file.size) = UnitsOf(file)
<1> DEFINE ext == file.extents
           n == Len(ext)
<1>1. DOMAIN ext = 1 .. n /\ file.size \in Nat
  BY FileFacts DEF DenseFile
<1>2. {y \in ToSet(ext) : y.physical # 0} = {ext[i] : i \in 1 .. n}
  BY <1>1 DEF DenseFile, Dense, Placed, ToSet
<1>3. UnitsOf(file) = UNION {UnitsIn(ext[i]) : i \in 1 .. n}
  <2>1. UnitsOf(file) = UNION {UnitsIn(x) : x \in {ext[i] : i \in 1 .. n}}
    BY <1>2 DEF UnitsOf
  <2> QED
    BY <2>1
<1>4. ASSUME NEW l \in 0 .. file.size - 1
      PROVE  \E i \in 1 .. n : Fibmap(l) \div BlockSize \in UnitsIn(ext[i])
  <2>1. PICK i \in 1 .. n : ext[i].logical =< l /\ l < End(ext[i]) /\ l \in Nat
    BY BlockInExtent
  <2>2. Fibmap(l) = ext[i].physical + (l - ext[i].logical)
    BY <2>1, FibmapInExtent
  <2>3. ext[i].physical \in Nat /\ ext[i].length \in Nat /\ ext[i].logical \in Nat
        /\ End(ext[i]) = ext[i].logical + ext[i].length
    BY FileFacts, MappedFacts DEF DenseFile, MappedAt, End
  <2> DEFINE p == ext[i].physical
             a == ext[i].logical
             m == ext[i].length
  <2>4. p \in Nat /\ a \in Nat /\ m \in Nat /\ a =< l /\ l < a + m /\ Fibmap(l) = p + (l - a)
    BY <2>1, <2>2, <2>3
  <2> HIDE DEF p, a, m
  <2>5. Fibmap(l) \in p .. p + m - 1
    BY <2>1, <2>4
  <2> QED
    BY <2>5 DEF UnitsIn, p, m
<1>5. ASSUME NEW i \in 1 .. n, NEW u \in UnitsIn(ext[i])
      PROVE  \E l \in 0 .. file.size - 1 : u = Fibmap(l) \div BlockSize
  <2>1. PICK b \in ext[i].physical .. ext[i].physical + ext[i].length - 1 : u = b \div BlockSize
    BY DEF UnitsIn
  <2>2. ext[i].physical \in Nat /\ ext[i].length \in Nat /\ ext[i].logical \in Nat
        /\ End(ext[i]) = ext[i].logical + ext[i].length
    BY FileFacts, MappedFacts DEF DenseFile, MappedAt, End
  <2>3. End(ext[i]) =< file.size
    BY DenseTiles
  <2> DEFINE p == ext[i].physical
             a == ext[i].logical
             m == ext[i].length
             e == End(ext[i])
             l == a + (b - p)
  <2>4. p \in Nat /\ a \in Nat /\ m \in Nat /\ b \in p .. p + m - 1 /\ e = a + m /\ e =< file.size
    BY <2>1, <2>2, <2>3
  <2> HIDE DEF p, a, m, e
  <2>5. l \in Nat /\ a =< l /\ l < e /\ p + (l - a) = b /\ l \in 0 .. file.size - 1
    BY <1>1, <2>4
  <2> HIDE DEF l
  <2>6. Fibmap(l) = p + (l - a)
    BY <2>5, FibmapInExtent DEF p, a, e
  <2> QED
    BY <2>1, <2>5, <2>6
<1>6. UnitsBelow(file.size) \subseteq UnitsOf(file)
  BY <1>3, <1>4 DEF UnitsBelow
<1>7. UnitsOf(file) \subseteq UnitsBelow(file.size)
  BY <1>3, <1>5 DEF UnitsBelow
<1> QED
  BY <1>6, <1>7

\* How the runs grow block by block.
LEMMA BreaksBelow ==
  ASSUME DenseFile, NEW e \in Nat
  PROVE  /\ IsFiniteSet(BlockBreaks(e)) /\ IsFiniteSet(UnitBreaks(e))
         /\ BlockBreaks(e) \subseteq 0 .. e - 1 /\ UnitBreaks(e) \subseteq 0 .. e - 1
         /\ e =< file.size => BlockBreaks(e) \subseteq BlockBreaks(file.size)
         /\ BlockBreaks(e + 1) = IF e > 0 /\ Fibmap(e) = Fibmap(e - 1) + 1
                                 THEN BlockBreaks(e) ELSE BlockBreaks(e) \cup {e}
<1>1. BlockBreaks(e) \subseteq 0 .. e - 1 /\ UnitBreaks(e) \subseteq 0 .. e - 1
  BY DEF BlockBreaks, UnitBreaks
<1>2. IsFiniteSet(0 .. e - 1)
  BY FS_Interval
<1>3. IsFiniteSet(BlockBreaks(e)) /\ IsFiniteSet(UnitBreaks(e))
  BY <1>1, <1>2, FS_Subset
<1>4. e =< file.size => BlockBreaks(e) \subseteq BlockBreaks(file.size)
  <2>1. file.size \in Nat
    BY FileFacts DEF DenseFile
  <2> QED
    BY <2>1 DEF BlockBreaks
<1>5. 0 .. (e + 1) - 1 = (0 .. e - 1) \cup {e}
  OBVIOUS
<1>6. BlockBreaks(e + 1) = IF e > 0 /\ Fibmap(e) = Fibmap(e - 1) + 1
                           THEN BlockBreaks(e) ELSE BlockBreaks(e) \cup {e}
  BY <1>5 DEF BlockBreaks
<1> QED
  BY <1>1, <1>3, <1>4, <1>6

-----------------------------------------------------------------------------
(* The loop over the blocks of a dense file. *)

\* The record is a run of blocks of the file, from its beginning on.
IsRun(x) ==
  /\ x.logical \in BlockBreaks(file.size)
  /\ \A l \in Nat : x.logical =< l /\ l < End(x) =>
       Fibmap(l) = x.physical + (l - x.logical)

\* The buffer holds the runs of the blocks from s to e.
Tiled(records, s, e) ==
  /\ records[1].logical = s /\ End(records[Len(records)]) = e
  /\ \A i \in 1 .. Len(records) : i > 1 => records[i].logical = End(records[i - 1])
  /\ \A i \in 1 .. Len(records) : IsRun(records[i])

\* The blocks below e, and no other, are entered.
EnteredBelow(found, e) ==
  /\ ReportedIn(found) = UnitsBelow(e)
  /\ Len(found) = Cardinality(UnitBreaks(e))
  /\ found = << >> <=> e = 0
  /\ e > 0 => Ending(found) = Fibmap(e - 1) \div BlockSize + 1

\* A run comes in: its units, and a new run of units if it does not go on where
\* the one before it ends.
LEMMA EntersRun ==
  ASSUME DenseFile, NEW found \in Seq(Found), NEW x \in Mapped,
         End(x) =< file.size, IsRun(x), EnteredBelow(found, x.logical)
  PROVE  EnteredBelow(AddExtent(found, x), End(x))
<1> DEFINE more == AddExtent(found, x)
           new == Rounded(x)
           s == x.logical
           e == End(x)
           p == x.physical
           m == x.length
<1>1. /\ s \in Nat /\ e \in Nat /\ p \in Nat /\ m \in Nat \ {0} /\ e = s + m
      /\ file.size \in Nat /\ BlockSize \in Nat \ {0} /\ MappedAt(x)
  <2>1. MappedAt(x) /\ file.size \in Nat /\ BlockSize \in Nat \ {0}
    BY MappedFacts, FileFacts, ExtentsAssumption DEF DenseFile
  <2> QED
    BY <2>1 DEF MappedAt, End
<1>2. \A l \in Nat : s =< l /\ l < e => Fibmap(l) = p + (l - s)
  BY DEF IsRun
<1>3. s \in BlockBreaks(file.size) /\ p = Fibmap(s) /\ p % BlockSize = 0
  <2>1. s \in BlockBreaks(file.size)
    BY DEF IsRun
  <2>2. Fibmap(s) % BlockSize = 0
    BY <2>1, BreakIsAligned
  <2>3. Fibmap(s) = p + (s - s)
    BY <1>1, <1>2
  <2>4. Fibmap(s) = p
    BY <1>1, <2>3
  <2> QED
    BY <2>1, <2>2, <2>4
<1>4. /\ UnitsIn(x) = Units(new)
      /\ new.start = p \div BlockSize
      /\ new.start + new.length = (p + m - 1) \div BlockSize + 1
  <2>1. Units(new) \subseteq UnitsIn(x) /\ UnitsIn(x) \subseteq Units(new)
    BY <1>1, <1>3, RoundedFacts
  <2>2. new.start + new.length = (p + m - 1) \div BlockSize + 1
    BY <1>1, <1>3, RoundedFacts
  <2>3. new.start = p \div BlockSize
    BY DEF Rounded
  <2> QED
    BY <2>1, <2>2, <2>3
<1>5. /\ more # << >>
      /\ ReportedIn(more) = ReportedIn(found) \cup Units(new)
      /\ Ending(more) = new.start + new.length
      /\ Len(more) = IF found # << >> /\ Ending(found) = new.start
                     THEN Len(found) ELSE Len(found) + 1
  BY <1>1, AddExtentFacts
<1> HIDE DEF more, new, s, e, p, m
<1>6. 0 .. e - 1 = (0 .. s - 1) \cup (s .. e - 1)
  BY <1>1
<1>7. ReportedIn(more) = UnitsBelow(e)
  <2>1. UnitsIn(x) = {Fibmap(l) \div BlockSize : l \in s .. e - 1}
    <3>1. UnitsIn(x) = {b \div BlockSize : b \in p .. p + m - 1}
      BY DEF UnitsIn, p, m
    <3>2. ASSUME NEW l \in s .. e - 1 PROVE Fibmap(l) \in p .. p + m - 1
      <4>1. l \in Nat /\ s =< l /\ l < e
        BY <1>1
      <4>2. Fibmap(l) = p + (l - s)
        BY <1>2, <4>1
      <4> QED
        BY <1>1, <4>1, <4>2
    <3>3. ASSUME NEW b \in p .. p + m - 1 PROVE \E l \in s .. e - 1 : Fibmap(l) = b
      <4> DEFINE l == s + (b - p)
      <4>1. l \in Nat /\ s =< l /\ l < e /\ p + (l - s) = b
        BY <1>1
      <4> HIDE DEF l
      <4>2. Fibmap(l) = b /\ l \in s .. e - 1
        BY <1>1, <1>2, <4>1
      <4> QED
        BY <4>2
    <3> QED
      BY <3>1, <3>2, <3>3
  <2>2. ReportedIn(found) = UnitsBelow(s)
    BY DEF EnteredBelow, s
  <2> QED
    BY <1>4, <1>5, <1>6, <2>1, <2>2 DEF UnitsBelow
<1> DEFINE starts == s > 0 => Fibmap(s) \div BlockSize # Fibmap(s - 1) \div BlockSize + 1
<1>8. UnitBreaks(e) = IF starts THEN UnitBreaks(s) \cup {s} ELSE UnitBreaks(s)
  <2>1. BlockBreaks(e) = BlockBreaks(s) \cup {s}
    <3>1. ASSUME NEW l \in BlockBreaks(e) PROVE l \in BlockBreaks(s) \/ l = s
      <4>1. l \in 0 .. e - 1 /\ (l > 0 => Fibmap(l) # Fibmap(l - 1) + 1)
        BY DEF BlockBreaks
      <4>2. CASE l < s
        BY <1>1, <4>1, <4>2 DEF BlockBreaks
      <4>3. CASE l > s
        <5>1. l \in Nat /\ l - 1 \in Nat /\ s =< l - 1 /\ l < e /\ l - 1 < e /\ s =< l
          BY <1>1, <4>1, <4>3
        <5>2. Fibmap(l) = p + (l - s) /\ Fibmap(l - 1) = p + (l - 1 - s)
          BY <1>2, <5>1
        <5> QED
          BY <1>1, <4>1, <5>1, <5>2
      <4> QED
        BY <1>1, <4>1, <4>2, <4>3
    <3>2. s \in BlockBreaks(e)
      BY <1>1, <1>3 DEF BlockBreaks
    <3>3. BlockBreaks(s) \subseteq BlockBreaks(e)
      BY <1>1 DEF BlockBreaks
    <3> QED
      BY <3>1, <3>2, <3>3
  <2> QED
    BY <2>1 DEF UnitBreaks
<1>9. Len(more) = Cardinality(UnitBreaks(e))
  <2>1. Len(found) = Cardinality(UnitBreaks(s))
    BY DEF EnteredBelow, s
  <2>2. starts <=> ~(found # << >> /\ Ending(found) = new.start)
    <3>1. found = << >> <=> s = 0
      BY DEF EnteredBelow, s
    <3>2. s > 0 => Ending(found) = Fibmap(s - 1) \div BlockSize + 1
      BY DEF EnteredBelow, s
    <3>3. s > 0 <=> s # 0
      BY <1>1
    <3>4. new.start = Fibmap(s) \div BlockSize
      BY <1>3, <1>4
    <3> QED
      BY <3>1, <3>2, <3>3, <3>4
  <2>3. Cardinality(UnitBreaks(s) \cup {s}) = Cardinality(UnitBreaks(s)) + 1
    <3>1. IsFiniteSet(UnitBreaks(s)) /\ UnitBreaks(s) \subseteq 0 .. s - 1
      BY <1>1, BreaksBelow
    <3>2. s \notin 0 .. s - 1
      BY <1>1
    <3> QED
      BY <3>1, <3>2, FS_AddElement
  <2> HIDE DEF starts
  <2> QED
    BY <1>5, <1>8, <2>1, <2>2, <2>3
<1>10. more = << >> <=> e = 0
  BY <1>1, <1>5
<1>11. Ending(more) = Fibmap(e - 1) \div BlockSize + 1
  <2>1. e - 1 \in Nat /\ s =< e - 1 /\ e - 1 < e /\ p + (e - 1 - s) = p + m - 1
    BY <1>1
  <2>2. Fibmap(e - 1) = p + (e - 1 - s)
    BY <1>2, <2>1
  <2> QED
    BY <1>4, <1>5, <2>1, <2>2
<1>12. EnteredBelow(more, e)
  BY <1>7, <1>9, <1>10, <1>11 DEF EnteredBelow
<1> QED
  BY <1>12 DEF more, e

\* The next block makes the last run longer, or begins one for which there is
\* room.
LEMMA NextBlock ==
  ASSUME DenseFile, NEW e \in Nat, e < file.size,
         NEW records \in Seq(Mapped), records # << >>,
         Tiled(records, 0, e), Len(records) = Cardinality(BlockBreaks(e))
  PROVE  LET n == Len(records)
             last == records[n]
             p == Fibmap(e)
             one == [logical |-> e, physical |-> p, length |-> 1]
             longer == [records EXCEPT ![n].length = @ + 1]
             adjacent == last.physical + last.length = p
         IN  /\ p # 0
             /\ adjacent => Tiled(longer, 0, e + 1) /\ n = Cardinality(BlockBreaks(e + 1))
             /\ ~adjacent => /\ n < MaxCount
                             /\ Tiled(Append(records, one), 0, e + 1)
                             /\ n + 1 = Cardinality(BlockBreaks(e + 1))
<1> DEFINE n == Len(records)
           last == records[n]
           p == Fibmap(e)
           one == [logical |-> e, physical |-> p, length |-> 1]
           more == [last EXCEPT !.length = @ + 1]
           longer == [records EXCEPT ![n].length = @ + 1]
           adjacent == last.physical + last.length = p
<1>1. /\ n \in Nat /\ n # 0 /\ n \in 1 .. n /\ \A i \in 1 .. n : records[i] \in Mapped
      /\ file.size \in Nat /\ e \in 0 .. file.size - 1 /\ MaxCount \in Nat
  BY FileFacts, ExtentsAssumption DEF DenseFile
<1>2. /\ last \in Mapped /\ IsRun(last) /\ End(last) = e
      /\ last.logical \in Nat /\ last.physical \in Nat /\ last.length \in Nat \ {0}
      /\ e = last.logical + last.length
  BY <1>1, MappedFacts DEF Tiled, MappedAt, End
<1>3. p # 0 /\ p \in Nat
  BY <1>1, BlockInExtent
<1>4. e > 0 /\ Fibmap(e - 1) = last.physical + last.length - 1
  <2> DEFINE a == last.logical
             q == last.physical
             m == last.length
  <2>1. a \in Nat /\ q \in Nat /\ m \in Nat \ {0} /\ e = a + m
    BY <1>2
  <2>2. \A l \in Nat : a =< l /\ l < e => Fibmap(l) = q + (l - a)
    BY <1>2 DEF IsRun
  <2> HIDE DEF a, q, m, last
  <2>3. e - 1 \in Nat /\ a =< e - 1 /\ e - 1 < e /\ q + (e - 1 - a) = q + m - 1 /\ e > 0
    BY <2>1
  <2>4. Fibmap(e - 1) = q + (e - 1 - a)
    BY <2>2, <2>3
  <2> QED
    BY <2>3, <2>4 DEF a, q, m
<1>5. adjacent <=> Fibmap(e) = Fibmap(e - 1) + 1
  <2> DEFINE q == last.physical
             m == last.length
             r == Fibmap(e - 1)
  <2>1. q \in Nat /\ m \in Nat /\ r = q + m - 1
    BY <1>2, <1>4
  <2> HIDE DEF q, m, r
  <2>2. q + m = r + 1
    BY <2>1
  <2>3. q + m = p <=> p = r + 1
    BY <2>2
  <2> QED
    BY <2>3 DEF q, m, r, p
<1>6. BlockBreaks(e + 1) = IF adjacent THEN BlockBreaks(e) ELSE BlockBreaks(e) \cup {e}
  <2>1. BlockBreaks(e + 1) = IF e > 0 /\ Fibmap(e) = Fibmap(e - 1) + 1
                             THEN BlockBreaks(e) ELSE BlockBreaks(e) \cup {e}
    BY BreaksBelow
  <2> HIDE DEF adjacent
  <2> QED
    BY <1>4, <1>5, <2>1
<1>7. ASSUME adjacent
      PROVE  Tiled(longer, 0, e + 1) /\ n = Cardinality(BlockBreaks(e + 1))
  <2>1. longer = [records EXCEPT ![n] = more]
    OBVIOUS
  <2>2. /\ more \in Mapped /\ more.logical = last.logical
        /\ more.physical = last.physical /\ more.length = last.length + 1
    BY <1>2 DEF Mapped
  <2>3. End(more) = e + 1
    BY <1>2, <2>2 DEF End
  <2>4. IsRun(more)
    <3> DEFINE a == last.logical
               q == last.physical
               m == last.length
    <3>1. a \in Nat /\ q \in Nat /\ m \in Nat \ {0} /\ e = a + m /\ q + m = p
      BY <1>2, <1>7
    <3>2. \A l \in Nat : a =< l /\ l < e => Fibmap(l) = q + (l - a)
      BY <1>2 DEF IsRun
    <3>3. a \in BlockBreaks(file.size)
      BY <1>2 DEF IsRun
    <3>4. more.logical = a /\ more.physical = q
      BY <2>2
    <3> HIDE DEF a, q, m, last, more, adjacent
    <3>5. ASSUME NEW l \in Nat, a =< l, l < e + 1 PROVE Fibmap(l) = q + (l - a)
      <4>1. l < e \/ l = e
        BY <3>5
      <4>2. l = e => Fibmap(l) = q + m /\ l - a = m
        BY <3>1 DEF p
      <4> QED
        BY <3>2, <3>5, <4>1, <4>2
    <3> QED
      BY <2>3, <3>3, <3>4, <3>5 DEF IsRun
  <2> HIDE DEF longer, more
  <2>5. Len(longer) = n /\ \A i \in 1 .. n : longer[i] = IF i = n THEN more ELSE records[i]
    BY <1>1, <2>1, <2>2, ExceptSeq
  <2>6. longer[1].logical = 0
    <3>1. 1 \in 1 .. n /\ records[1].logical = 0
      BY <1>1 DEF Tiled
    <3> QED
      BY <2>2, <2>5, <3>1
  <2>7. End(longer[Len(longer)]) = e + 1
    BY <1>1, <2>3, <2>5
  <2>8. ASSUME NEW i \in 1 .. n, i > 1 PROVE longer[i].logical = End(longer[i - 1])
    <3>1. i - 1 \in 1 .. n /\ i - 1 # n
      BY <1>1, <2>8
    <3>2. records[i].logical = End(records[i - 1])
      BY <2>8 DEF Tiled
    <3>3. longer[i].logical = records[i].logical
      BY <2>2, <2>5
    <3> QED
      BY <2>5, <3>1, <3>2, <3>3
  <2>9. \A i \in 1 .. n : IsRun(longer[i])
    BY <2>4, <2>5 DEF Tiled
  <2>10. Tiled(longer, 0, e + 1)
    BY <2>5, <2>6, <2>7, <2>8, <2>9 DEF Tiled
  <2> QED
    BY <1>6, <1>7, <2>10
<1>8. ASSUME ~adjacent
      PROVE  /\ n < MaxCount
             /\ Tiled(Append(records, one), 0, e + 1)
             /\ n + 1 = Cardinality(BlockBreaks(e + 1))
  <2> DEFINE longest == Append(records, one)
  <2>1. n + 1 = Cardinality(BlockBreaks(e + 1))
    <3>1. IsFiniteSet(BlockBreaks(e)) /\ BlockBreaks(e) \subseteq 0 .. e - 1
      BY BreaksBelow
    <3>2. e \notin 0 .. e - 1
      OBVIOUS
    <3>3. Cardinality(BlockBreaks(e) \cup {e}) = Cardinality(BlockBreaks(e)) + 1
      BY <3>1, <3>2, FS_AddElement
    <3> QED
      BY <1>6, <1>8, <3>3
  <2>2. n < MaxCount
    <3> DEFINE f == e + 1
    <3>1. f \in Nat /\ f =< file.size
      BY <1>1
    <3> HIDE DEF f
    <3>2. BlockBreaks(f) \subseteq BlockBreaks(file.size)
      BY <3>1, BreaksBelow
    <3>3. IsFiniteSet(BlockBreaks(file.size))
      BY <1>1, BreaksBelow
    <3>4. Cardinality(BlockBreaks(f)) =< Cardinality(BlockBreaks(file.size))
          /\ Cardinality(BlockBreaks(file.size)) \in Nat
      BY <3>2, <3>3, FS_Subset, FS_CardinalityType
    <3>5. Cardinality(BlockBreaks(file.size)) =< MaxCount
      BY CountBreaks
    <3> HIDE DEF n
    <3> QED
      BY <1>1, <2>1, <3>4, <3>5 DEF f
  <2>3. one \in Mapped /\ one.logical = e /\ one.physical = p /\ End(one) = e + 1
    BY <1>3 DEF Mapped, End
  <2>4. IsRun(one)
    <3>1. e \in BlockBreaks(file.size)
      BY <1>1, <1>5, <1>8 DEF BlockBreaks
    <3>2. ASSUME NEW l \in Nat, e =< l, l < e + 1 PROVE Fibmap(l) = p + (l - e)
      <4>1. l = e
        BY <3>2
      <4> QED
        BY <1>3, <4>1
    <3> HIDE DEF one
    <3> QED
      BY <2>3, <3>1, <3>2 DEF IsRun
  <2> HIDE DEF one, n
  <2>5. Len(longest) = n + 1 /\ longest[n + 1] = one /\ \A i \in 1 .. n : longest[i] = records[i]
    BY <2>3 DEF n
  <2> HIDE DEF longest
  <2>6. longest[1].logical = 0
    <3>1. 1 \in 1 .. n /\ records[1].logical = 0
      BY <1>1 DEF Tiled
    <3> QED
      BY <2>5, <3>1
  <2>7. ASSUME NEW i \in 1 .. n + 1, i > 1 PROVE longest[i].logical = End(longest[i - 1])
    <3>1. i - 1 \in 1 .. n
      BY <1>1, <2>7
    <3>2. CASE i = n + 1
      <4>1. i - 1 = n
        BY <1>1, <3>2
      <4> QED
        BY <1>1, <1>2, <2>3, <2>5, <3>2, <4>1
    <3>3. CASE i # n + 1
      <4>1. i \in 1 .. n
        BY <1>1, <3>3
      <4>2. records[i].logical = End(records[i - 1])
        BY <2>7, <4>1 DEF Tiled, n
      <4> QED
        BY <2>5, <3>1, <4>1, <4>2
    <3> QED
      BY <3>2, <3>3
  <2>8. ASSUME NEW i \in 1 .. n + 1 PROVE IsRun(longest[i])
    <3>1. i = n + 1 \/ i \in 1 .. n
      BY <1>1
    <3> QED
      BY <2>4, <2>5, <3>1 DEF Tiled, n
  <2>9. Tiled(longest, 0, e + 1)
    BY <2>3, <2>5, <2>6, <2>7, <2>8 DEF Tiled
  <2> QED
    BY <2>1, <2>2, <2>9 DEF longest
<1> QED
  BY <1>3, <1>7, <1>8

\* While a dense file stands still, fibmap_fallback goes through all its blocks
\* in one call, and the loop takes the runs it finds.
BlocksSoFar ==
  supports = {"FIBMAP"} /\ StoodStill /\ Aligned(file) /\ Dense(file) =>
    /\ block_count = file.size
    /\ pc \in {"open", "ask"} =>
         fm_start \in {0, file.size} /\ EnteredBelow(extents, fm_start)
    /\ pc = "fibmap" =>
         /\ extents = << >> /\ k =< file.size
         /\ Tiled(batch, 0, k) /\ Len(batch) = Cardinality(BlockBreaks(k))
    /\ pc = "take" =>
         /\ Tiled(batch, batch[1].logical, file.size)
         /\ EnteredBelow(extents, batch[1].logical)
    /\ pc = "done" => EnteredBelow(extents, file.size)

\* Nothing is entered yet.
LEMMA NothingEntered ==
  /\ UnitsBelow(0) = {} /\ UnitBreaks(0) = {}
  /\ EnteredBelow(<< >>, 0)
<1>1. UnitsBelow(0) = {} /\ UnitBreaks(0) = {}
  BY DEF UnitsBelow, UnitBreaks, BlockBreaks
<1>2. ReportedIn(<< >>) = {}
  BY DEF ReportedIn, ToSet
<1>3. Len(<< >>) = 0 /\ Cardinality({}) = 0
  BY FS_EmptySet
<1>4. ~(0 > 0)
  OBVIOUS
<1> QED
  BY <1>1, <1>2, <1>3, <1>4 DEF EnteredBelow

\* What the invariant says of a file does not change while the file does not.
LEMMA SameFile ==
  ASSUME UNCHANGED file
  PROVE  /\ DenseFile' <=> DenseFile
         /\ \A b : Fibmap(b)' = Fibmap(b)
         /\ \A e : BlockBreaks(e)' = BlockBreaks(e)
         /\ \A found, e : EnteredBelow(found, e)' <=> EnteredBelow(found, e)
         /\ \A records, s, e : Tiled(records, s, e)' <=> Tiled(records, s, e)
<1>1. DenseFile' <=> DenseFile
  BY DEF DenseFile, Aligned, Dense, Placed, Records
<1>2. \A b : Fibmap(b)' = Fibmap(b)
  BY DEF Fibmap
<1>3. \A e : BlockBreaks(e)' = BlockBreaks(e)
  BY <1>2 DEF BlockBreaks
<1>4. \A e : UnitBreaks(e)' = UnitBreaks(e) /\ UnitsBelow(e)' = UnitsBelow(e)
  BY <1>2, <1>3 DEF UnitBreaks, UnitsBelow
<1>5. \A found, e : EnteredBelow(found, e)' <=> EnteredBelow(found, e)
  BY <1>2, <1>4 DEF EnteredBelow
<1>6. \A x : IsRun(x)' <=> IsRun(x)
  BY <1>2, <1>3 DEF IsRun
<1>7. \A records, s, e : Tiled(records, s, e)' <=> Tiled(records, s, e)
  BY <1>6 DEF Tiled
<1> QED
  BY <1>1, <1>2, <1>3, <1>5, <1>7

LEMMA InitBlocks == Init => BlocksSoFar
BY NothingEntered DEF Init, BlocksSoFar

\* A call begins with the first block, or finds that all of them are entered.
LEMMA AskBlocks ==
  ASSUME IInv, BlocksSoFar, Ask
  PROVE  BlocksSoFar'
<1> SUFFICES ASSUME supports = {"FIBMAP"}, StoodStill, DenseFile
             PROVE  BlocksSoFar'
  <2>1. UNCHANGED <<file, supports, seen>> /\ file \in Files
    BY DEF Ask, IInv, TypeOK
  <2> QED
    BY <2>1 DEF BlocksSoFar, StoodStill, DenseFile, Aligned, Dense, Placed, Records
<1>1. /\ UNCHANGED <<file, supports, block_count, fm_start, extents, seen>> /\ pc = "ask"
      /\ FibmapFallback \/ (pc' = "skipped" /\ UNCHANGED <<batch, k>>)
  BY DEF Ask
<1>2. /\ block_count = file.size /\ fm_start \in {0, file.size} /\ file.size \in Nat
      /\ EnteredBelow(extents, fm_start)
  BY <1>1, FileFacts DEF BlocksSoFar, DenseFile
<1>5. CASE pc' = "skipped" /\ UNCHANGED <<batch, k>>
  BY <1>1, <1>2, <1>5, SameFile DEF BlocksSoFar
<1>3. CASE fm_start >= block_count /\ NoneLeft
  <2>1. fm_start = file.size /\ pc' = "done"
    BY <1>2, <1>3 DEF NoneLeft
  <2>2. EnteredBelow(extents', file'.size)
    BY <1>1, <1>2, <2>1
  <2> QED
    BY <1>1, <1>2, <2>1, <2>2, SameFile DEF BlocksSoFar
<1>4. CASE /\ fm_start < block_count
           /\ batch' = <<[logical |-> fm_start, physical |-> Fibmap(0), length |-> 1]>>
           /\ k' = fm_start + 1
           /\ pc' = "fibmap"
  <2> DEFINE one == [logical |-> 0, physical |-> Fibmap(0), length |-> 1]
  <2>1. fm_start = 0 /\ 0 < file.size /\ k' = 1 /\ batch' = <<one>>
    BY <1>2, <1>4
  <2>2. extents' = << >>
    BY <1>1, <1>2, <2>1 DEF EnteredBelow
  <2>3. BlockBreaks(1) = {0}
    BY DEF BlockBreaks
  <2>4. Fibmap(0) \in Nat /\ 0 \in BlockBreaks(file.size)
    <3>1. 0 \in 0 .. file.size - 1
      BY <1>2, <2>1
    <3> QED
      BY <3>1, BlockInExtent DEF BlockBreaks
  <2>5. one.logical = 0 /\ one.physical = Fibmap(0) /\ End(one) = 1
    BY DEF End
  <2>6. IsRun(one)
    <3>1. \A l \in Nat : 0 =< l /\ l < 1 => Fibmap(l) = Fibmap(0) + (l - 0)
      <4>1. TAKE l \in Nat
      <4>2. 0 =< l /\ l < 1 => l = 0
        OBVIOUS
      <4> QED
        BY <2>4, <4>2
    <3> HIDE DEF one
    <3> QED
      BY <2>4, <2>5, <3>1 DEF IsRun
  <2> HIDE DEF one
  <2>7. Len(batch') = 1 /\ batch'[1] = one
    BY <2>1
  <2>8. Tiled(batch', 0, 1)
    <3>1. \A i \in 1 .. 1 : i = 1
      OBVIOUS
    <3> QED
      BY <2>5, <2>6, <2>7, <3>1 DEF Tiled
  <2>9. Cardinality(BlockBreaks(1)) = 1
    BY <2>3, FS_Singleton
  <2>10. /\ extents' = << >> /\ k' =< file'.size
         /\ Tiled(batch', 0, k') /\ Len(batch') = Cardinality(BlockBreaks(k'))
    BY <1>1, <1>2, <2>1, <2>2, <2>7, <2>8, <2>9
  <2> QED
    BY <1>1, <1>2, <1>4, <2>10, SameFile DEF BlocksSoFar
<1> QED
  BY <1>1, <1>3, <1>4, <1>5 DEF FibmapFallback

\* The loop over the blocks never breaks before the last one.
LEMMA FibmapBlockBlocks ==
  ASSUME IInv, BlocksSoFar, FibmapBlock
  PROVE  BlocksSoFar'
<1> SUFFICES ASSUME supports = {"FIBMAP"}, StoodStill, DenseFile
             PROVE  BlocksSoFar'
  <2>1. UNCHANGED <<file, supports, seen>> /\ file \in Files
    BY DEF FibmapBlock, IInv, TypeOK
  <2> QED
    BY <2>1 DEF BlocksSoFar, StoodStill, DenseFile, Aligned, Dense, Placed, Records
<1> DEFINE p == Fibmap(k)
           n == Len(batch)
           last == batch[n]
           adjacent == last.physical + last.length = p
           one == [logical |-> k, physical |-> p, length |-> 1]
           longer == [batch EXCEPT ![n].length = @ + 1]
<1>1. UNCHANGED <<file, supports, block_count, fm_start, extents, seen>> /\ pc = "fibmap"
  BY DEF FibmapBlock
<1>2. /\ block_count = file.size /\ file.size \in Nat /\ k \in Nat /\ k =< file.size
      /\ extents = << >> /\ Tiled(batch, 0, k) /\ n = Cardinality(BlockBreaks(k))
      /\ batch \in Seq(Mapped) /\ batch # << >>
  BY <1>1, FileFacts DEF BlocksSoFar, DenseFile, IInv, TypeOK, BatchIsNext
<1>3. k < file.size =>
        /\ p # 0
        /\ adjacent => Tiled(longer, 0, k + 1) /\ n = Cardinality(BlockBreaks(k + 1))
        /\ ~adjacent => /\ n < MaxCount
                        /\ Tiled(Append(batch, one), 0, k + 1)
                        /\ n + 1 = Cardinality(BlockBreaks(k + 1))
  BY <1>2, NextBlock
<1> HIDE DEF p, adjacent, one, longer
<1>4. CASE /\ k < block_count => p # 0 /\ ~adjacent /\ ~Room
           /\ pc' = "take"
           /\ UNCHANGED <<batch, k>>
  <2>1. k = file.size
    BY <1>2, <1>3, <1>4 DEF Room
  <2>2. Tiled(batch', batch'[1].logical, file'.size) /\ batch'[1].logical = 0
    BY <1>1, <1>2, <1>4, <2>1 DEF Tiled
  <2>3. EnteredBelow(extents', batch'[1].logical)
    BY <1>1, <1>2, <2>2, NothingEntered
  <2> QED
    BY <1>1, <1>2, <1>4, <2>2, <2>3, SameFile DEF BlocksSoFar
<1>5. CASE /\ k < block_count /\ adjacent /\ batch' = longer
           /\ k' = k + 1 /\ UNCHANGED pc
  <2>1. Len(batch') = n
    BY <1>2, <1>5 DEF longer
  <2>2. /\ extents' = << >> /\ k' =< file'.size
        /\ Tiled(batch', 0, k') /\ Len(batch') = Cardinality(BlockBreaks(k'))
    BY <1>1, <1>2, <1>3, <1>5, <2>1
  <2> QED
    BY <1>1, <1>2, <1>5, <2>2, SameFile DEF BlocksSoFar
<1>6. CASE /\ k < block_count /\ ~adjacent /\ batch' = Append(batch, one)
           /\ k' = k + 1 /\ UNCHANGED pc
  <2>1. Len(batch') = n + 1
    BY <1>2, <1>6
  <2>2. /\ extents' = << >> /\ k' =< file'.size
        /\ Tiled(batch', 0, k') /\ Len(batch') = Cardinality(BlockBreaks(k'))
    BY <1>1, <1>2, <1>3, <1>6, <2>1
  <2> QED
    BY <1>1, <1>2, <1>6, <2>2, SameFile DEF BlocksSoFar
<1>7. CASE k < block_count /\ p = 0
  BY <1>2, <1>3, <1>7
<1>8. CASE pc' = "skipped" /\ UNCHANGED <<batch, k>>
  BY <1>1, <1>2, <1>8, SameFile DEF BlocksSoFar
<1> QED
  BY <1>4, <1>5, <1>6, <1>7, <1>8 DEF FibmapBlock, p, adjacent, one, longer

\* The loop over the buffer takes one run after another.
LEMMA TakeBlocks ==
  ASSUME IInv, BlocksSoFar, Take
  PROVE  BlocksSoFar'
<1> SUFFICES ASSUME supports = {"FIBMAP"}, StoodStill, DenseFile
             PROVE  BlocksSoFar'
  <2>1. UNCHANGED <<file, supports, seen>> /\ file \in Files
    BY DEF Take, IInv, TypeOK
  <2> QED
    BY <2>1 DEF BlocksSoFar, StoodStill, DenseFile, Aligned, Dense, Placed, Records
<1> DEFINE x == Head(batch)
           n == Len(batch)
<1>1. /\ UNCHANGED <<file, supports, block_count, k, seen>> /\ pc = "take"
      /\ extents' = AddExtent(extents, x) /\ batch' = Tail(batch)
      /\ n = 1 => fm_start' = End(x) /\ pc' = "ask"
      /\ n # 1 => UNCHANGED <<fm_start, pc>>
  BY DEF Take, StartsNext
<1>2. /\ batch # << >> /\ batch \in Seq(Mapped) /\ n \in Nat /\ n # 0
      /\ extents \in Seq(Found) /\ block_count = file.size /\ file.size \in Nat
      /\ Tiled(batch, batch[1].logical, file.size)
      /\ EnteredBelow(extents, batch[1].logical)
  BY <1>1, FileFacts DEF IInv, TypeOK, BatchIsNext, Found, BlocksSoFar, DenseFile
<1>3. x = batch[1] /\ 1 \in 1 .. n /\ x \in Mapped /\ End(x) \in Nat /\ IsRun(x)
  BY <1>2, MappedFacts DEF Tiled
<1>4. /\ Len(batch') = n - 1
      /\ \A i \in 1 .. n - 1 : batch'[i] = batch[i + 1]
  BY <1>1, <1>2, HeadTailProperties
<1>5. n = 1 => End(x) = file.size
  BY <1>2, <1>3 DEF Tiled
<1>6. n > 1 => 2 \in 1 .. n /\ batch[2].logical = End(x)
  <2>1. n > 1 => 2 \in 1 .. n /\ 2 - 1 = 1
    BY <1>2
  <2>2. \A i \in 1 .. n : i > 1 => batch[i].logical = End(batch[i - 1])
    BY <1>2 DEF Tiled
  <2>3. n > 1 => batch[2].logical = End(batch[2 - 1])
    BY <2>1, <2>2
  <2> QED
    BY <1>3, <2>1, <2>3
<1>7. End(x) =< file.size
  <2>1. CASE n = 1
    BY <1>2, <1>5, <2>1
  <2>2. CASE n # 1
    <3> HIDE DEF x, n
    <3>1. 2 \in 1 .. n /\ batch[2].logical = End(x)
      BY <1>2, <1>6, <2>2
    <3>2. batch[2].logical \in BlockBreaks(file.size)
      BY <1>2, <3>1 DEF Tiled, IsRun, n
    <3> QED
      BY <1>2, <1>3, <3>1, <3>2 DEF BlockBreaks
  <2> QED
    BY <2>1, <2>2
<1>8. EnteredBelow(extents', End(x))
  BY <1>1, <1>2, <1>3, <1>7, EntersRun
<1> HIDE DEF x, n
<1>9. CASE n = 1
  <2>1. fm_start' \in {0, file'.size} /\ EnteredBelow(extents', fm_start')
    BY <1>1, <1>5, <1>8, <1>9
  <2> QED
    BY <1>1, <1>2, <1>9, <2>1, SameFile DEF BlocksSoFar
<1>10. CASE n # 1
  <2>1. 1 \in 1 .. n - 1 /\ batch'[1] = batch[2] /\ batch'[1].logical = End(x)
    <3>1. 1 \in 1 .. n - 1 /\ 1 + 1 = 2 /\ n > 1
      BY <1>2, <1>10
    <3> QED
      BY <1>4, <1>6, <3>1
  <2>2. End(batch'[Len(batch')]) = file.size
    <3>1. n - 1 \in 1 .. n - 1 /\ n - 1 + 1 = n
      BY <1>2, <1>10
    <3> QED
      BY <1>2, <1>4, <3>1 DEF Tiled, n
  <2>3. ASSUME NEW i \in 1 .. n - 1, i > 1
        PROVE  batch'[i].logical = End(batch'[i - 1])
    <3>1. i - 1 \in 1 .. n - 1 /\ i - 1 + 1 = i /\ i + 1 \in 1 .. n /\ i + 1 > 1 /\ i + 1 - 1 = i
      BY <1>2, <2>3
    <3>2. batch[i + 1].logical = End(batch[i + 1 - 1])
      BY <1>2, <3>1 DEF Tiled, n
    <3>3. batch'[i] = batch[i + 1] /\ batch'[i - 1] = batch[i]
      BY <1>4, <3>1
    <3> QED
      BY <3>1, <3>2, <3>3
  <2>4. ASSUME NEW i \in 1 .. n - 1 PROVE IsRun(batch'[i])
    <3>1. i + 1 \in 1 .. n
      BY <1>2
    <3> QED
      BY <1>2, <1>4, <3>1 DEF Tiled, n
  <2>5. Tiled(batch', batch'[1].logical, file.size)
    BY <1>4, <2>2, <2>3, <2>4 DEF Tiled
  <2>6. EnteredBelow(extents', batch'[1].logical)
    BY <1>8, <2>1
  <2>7. Tiled(batch', batch'[1].logical, file'.size)
    BY <1>1, <2>5
  <2> QED
    BY <1>1, <1>2, <1>10, <2>6, <2>7, SameFile DEF BlocksSoFar
<1> QED
  BY <1>9, <1>10

LEMMA NextBlocks ==
  ASSUME IInv, BlocksSoFar, [Next]_vars
  PROVE  BlocksSoFar'
<1>1. CASE Open \/ UNCHANGED vars
  <2>1. /\ UNCHANGED <<file, supports, block_count, fm_start, batch, k, extents, seen>>
        /\ \/ UNCHANGED pc
           \/ pc = "open" /\ pc' \in {"ask", "skipped"}
    BY <1>1 DEF Open, vars
  <2>2. (Aligned(file)' <=> Aligned(file)) /\ (Dense(file)' <=> Dense(file))
    BY <2>1 DEF Aligned, Dense, Placed, Records
  <2>3. StoodStill' <=> StoodStill
    BY <2>1 DEF StoodStill
  <2> QED
    BY <2>1, <2>2, <2>3, SameFile DEF BlocksSoFar
<1>2. CASE FileChanges
  <2>1. /\ UNCHANGED <<supports, block_count, pc, fm_start, batch, k, extents>>
        /\ seen' = seen \cup {file'}
    BY <1>2 DEF FileChanges
  <2>2. SUFFICES ASSUME StoodStill' PROVE BlocksSoFar'
    BY DEF BlocksSoFar
  <2>3. file' = file /\ StoodStill
    BY <2>1, <2>2 DEF StoodStill, IInv, BatchWasInFile
  <2>4. Aligned(file)' = Aligned(file) /\ Dense(file)' = Dense(file)
    BY <2>3 DEF Aligned, Dense, Placed, Records
  <2> QED
    BY <2>1, <2>3, <2>4, SameFile DEF BlocksSoFar
<1> QED
  BY <1>1, <1>2, AskBlocks, FibmapBlockBlocks, TakeBlocks DEF Next

\* FIBMAP finds what FIEMAP would of a file without holes whose runs fit the
\* buffer, whatever the size of the buffer (fibmap_fallback,
\* clusters.cc:313-367).
THEOREM FibmapReportsDenseFile == Spec => []FibmapIsExactWhenDense
<1>1. IInv /\ BlocksSoFar => FibmapIsExactWhenDense
  <2>1. SUFFICES ASSUME IInv, BlocksSoFar, pc = "done", supports = {"FIBMAP"}, StoodStill,
                        Aligned(file), Dense(file)
                 PROVE  IsExact
    BY DEF FibmapIsExactWhenDense
  <2>2. DenseFile
    BY <2>1 DEF DenseFile, IInv, TypeOK
  <2>3. EnteredBelow(extents, file.size)
    BY <2>1 DEF BlocksSoFar
  <2>4. Reported = UnitsOf(file)
    BY <2>2, <2>3, UnitsOfDense, ReportedFacts DEF EnteredBelow
  <2>5. Len(extents) = FragmentsOf(file)
    BY <2>2, <2>3, CountBreaks DEF EnteredBelow
  <2> QED
    BY <2>4, <2>5 DEF IsExact
<1>2. Spec => []BlocksSoFar
  BY Invariant, InitBlocks, NextBlocks, PTL DEF Spec
<1> QED
  BY <1>1, <1>2, Invariant, PTL
=============================================================================
