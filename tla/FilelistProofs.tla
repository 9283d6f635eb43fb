---------------------------- MODULE FilelistProofs ----------------------------
(***************************************************************************)
(* Proofs about Filelist, for any columns and any rows.                    *)
(***************************************************************************)
EXTENDS Filelist, TLAPS

\* What the handler remembers, what the headers show and what the store sorts
\* by are copies of one another: the arrow says nothing of the rows by itself,
\* but the store has their order, and the store is set with the arrow.
IInv ==
  /\ last_column \in Columns \cup {None}
  /\ arrow \in [Columns -> Orders]
  /\ indicator = {last_column} \ {None}
  /\ sort.column = last_column
  /\ last_column # None => sort.order = arrow[last_column]
  /\ InOrder(rows, sort)

\* The handler leaves the copies the same.
LEMMA ClickIInv ==
  ASSUME IInv, NEW c \in Columns, OnFilelistHeaderClicked(c)
  PROVE  IInv'
<1>1. c # None /\ DefaultOrder(c) \in Orders /\ \A o \in Orders : Reversed(o) \in Orders
  BY FilelistAssumption DEF DefaultOrder, Reversed, Orders
<1>2. PICK order \in Orders : SetOrder(c, order)
  <2>1. CASE c = last_column
    <3>1. Reversed(arrow[c]) \in Orders
      BY <1>1 DEF IInv
    <3> QED
      BY <2>1, <3>1 DEF OnFilelistHeaderClicked
  <2>2. CASE c # last_column
    BY <1>1, <2>2 DEF OnFilelistHeaderClicked
  <2> QED
    BY <2>1, <2>2
<1>3. last_column' = c
  BY DEF OnFilelistHeaderClicked
<1>4. arrow' \in [Columns -> Orders] /\ arrow'[c] = order
  BY <1>2 DEF IInv, SetOrder
<1>5. indicator' = {c}
  BY <1>1 DEF IInv, OnFilelistHeaderClicked
<1>6. sort'.column = c /\ sort'.order = order
  BY <1>2 DEF SetOrder
<1>7. InOrder(rows', sort')
  BY <1>2 DEF SetOrder, Arranged
<1>8. InOrder(rows, sort)'
  BY <1>7 DEF InOrder
<1> QED
  BY <1>1, <1>3, <1>4, <1>5, <1>6, <1>8 DEF IInv

\* Filling the list leaves the copies alone, and the store sorts what is new.
LEMMA RelistIInv ==
  ASSUME IInv, NEW files, Relist(files)
  PROVE  IInv'
<1>1. InOrder(rows', sort)
  BY DEF Relist, Arranged
<1>2. InOrder(rows, sort)'
  BY <1>1 DEF Relist, InOrder
<1> QED
  BY <1>2 DEF Relist, IInv

\* The invariant holds in every state of the list.
LEMMA SpecIInv == Spec => []IInv
<1>1. Init => IInv
  BY FilelistAssumption DEF Init, IInv, InOrder, Orders
<1>2. IInv /\ [Next]_vars => IInv'
  <2> SUFFICES ASSUME IInv, [Next]_vars PROVE IInv'
    OBVIOUS
  <2>1. CASE UNCHANGED vars
    BY <2>1 DEF vars, IInv, InOrder
  <2> QED
    BY <2>1, ClickIInv, RelistIInv DEF Next
<1> QED
  BY <1>1, <1>2, PTL DEF Spec

\* filelist-widget.cc:116-142: the arrow tells the order of the rows, for any
\* columns and however many rows there are.
THEOREM ArrowsTellTheOrder == Spec => []ArrowTellsOrder
<1>1. IInv => ArrowTellsOrder
  <2> SUFFICES ASSUME IInv, NEW c \in indicator
               PROVE  InOrder(rows, [column |-> c, order |-> arrow[c]])
    BY DEF IInv, ArrowTellsOrder
  <2>1. c = last_column /\ c # None
    BY DEF IInv
  <2> QED
    BY <2>1 DEF IInv, InOrder
<1> QED
  BY <1>1, SpecIInv, PTL
=============================================================================
