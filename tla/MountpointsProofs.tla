-------------------------- MODULE MountpointsProofs --------------------------
(***************************************************************************)
(* Theorems about Mountpoints, for any mount points and file systems.      *)
(***************************************************************************)
EXTENDS Mountpoints, SequenceTheorems, TLAPS

\* What is selected, or was, is a row of the dialog that is open.
IInv ==
  /\ TypeOK
  /\ open => selected_path \in Offered \cup {NoPath}

\* The constructor lists lines of the table.
LEMMA PopulatedType ==
  ASSUME NEW table \in Seq(Mounts), Len(table) =< MaxMounts
  PROVE  /\ DOMAIN Populated(table) \subseteq 1 .. MaxMounts
         /\ \A i \in DOMAIN Populated(table) :
              Populated(table)[i] \in [point : Points, type : {s.type : s \in Systems}]
<1>1. DOMAIN table = 1 .. Len(table) /\ Len(table) \in Nat
  OBVIOUS
<1>2. \A i \in 1 .. Len(table) : table[i] \in Mounts
  OBVIOUS
<1>3. \A m \in Mounts : m.point \in Points /\ m.type \in {s.type : s \in Systems}
  BY DEF Mounts
<1>4. \A i \in 1 .. Len(table) :
        [point |-> table[i].point, type |-> table[i].type]
          \in [point : Points, type : {s.type : s \in Systems}]
  BY <1>2, <1>3
<1>5. DOMAIN Populated(table) \subseteq 1 .. Len(table)
  BY <1>1 DEF Populated
<1>6. \A i \in DOMAIN Populated(table) :
        Populated(table)[i] = [point |-> table[i].point, type |-> table[i].type]
  BY DEF Populated
<1> QED
  BY <1>1, <1>4, <1>5, <1>6, MountpointsAssumption

LEMMA InitIInv == Init => IInv
<1> SUFFICES ASSUME Init PROVE IInv
  OBVIOUS
<1>1. rows = << >> /\ DOMAIN rows = {}
  BY DEF Init
<1>2. mounts \in Seq(Mounts) /\ Len(mounts) =< MaxMounts
  BY MountpointsAssumption DEF Init
<1>3. TypeOK
  BY <1>1, <1>2 DEF Init, TypeOK
<1> QED
  BY <1>3 DEF Init, IInv

\* The table stays a table of mounts.
LEMMA ChangeMountsIInv ==
  ASSUME IInv, ChangeMounts
  PROVE  IInv'
<1>1. UNCHANGED <<open, rows, selection, selected_path, scanned>>
  BY DEF ChangeMounts
<1>2. mounts \in Seq(Mounts) /\ Len(mounts) \in Nat /\ Len(mounts) =< MaxMounts
  BY DEF IInv, TypeOK
<1>3. mounts' \in Seq(Mounts) /\ Len(mounts') =< MaxMounts
  <2>1. ASSUME NEW point \in Points, NEW s \in Systems, Len(mounts) < MaxMounts,
               mounts' = Append(mounts, [point |-> point, type |-> s.type,
                                         blocks |-> s.blocks])
        PROVE  mounts' \in Seq(Mounts) /\ Len(mounts') =< MaxMounts
    <3>1. [point |-> point, type |-> s.type, blocks |-> s.blocks] \in Mounts
      BY DEF Mounts
    <3> QED
      BY <1>2, <2>1, <3>1, MountpointsAssumption
  <2>2. ASSUME NEW i \in DOMAIN mounts, mounts' = RemoveAt(mounts, i)
        PROVE  mounts' \in Seq(Mounts) /\ Len(mounts') =< MaxMounts
    <3>1. i \in 1 .. Len(mounts) /\ i - 1 \in Int /\ i + 1 \in Int
      BY <1>2
    <3> DEFINE before == SubSeq(mounts, 1, i - 1)
               after == SubSeq(mounts, i + 1, Len(mounts))
    <3>2. /\ \A k \in 1 .. i - 1 : mounts[k] \in Mounts
          /\ \A k \in i + 1 .. Len(mounts) : mounts[k] \in Mounts
      BY <1>2, <3>1
    <3>3. before \in Seq(Mounts) /\ Len(before) = i - 1
      BY <1>2, <3>1, <3>2, SubSeqProperties
    <3>4. after \in Seq(Mounts) /\ Len(after) = Len(mounts) - i
      BY <1>2, <3>1, <3>2, SubSeqProperties
    <3>5. mounts' = before \o after
      BY <2>2 DEF RemoveAt
    <3> HIDE DEF before, after
    <3>6. mounts' \in Seq(Mounts) /\ Len(mounts') = Len(mounts) - 1
      BY <1>2, <3>1, <3>3, <3>4, <3>5
    <3> QED
      BY <1>2, <3>6, MountpointsAssumption
  <2> QED
    BY <2>1, <2>2 DEF ChangeMounts
<1> QED
  BY <1>1, <1>3 DEF IInv, TypeOK, Offered

\* A new dialog shows the table as it is, and nothing is selected in it.
LEMMA OpenIInv ==
  ASSUME IInv, Open
  PROVE  IInv'
<1>1. rows' = Populated(mounts) /\ selection' = 0 /\ selected_path' = NoPath
  BY DEF Open
<1>2. TypeOK'
  BY <1>1, PopulatedType DEF IInv, TypeOK, Open
<1> QED
  BY <1>1, <1>2 DEF IInv

LEMMA OnListSelectionChangedIInv ==
  ASSUME IInv, OnListSelectionChanged
  PROVE  IInv'
<1>1. PICK i \in {0} \cup DOMAIN rows : selection' = i /\ selected_path' = SelectedPath(i)
  BY DEF OnListSelectionChanged
<1>2. open /\ UNCHANGED <<mounts, open, rows, scanned>>
  BY DEF OnListSelectionChanged
<1>3. selected_path' \in Offered \cup {NoPath}
  BY <1>1, <1>2 DEF SelectedPath, IInv, TypeOK, Offered
<1>4. Offered \subseteq Points
  BY DEF IInv, TypeOK, Offered
<1> QED
  BY <1>1, <1>2, <1>3, <1>4 DEF IInv, TypeOK, Offered

\* The dialog goes, in whatever way, and what it answers is in it.
LEMMA CloseIInv ==
  ASSUME IInv, OnListRowActivated \/ Ok \/ Cancel
  PROVE  IInv' /\ (scanned' # scanned => scanned' \in Offered \cup {NoPath})
<1>1. open /\ open' = FALSE /\ rows' = << >> /\ selection' = 0 /\ UNCHANGED mounts
  BY DEF OnListRowActivated, Ok, Cancel, Close
<1>2. selected_path' \in Offered \cup {NoPath} /\ scanned' \in {scanned, selected_path'}
  BY DEF OnListRowActivated, Ok, Cancel, IInv, TypeOK, Offered
<1>3. Offered \subseteq Points
  BY DEF IInv, TypeOK, Offered
<1>4. DOMAIN rows' = {}
  BY <1>1
<1>5. TypeOK'
  BY <1>1, <1>2, <1>3, <1>4 DEF IInv, TypeOK
<1> QED
  BY <1>1, <1>2, <1>5 DEF IInv, TypeOK

LEMMA NextIInv ==
  ASSUME IInv, [Next]_vars
  PROVE  IInv' /\ (scanned' # scanned => scanned' \in Offered \cup {NoPath})
<1>1. CASE UNCHANGED vars
  BY <1>1 DEF vars, IInv, TypeOK, Offered
<1>2. CASE ChangeMounts \/ Open \/ OnListSelectionChanged
  <2>1. scanned' = scanned
    BY <1>2 DEF ChangeMounts, Open, OnListSelectionChanged
  <2> QED
    BY <1>2, <2>1, ChangeMountsIInv, OpenIInv, OnListSelectionChangedIInv
<1> QED
  BY <1>1, <1>2, CloseIInv DEF Next

LEMMA Invariant == Spec => []IInv
<1> QED
  BY InitIInv, NextIInv, PTL DEF Spec

-----------------------------------------------------------------------------
\* The dialog lists mount points and selects among what it lists
\* (mountpoint-select-dialog.cc:90-160).
THEOREM DialogTypes == Spec => []TypeOK
<1>1. IInv => TypeOK
  BY DEF IInv
<1> QED
  BY <1>1, Invariant, PTL

\* Whatever is mounted and unmounted meanwhile, the path that is scanned is
\* one this very dialog showed, or none (fragview.cc:165-172).
THEOREM OnlyOfferedIsScanned == Spec => ScansOnlyOffered
<1>1. ASSUME IInv, [Next]_vars
      PROVE  [scanned' # scanned => scanned' \in Offered \cup {NoPath}]_vars
  BY <1>1, NextIInv
<1> QED
  BY <1>1, Invariant, PTL DEF Spec, ScansOnlyOffered
=============================================================================
