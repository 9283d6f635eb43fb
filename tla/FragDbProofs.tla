---------------------------- MODULE FragDbProofs ----------------------------
(***************************************************************************)
(* Theorems about FragDb, for any number of runs of fragdb, any command    *)
(* lines and any results of their walks: the locks keep the table a list   *)
(* reads, and what a scan does to the database is what ScanStore says.     *)
(***************************************************************************)
EXTENDS FragDb, SequenceTheorems, TLAPS

Writing == {"reserved", "pending", "exclusive"}

\* The lock a process holds is that of the place it is at.
LocksByPlace ==
  \A p \in Procs :
    /\ pc[p] = "rows" => lock[p] = "shared"
    /\ pc[p] \in {"walk", "insert"} => lock[p] \in Writing
    /\ pc[p] \notin {"rows", "walk", "insert"} => lock[p] = "none"

\* One process writes at most, and while it writes to the file none reads.
OneWriter ==
  \A p, q \in Procs : p # q =>
    /\ lock[p] \in Writing => lock[q] \notin Writing
    /\ lock[p] = "exclusive" => lock[q] = "none"

\* A connection knows the tables from the statement it has prepared or the
\* commit it has made on, and those it reads from are still in the file.
KnowsTables ==
  \A p \in Procs :
    /\ pc[p] \in {"off", "create", "walk", "insert", "prepare"} => cookie[p] = 0
    /\ pc[p] \in {"first", "rows"} => cookie[p] # 0
    /\ pc[p] = "rows" => cookie[p] = Len(tables)

\* Rows are printed while there is a statement that gives them, and a process
\* has an exit status once it has ended.
PrintsRows ==
  \A p \in Procs :
    /\ printed[p] # << >> => pc[p] \in {"rows", "ended"} /\ cookie[p] # 0
    /\ code[p] # "none" <=> pc[p] = "ended"

\* A transaction holds rows of the walk of its own scan, and the table that a
\* scan has committed is what this walk has found.
ScansStoreFound ==
  \A p \in Procs :
    /\ pc[p] \in {"create", "walk", "insert"} => cmd[p].name = "scan"
    /\ cmd[p].name = "scan" => pc[p] # "prepare"
    /\ pending[p] \subseteq found[p].files
    /\ pc[p] # "insert" => pending[p] = {}
    /\ found[p].files \in Walks \cup {{}}
    /\ cmd[p].name = "scan" /\ cookie[p] # 0 => tables[cookie[p]] = found[p].files

IInv ==
  /\ TypeOK /\ LocksByPlace /\ OneWriter /\ KnowsTables /\ PrintsRows
  /\ ScansStoreFound /\ ListsOneScan

-----------------------------------------------------------------------------
(* The steps. *)

\* What a run that ends with 0 has printed is all that was asked for.
Complete(p) ==
  printed[p] # << >> =>
    \/ Len(printed[p]) = Limit(cmd[p])
    \/ ToSet(printed[p]) = Matching(cmd[p], tables[cookie[p]])

\* Before anything has happened no lock is held and nothing is known.
LEMMA InitIInv == Init => IInv
<1> SUFFICES ASSUME Init PROVE IInv
  OBVIOUS
<1>1. tables \in Seq(SUBSET Results) /\ Len(tables) \in Nat
  <2>1. CASE tables = << >>
    BY <2>1
  <2>2. ASSUME NEW w \in Walks, tables = <<w>> PROVE tables \in Seq(SUBSET Results)
    BY <2>2 DEF Results
  <2> QED
    BY <2>1, <2>2 DEF Init
<1>2. TypeOK
  BY <1>1 DEF Init, TypeOK, Locks, Places, Codes
<1>3. LocksByPlace /\ OneWriter
  BY DEF Init, LocksByPlace, OneWriter, Writing
<1>4. KnowsTables /\ PrintsRows /\ ScansStoreFound /\ ListsOneScan
  BY DEF Init, KnowsTables, PrintsRows, ScansStoreFound, ListsOneScan
<1> QED
  BY <1>2, <1>3, <1>4 DEF IInv

\* A process that ends, in whatever way, leaves the others as they are.
LEMMA ExitIInv ==
  ASSUME IInv, NEW p \in Procs, NEW status \in Codes \ {"none"},
         Exit(p, status), status = "0" => Complete(p)
  PROVE  IInv'
<1> USE DEF Exit, Goes, Locked
<1>1. TypeOK'
  BY DEF IInv, TypeOK, Places, Locks, Codes
<1>2. LocksByPlace'
  BY DEF IInv, TypeOK, LocksByPlace, Writing
<1>3. OneWriter'
  BY DEF IInv, TypeOK, OneWriter, Writing
<1>4. KnowsTables'
  BY DEF IInv, TypeOK, KnowsTables
<1>5. PrintsRows'
  BY DEF IInv, TypeOK, PrintsRows
<1>6. ScansStoreFound'
  BY DEF IInv, TypeOK, ScansStoreFound
<1>7. ListsOneScan'
  BY DEF IInv, TypeOK, ListsOneScan, Complete
<1> QED
  BY <1>1, <1>2, <1>3, <1>4, <1>5, <1>6, <1>7 DEF IInv

\* main up to the call of scan or of a report ends or goes on.
LEMMA StartIInv ==
  ASSUME IInv, NEW p \in Procs, Start(p)
  PROVE  IInv'
<1>1. pc[p] = "off" /\ Complete(p)
  BY DEF Start, IInv, PrintsRows, Complete
<1>2. CASE \E status \in {"0", "1", "2", "signal"} : Exit(p, status)
  BY <1>1, <1>2, ExitIInv DEF Codes
<1>3. CASE /\ cmd[p].name \in {"scan"} \cup Listings
           /\ Goes(p, IF cmd[p].name = "scan" THEN "create" ELSE "prepare")
           /\ UNCHANGED <<tables, lock, cmd, found, pending, cookie, printed, code>>
  <2> USE <1>1, <1>3 DEF Goes
  <2>1. TypeOK'
    BY DEF IInv, TypeOK, Places
  <2>2. LocksByPlace' /\ OneWriter'
    BY DEF IInv, TypeOK, LocksByPlace, OneWriter
  <2>3. KnowsTables' /\ PrintsRows'
    BY DEF IInv, TypeOK, KnowsTables, PrintsRows
  <2>4. ScansStoreFound'
    BY DEF IInv, TypeOK, ScansStoreFound
  <2>5. ListsOneScan'
    BY DEF IInv, ListsOneScan
  <2> QED
    BY <2>1, <2>2, <2>3, <2>4, <2>5 DEF IInv
<1> QED
  BY <1>2, <1>3 DEF Start

\* The lock for writing is taken where no other process has one.
LEMMA CreateTablesIInv ==
  ASSUME IInv, NEW p \in Procs, CreateTables(p)
  PROVE  IInv'
<1>1. pc[p] = "create" /\ Complete(p)
  BY DEF CreateTables, Reserve, IInv, PrintsRows, Complete
<1>2. CASE Exit(p, "1")
  BY <1>1, <1>2, ExitIInv DEF Codes
<1>3. CASE Reserve(p)
  <2> USE <1>1, <1>3 DEF Reserve, Goes, Locked
  <2>1. TypeOK'
    BY DEF IInv, TypeOK, Places, Locks
  <2>2. LocksByPlace'
    BY DEF IInv, TypeOK, LocksByPlace, Writing
  <2>3. OneWriter'
    <3>1. \A q \in Procs : q # p => lock[q] \notin Writing
      BY DEF CanWrite, Others, Writing
    <3> QED
      BY <3>1 DEF IInv, TypeOK, OneWriter, Writing
  <2>4. KnowsTables' /\ PrintsRows'
    BY DEF IInv, TypeOK, KnowsTables, PrintsRows
  <2>5. ScansStoreFound'
    BY DEF IInv, TypeOK, ScansStoreFound
  <2>6. ListsOneScan'
    BY DEF IInv, ListsOneScan
  <2> QED
    BY <2>1, <2>2, <2>3, <2>4, <2>5, <2>6 DEF IInv
<1> QED
  BY <1>2, <1>3 DEF CreateTables

\* The walk of a scan replaces what it has found, before anything is inserted.
LEMMA WalkIInv ==
  ASSUME IInv, NEW p \in Procs, Walk(p)
  PROVE  IInv'
<1> USE DEF Walk, Goes
<1>1. PICK result \in [ok : {TRUE}, files : Walks] \cup {[ok |-> FALSE, files |-> {}]} :
        found' = [found EXCEPT ![p] = result]
  OBVIOUS
<1>2. /\ result \in [ok : BOOLEAN, files : SUBSET Results]
      /\ result.files \in Walks \cup {{}}
  <2>1. \A w \in Walks : w \in SUBSET Results
    BY DEF Results
  <2>2. CASE result \in [ok : {TRUE}, files : Walks]
    BY <2>1, <2>2
  <2>3. CASE result = [ok |-> FALSE, files |-> {}]
    BY <2>3
  <2> QED
    BY <2>2, <2>3
<1>3. TypeOK'
  BY <1>1, <1>2 DEF IInv, TypeOK, Places
<1>4. LocksByPlace' /\ OneWriter'
  BY DEF IInv, TypeOK, LocksByPlace, OneWriter
<1>5. KnowsTables' /\ PrintsRows'
  BY DEF IInv, TypeOK, KnowsTables, PrintsRows
<1>6. ScansStoreFound'
  BY <1>1, <1>2 DEF IInv, TypeOK, ScansStoreFound, KnowsTables
<1>7. ListsOneScan'
  BY DEF IInv, ListsOneScan
<1> QED
  BY <1>3, <1>4, <1>5, <1>6, <1>7 DEF IInv

\* A part of the transaction is written to the file only while nobody reads.
LEMMA SpillIInv ==
  ASSUME IInv, NEW p \in Procs, Spill(p)
  PROVE  IInv'
<1> USE DEF Spill, Locked
<1>1. TypeOK'
  BY DEF IInv, TypeOK, Locks
<1>2. LocksByPlace'
  BY DEF IInv, TypeOK, LocksByPlace, Writing
<1>3. OneWriter'
  <2>1. lock[p] \in Writing
    BY DEF IInv, LocksByPlace
  <2>2. Alone(p) => \A q \in Procs : q # p => lock[q] = "none"
    BY DEF Alone, Others
  <2> QED
    BY <2>1, <2>2 DEF IInv, TypeOK, OneWriter, Writing
<1>4. KnowsTables' /\ PrintsRows' /\ ScansStoreFound'
  BY DEF IInv, KnowsTables, PrintsRows, ScansStoreFound
<1>5. ListsOneScan'
  BY DEF IInv, ListsOneScan
<1> QED
  BY <1>1, <1>2, <1>3, <1>4, <1>5 DEF IInv

\* A row more of those the walk has found.
LEMMA InsertIInv ==
  ASSUME IInv, NEW p \in Procs, Insert(p)
  PROVE  IInv'
<1>1. pc[p] = "insert" /\ Complete(p)
  BY DEF Insert, IInv, PrintsRows, Complete
<1>2. CASE Exit(p, "1")
  BY <1>1, <1>2, ExitIInv DEF Codes
<1>3. ASSUME NEW item \in ToInsert(p),
             pending' = [pending EXCEPT ![p] = @ \cup {item}],
             UNCHANGED <<tables, lock, pc, cmd, found, cookie, printed, code>>
      PROVE  IInv'
  <2> USE <1>1, <1>3
  <2>1. TypeOK'
    BY DEF IInv, TypeOK, ToInsert
  <2>2. LocksByPlace' /\ OneWriter' /\ KnowsTables' /\ PrintsRows'
    BY DEF IInv, LocksByPlace, OneWriter, KnowsTables, PrintsRows
  <2>3. ScansStoreFound'
    BY DEF IInv, TypeOK, ScansStoreFound, ToInsert
  <2>4. ListsOneScan'
    BY DEF IInv, ListsOneScan
  <2> QED
    BY <2>1, <2>2, <2>3, <2>4 DEF IInv
<1> QED
  BY <1>2, <1>3 DEF Insert

\* A commit happens while nobody reads, and leaves the tables before it as
\* they were.
LEMMA CommitIInv ==
  ASSUME IInv, NEW p \in Procs, Commit(p)
  PROVE  IInv'
<1>1. pc[p] = "insert" /\ Complete(p) /\ ToInsert(p) = {}
  BY DEF Commit, IInv, PrintsRows, Complete
<1>2. CASE Exit(p, "1")
  BY <1>1, <1>2, ExitIInv DEF Codes
<1>3. CASE Alone(p) /\ Committed(p, "first")
  <2> USE <1>1, <1>3 DEF Committed, Goes, Locked
  <2>1. tables \in Seq(SUBSET Results) /\ pending[p] \in SUBSET Results
    BY DEF IInv, TypeOK
  <2>2. /\ tables' \in Seq(SUBSET Results)
        /\ Len(tables') = Len(tables) + 1 /\ Len(tables) \in Nat
        /\ tables'[Len(tables')] = pending[p]
        /\ \A i \in 1 .. Len(tables) : tables'[i] = tables[i]
    BY <2>1
  <2>3. \A q \in Procs : q # p => lock[q] = "none"
    BY DEF Alone, Others
  <2>4. TypeOK'
    BY <2>2 DEF IInv, TypeOK, Places, Locks
  <2>5. LocksByPlace'
    BY DEF IInv, TypeOK, LocksByPlace
  <2>6. OneWriter'
    BY DEF IInv, TypeOK, OneWriter, Writing
  <2>7. KnowsTables'
    BY <2>2, <2>3 DEF IInv, TypeOK, KnowsTables, LocksByPlace
  <2>8. PrintsRows'
    BY DEF IInv, TypeOK, PrintsRows
  <2>9. ScansStoreFound'
    <3>1. pending[p] = found[p].files
      BY DEF IInv, ScansStoreFound, ToInsert
    <3>2. \A q \in Procs : cookie[q] # 0 => cookie[q] \in 1 .. Len(tables)
      BY <2>2 DEF IInv, TypeOK
    <3> QED
      BY <2>2, <3>1, <3>2 DEF IInv, TypeOK, ScansStoreFound
  <2>10. ListsOneScan'
    <3>1. ASSUME NEW q \in Procs, printed[q] # << >>
          PROVE  q # p /\ cookie'[q] = cookie[q] /\ cookie[q] \in 1 .. Len(tables)
      <4>1. q # p /\ cookie[q] # 0
        BY <3>1 DEF IInv, PrintsRows
      <4>2. cookie[q] \in 0 .. Len(tables) /\ cookie'[q] = cookie[q]
        BY <4>1 DEF IInv, TypeOK
      <4> QED
        BY <2>2, <4>1, <4>2
    <3>2. \A q \in Procs : printed[q] # << >> => tables'[cookie'[q]] = tables[cookie[q]]
      BY <2>2, <3>1
    <3> QED
      BY <3>2 DEF IInv, ListsOneScan
  <2> QED
    BY <2>4, <2>5, <2>6, <2>7, <2>8, <2>9, <2>10 DEF IInv
<1> QED
  BY <1>2, <1>3 DEF Commit

\* A statement that is prepared knows the tables of the moment.
LEMMA PrepareIInv ==
  ASSUME IInv, NEW p \in Procs, Prepare(p)
  PROVE  IInv'
<1>1. pc[p] = "prepare" /\ Complete(p)
  BY DEF Prepare, IInv, PrintsRows, Complete
<1>2. CASE Exit(p, "0")
  BY <1>1, <1>2, ExitIInv DEF Codes
<1>3. CASE /\ tables # << >>
           /\ cookie' = [cookie EXCEPT ![p] = Len(tables)]
           /\ Goes(p, "first")
           /\ UNCHANGED <<tables, lock, cmd, found, pending, printed, code>>
  <2> USE <1>1, <1>3 DEF Goes
  <2>1. tables \in Seq(SUBSET Results) /\ Len(tables) \in Nat /\ Len(tables) # 0
    BY DEF IInv, TypeOK
  <2>2. TypeOK'
    BY <2>1 DEF IInv, TypeOK, Places
  <2>3. LocksByPlace' /\ OneWriter'
    BY DEF IInv, TypeOK, LocksByPlace, OneWriter
  <2>4. KnowsTables' /\ PrintsRows'
    BY <2>1 DEF IInv, TypeOK, KnowsTables, PrintsRows
  <2>5. ScansStoreFound'
    BY DEF IInv, TypeOK, ScansStoreFound
  <2>6. ListsOneScan'
    BY DEF IInv, TypeOK, ListsOneScan, PrintsRows
  <2> QED
    BY <2>2, <2>3, <2>4, <2>5, <2>6 DEF IInv
<1> QED
  BY <1>2, <1>3 DEF Prepare

\* The first row is read if the tables are those the statement knows.
LEMMA FirstStepIInv ==
  ASSUME IInv, NEW p \in Procs, FirstStep(p)
  PROVE  IInv'
<1>1. pc[p] = "first" /\ Complete(p)
  BY DEF FirstStep, IInv, PrintsRows, Complete
<1>2. CASE Exit(p, "0")
  BY <1>1, <1>2, ExitIInv DEF Codes
<1>3. CASE /\ CanRead(p) /\ cookie[p] = Len(tables)
           /\ Locked(p, "shared")
           /\ Goes(p, "rows")
           /\ UNCHANGED <<tables, cmd, found, pending, cookie, printed, code>>
  <2> USE <1>1, <1>3 DEF Goes, Locked
  <2>1. TypeOK'
    BY DEF IInv, TypeOK, Places, Locks
  <2>2. LocksByPlace'
    BY DEF IInv, TypeOK, LocksByPlace
  <2>3. OneWriter'
    <3>1. \A q \in Procs : q # p => lock[q] # "exclusive"
      BY DEF CanRead, Others
    <3> QED
      BY <3>1 DEF IInv, TypeOK, OneWriter, Writing
  <2>4. KnowsTables' /\ PrintsRows'
    BY DEF IInv, TypeOK, KnowsTables, PrintsRows
  <2>5. ScansStoreFound'
    BY DEF IInv, TypeOK, ScansStoreFound
  <2>6. ListsOneScan'
    BY DEF IInv, ListsOneScan
  <2> QED
    BY <2>1, <2>2, <2>3, <2>4, <2>5, <2>6 DEF IInv
<1> QED
  BY <1>2, <1>3 DEF FirstStep

-----------------------------------------------------------------------------
(* Lists. *)

\* The keys of rows can be compared.
LEMMA KeyType ==
  ASSUME NEW c, NEW r \in Results
  PROVE  Key(c, r) \in Nat
BY FragDbAssumption DEF Key

\* Appending a row adds it to those that are printed.
LEMMA ToSetAppend ==
  ASSUME NEW s \in Seq(Results), NEW r \in Results
  PROVE  ToSet(Append(s, r)) = ToSet(s) \cup {r}
<1>1. /\ Len(s) \in Nat /\ DOMAIN s = 1 .. Len(s)
      /\ DOMAIN Append(s, r) = 1 .. Len(s) + 1
      /\ Append(s, r)[Len(s) + 1] = r
      /\ \A i \in 1 .. Len(s) : Append(s, r)[i] = s[i]
  OBVIOUS
<1> QED
  BY <1>1 DEF ToSet

\* The largest of the rows that are left continues a list.
LEMMA HeadsGrow ==
  ASSUME NEW c, NEW table \in SUBSET Results, NEW s \in Seq(Results),
         Heads(c, s, table),
         NEW r \in Matching(c, table) \ ToSet(s),
         \A x \in Matching(c, table) \ ToSet(s) : Key(c, r) >= Key(c, x)
  PROVE  Heads(c, Append(s, r), table)
<1> DEFINE t == Append(s, r)
           n == Len(s)
<1>1. r \in Results /\ r \in Matching(c, table)
  BY DEF Matching
<1>2. /\ n \in Nat /\ DOMAIN s = 1 .. n /\ DOMAIN t = 1 .. n + 1
      /\ t[n + 1] = r
      /\ \A i \in 1 .. n : t[i] = s[i]
  BY <1>1
<1>3. ToSet(t) = ToSet(s) \cup {r}
  BY <1>1, ToSetAppend
<1>4. \A i \in 1 .. n : s[i] \in ToSet(s)
  BY <1>2 DEF ToSet
<1>5. \A i \in 1 .. n : Key(c, s[i]) >= Key(c, r)
  BY <1>2 DEF Heads
<1>6. ToSet(t) \subseteq Matching(c, table)
  BY <1>1, <1>3 DEF Heads
<1>7. IsInjective(t)
  <2> SUFFICES ASSUME NEW i \in 1 .. n + 1, NEW j \in 1 .. n + 1, t[i] = t[j]
               PROVE  i = j
    BY <1>2 DEF IsInjective
  <2>1. CASE i \in 1 .. n /\ j \in 1 .. n
    BY <2>1, <1>2 DEF Heads, IsInjective
  <2>2. CASE i = n + 1 \/ j = n + 1
    BY <2>2, <1>2, <1>4
  <2> QED
    BY <2>1, <2>2, <1>2
<1>8. Sorted(c, t)
  <2> SUFFICES ASSUME NEW i \in 1 .. n + 1, NEW j \in 1 .. n + 1, i < j
               PROVE  Key(c, t[i]) >= Key(c, t[j])
    BY <1>2 DEF Sorted
  <2>1. CASE j \in 1 .. n
    BY <2>1, <1>2 DEF Heads, Sorted
  <2>2. CASE j = n + 1
    BY <2>2, <1>2, <1>5
  <2> QED
    BY <2>1, <2>2, <1>2
<1>9. ASSUME NEW x \in Matching(c, table) \ ToSet(t), NEW i \in 1 .. n + 1
      PROVE  Key(c, t[i]) >= Key(c, x)
  <2>1. x \in Matching(c, table) \ ToSet(s)
    BY <1>3
  <2>2. CASE i \in 1 .. n
    BY <2>1, <2>2, <1>2 DEF Heads
  <2>3. CASE i = n + 1
    BY <2>1, <2>3, <1>2
  <2> QED
    BY <2>2, <2>3, <1>2
<1> QED
  BY <1>2, <1>6, <1>7, <1>8, <1>9 DEF Heads

\* A list that has not begun is the head of every list.
LEMMA HeadsEmpty ==
  ASSUME NEW c, NEW table
  PROVE  Heads(c, << >>, table)
BY DEF Heads, ToSet, IsInjective, Sorted

\* A row is printed from the table the list was begun on, since nobody can
\* have replaced it.
LEMMA NextRowIInv ==
  ASSUME IInv, NEW p \in Procs, NextRow(p)
  PROVE  IInv'
<1>1. pc[p] = "rows"
  BY DEF NextRow, PrintRow, EndRows
<1>2. /\ tables \in Seq(SUBSET Results) /\ cookie[p] \in 1 .. Len(tables)
      /\ Last(tables) = tables[cookie[p]]
      /\ tables[cookie[p]] \in SUBSET Results
      /\ printed[p] \in Seq(Results)
  BY <1>1 DEF IInv, TypeOK, KnowsTables, Last
<1>3. Heads(cmd[p], printed[p], tables[cookie[p]])
  BY HeadsEmpty DEF IInv, ListsOneScan
<1>4. CASE EndRows(p)
  <2>1. Complete(p)
    <3>1. CASE Left(p) = {}
      <4>1. ToSet(printed[p]) = Matching(cmd[p], tables[cookie[p]])
        BY <3>1, <1>2, <1>3 DEF Left, Heads
      <4> QED
        BY <4>1 DEF Complete
    <3>2. CASE Len(printed[p]) = Limit(cmd[p])
      BY <3>2 DEF Complete
    <3> QED
      BY <1>4, <3>1, <3>2 DEF EndRows
  <2> QED
    BY <1>4, <2>1, ExitIInv DEF EndRows, Codes
<1>5. CASE PrintRow(p) /\ UNCHANGED lock
  <2>1. PICK r \in Left(p) : /\ \A x \in Left(p) : Key(cmd[p], r) >= Key(cmd[p], x)
                             /\ Prints(p, r)
    BY <1>5 DEF PrintRow
  <2>2. UNCHANGED <<tables, lock, pc, cmd, found, pending, cookie, code>>
    BY <1>5 DEF PrintRow
  <2>3. r \in Matching(cmd[p], tables[cookie[p]]) \ ToSet(printed[p]) /\ r \in Results
    BY <1>2 DEF Left, Matching
  <2>4. printed' = [printed EXCEPT ![p] = Append(printed[p], r)]
    BY <2>1 DEF Prints
  <2>5. TypeOK'
    BY <2>2, <2>3, <2>4 DEF IInv, TypeOK
  <2>6. LocksByPlace' /\ OneWriter' /\ KnowsTables' /\ ScansStoreFound'
    BY <2>2 DEF IInv, LocksByPlace, OneWriter, KnowsTables, ScansStoreFound
  <2>7. PrintsRows'
    BY <2>2, <2>4, <1>1, <1>2 DEF IInv, TypeOK, PrintsRows
  <2>8. ListsOneScan'
    <3>1. Heads(cmd[p], Append(printed[p], r), tables[cookie[p]])
      BY <2>1, <2>3, <1>2, <1>3, HeadsGrow DEF Left
    <3>2. code[p] = "none"
      BY <1>1 DEF IInv, PrintsRows
    <3> QED
      BY <2>2, <2>4, <3>1, <3>2 DEF IInv, TypeOK, ListsOneScan
  <2> QED
    BY <2>5, <2>6, <2>7, <2>8 DEF IInv
<1> QED
  BY <1>4, <1>5 DEF NextRow

\* IInv is inductive.
LEMMA NextIInv == IInv /\ [Next]_vars => IInv'
<1> SUFFICES ASSUME IInv, [Next]_vars PROVE IInv'
  OBVIOUS
<1>1. CASE UNCHANGED vars
  BY <1>1 DEF vars, IInv, TypeOK, LocksByPlace, OneWriter, KnowsTables,
              PrintsRows, ScansStoreFound, ListsOneScan
<1>2. ASSUME NEW p \in Procs, Step(p) PROVE IInv'
  BY <1>2, StartIInv, CreateTablesIInv, WalkIInv, InsertIInv, CommitIInv,
     PrepareIInv, FirstStepIInv, NextRowIInv DEF Step
<1>3. ASSUME NEW p \in Procs, Spill(p) PROVE IInv'
  BY <1>3, SpillIInv
<1>4. ASSUME NEW p \in Procs, Kill(p) PROVE IInv'
  BY <1>4, ExitIInv DEF Kill, Codes
<1> QED
  BY <1>1, <1>2, <1>3, <1>4 DEF Next

LEMMA SpecIInv == Spec => []IInv
BY InitIInv, NextIInv, PTL DEF Spec

-----------------------------------------------------------------------------
(* Theorems. *)

\* Every variable keeps its type, for any number of runs of fragdb.
THEOREM TypeCorrect == Spec => []TypeOK
BY SpecIInv, PTL DEF IInv

\* fragdb.cc:124-221: what a run prints is the head of the list of one
\* committed table, and all of it once it ends by itself.
THEOREM EachListIsOfOneScan == Spec => []ListsOneScan
BY SpecIInv, PTL DEF IInv

\* fragdb.cc:252: a scan prints of what it has found itself, although another
\* one may have committed before it prints.
THEOREM EachScanListsItsOwn == Spec => []ScanListsItsOwn
<1>1. IInv => ScanListsItsOwn
  <2> SUFFICES ASSUME IInv, NEW p \in Procs, cmd[p].name = "scan"
               PROVE  ToSet(printed[p]) \subseteq found[p].files
    BY DEF ScanListsItsOwn
  <2>1. CASE printed[p] = << >>
    BY <2>1 DEF ToSet
  <2>2. CASE printed[p] # << >>
    <3>1. tables[cookie[p]] = found[p].files
      BY <2>2 DEF IInv, PrintsRows, ScansStoreFound
    <3> QED
      BY <2>2, <3>1 DEF IInv, ListsOneScan, Heads, Matching
  <2> QED
    BY <2>1, <2>2
<1> QED
  BY <1>1, SpecIInv, PTL

-----------------------------------------------------------------------------
(* FragDb implements ScanStore. *)

\* The results a report would list.
Listable == IF tables = << >> THEN {} ELSE Last(tables)

\* What becomes of a scan in a step of its process, the results unchanged.
LEMMA QuietStep ==
  ASSUME NEW p \in Procs,
         \A q \in Procs \ {p} : Fate(q)' = Fate(q),
         UNCHANGED tables,
         \/ Fate(p)' = Fate(p)
         \/ Fate(p) = "running" /\ Fate(p)' = "failed"
         \/ Fate(p) = "stored" /\ Fate(p)' = "succeeded"
  PROVE  [Store!Next]_(Store!storeVars)
<1>1. Listable' = Listable
  BY DEF Listable, Last
<1>2. [q \in Procs |-> Fate(q)]' = [[q \in Procs |-> Fate(q)] EXCEPT ![p] = Fate(p)']
  OBVIOUS
<1>3. CASE Fate(p)' = Fate(p)
  <2>1. [q \in Procs |-> Fate(q)]' = [q \in Procs |-> Fate(q)]
    BY <1>2, <1>3
  <2> QED
    BY <1>1, <2>1 DEF Store!storeVars, Listable
<1>4. CASE Fate(p) = "running" /\ Fate(p)' = "failed"
  <2>1. Store!Fail(p)
    BY <1>1, <1>2, <1>4 DEF Store!Fail, Store!Becomes, Listable
  <2> QED
    BY <2>1 DEF Store!Next
<1>5. CASE Fate(p) = "stored" /\ Fate(p)' = "succeeded"
  <2>1. Store!Succeed(p)
    BY <1>1, <1>2, <1>5 DEF Store!Succeed, Store!Becomes, Listable
  <2> QED
    BY <2>1 DEF Store!Next
<1> QED
  BY <1>3, <1>4, <1>5

\* A step of p that leaves the exit status and the tables p knows alone does
\* not change what has become of any scan.
LEMMA SameFate ==
  ASSUME IInv, NEW p \in Procs, pc[p] # "ended", UNCHANGED <<tables, cmd, code>>,
         \A q \in Procs \ {p} : pc'[q] = pc[q] /\ cookie'[q] = cookie[q],
         pc'[p] # "ended", cmd[p].name = "scan" => cookie'[p] = cookie[p]
  PROVE  [Store!Next]_(Store!storeVars)
<1>1. \A q \in Procs : Fate(q)' = Fate(q)
  BY DEF Fate
<1> QED
  BY <1>1, QuietStep

\* A scan that has stored nothing fails if it ends, and one that has stored
\* its results succeeds if it ends by itself.
LEMMA ExitImplements ==
  ASSUME IInv, NEW p \in Procs, pc[p] # "ended",
         NEW status \in Codes \ {"none"}, Exit(p, status),
         cmd[p].name = "scan" => (status = "0" <=> cookie[p] # 0 /\ status # "signal")
  PROVE  [Store!Next]_(Store!storeVars)
<1>1. /\ code[p] = "none" /\ code' = [code EXCEPT ![p] = status]
      /\ pc' = [pc EXCEPT ![p] = "ended"]
      /\ UNCHANGED <<tables, cmd, cookie>>
      /\ code \in [Procs -> Codes] /\ pc \in [Procs -> Places]
  BY DEF Exit, Goes, IInv, PrintsRows, TypeOK
<1>2. \A q \in Procs \ {p} : Fate(q)' = Fate(q)
  BY <1>1 DEF Fate
<1>3. \/ Fate(p)' = Fate(p)
      \/ Fate(p) = "running" /\ Fate(p)' = "failed"
      \/ Fate(p) = "stored" /\ Fate(p)' = "succeeded"
  BY <1>1 DEF Fate
<1> QED
  BY <1>1, <1>2, <1>3, QuietStep

\* The commit of a scan stores all that its walk has found.
LEMMA CommitImplements ==
  ASSUME IInv, NEW p \in Procs, Commit(p)
  PROVE  [Store!Next]_(Store!storeVars)
<1>1. /\ pc[p] = "insert" /\ cookie[p] = 0 /\ code[p] = "none"
      /\ cmd[p].name = "scan"
      /\ pending[p] = found[p].files /\ found[p].files \in Walks \cup {{}}
  BY DEF Commit, ToInsert, IInv, KnowsTables, PrintsRows, ScansStoreFound
<1>2. CASE Exit(p, "1")
  BY <1>1, <1>2, ExitImplements DEF Codes
<1>3. CASE Committed(p, "first")
  <2>1. tables \in Seq(SUBSET Results) /\ pending[p] \in SUBSET Results
    BY DEF IInv, TypeOK
  <2>2. Listable' = pending[p] /\ Len(tables') # 0
    BY <1>3, <2>1 DEF Committed, Listable, Last
  <2>3. /\ cookie' = [cookie EXCEPT ![p] = Len(tables')]
        /\ pc' = [pc EXCEPT ![p] = "first"]
        /\ UNCHANGED <<cmd, code>>
        /\ cookie \in [Procs -> 0 .. Len(tables)] /\ pc \in [Procs -> Places]
    BY <1>3 DEF Committed, Goes, IInv, TypeOK
  <2>4. Fate(p) = "running" /\ Fate(p)' = "stored"
    BY <1>1, <2>2, <2>3 DEF Fate
  <2>5. \A q \in Procs \ {p} : Fate(q)' = Fate(q)
    BY <2>3 DEF Fate
  <2>6. [q \in Procs |-> Fate(q)]' = [[q \in Procs |-> Fate(q)] EXCEPT ![p] = "stored"]
    BY <2>4, <2>5
  <2>7. Store!Store(p)
    BY <1>1, <2>2, <2>4, <2>6 DEF Store!Store, Store!Becomes, Listable
  <2> QED
    BY <2>7 DEF Store!Next
<1> QED
  BY <1>2, <1>3 DEF Commit

\* Every step is a step of ScanStore or leaves its state as it is.
LEMMA StepImplements ==
  ASSUME IInv, [Next]_vars
  PROVE  [Store!Next]_(Store!storeVars)
<1>1. CASE UNCHANGED vars
  <2>1. Listable' = Listable /\ [q \in Procs |-> Fate(q)]' = [q \in Procs |-> Fate(q)]
    BY <1>1 DEF vars, Listable, Last, Fate
  <2> QED
    BY <2>1 DEF Store!storeVars, Listable
<1>2. ASSUME NEW p \in Procs, Kill(p) PROVE [Store!Next]_(Store!storeVars)
  BY <1>2, ExitImplements DEF Kill, Codes
<1>3. ASSUME NEW p \in Procs, Spill(p) PROVE [Store!Next]_(Store!storeVars)
  BY <1>3, SameFate DEF Spill
<1>4. ASSUME NEW p \in Procs, Start(p) PROVE [Store!Next]_(Store!storeVars)
  <2>1. pc[p] = "off" /\ cookie[p] = 0 /\ pc \in [Procs -> Places]
    BY <1>4 DEF Start, IInv, KnowsTables, TypeOK
  <2>2. CASE \E status \in {"1", "2"} : Exit(p, status)
    BY <2>1, <2>2, ExitImplements DEF Codes
  <2>3. CASE cmd[p].name # "scan" /\ \E status \in {"0", "signal"} : Exit(p, status)
    BY <2>1, <2>3, ExitImplements DEF Codes
  <2>4. CASE /\ Goes(p, IF cmd[p].name = "scan" THEN "create" ELSE "prepare")
             /\ UNCHANGED <<tables, lock, cmd, found, pending, cookie, printed, code>>
    BY <2>1, <2>4, SameFate DEF Goes
  <2> QED
    BY <1>4, <2>2, <2>3, <2>4 DEF Start
<1>5. ASSUME NEW p \in Procs, CreateTables(p) \/ Walk(p) \/ Insert(p)
      PROVE  [Store!Next]_(Store!storeVars)
  <2>1. pc[p] \in {"create", "walk", "insert"} /\ cookie[p] = 0 /\ pc \in [Procs -> Places]
    BY <1>5 DEF CreateTables, Reserve, Walk, Insert, IInv, KnowsTables, TypeOK
  <2>2. CASE Exit(p, "1")
    BY <2>1, <2>2, ExitImplements DEF Codes
  <2>3. CASE Reserve(p) \/ Walk(p) \/ (Insert(p) /\ ~Exit(p, "1"))
    <3>1. UNCHANGED <<tables, cmd, code, cookie>>
      BY <2>3 DEF Reserve, Walk, Insert
    <3>2. pc'[p] # "ended" /\ \A q \in Procs \ {p} : pc'[q] = pc[q]
      BY <2>1, <2>3 DEF Reserve, Walk, Insert, Goes
    <3> QED
      BY <2>1, <3>1, <3>2, SameFate
  <2> QED
    BY <1>5, <2>2, <2>3 DEF CreateTables
<1>6. ASSUME NEW p \in Procs, Prepare(p) PROVE [Store!Next]_(Store!storeVars)
  <2>1. pc[p] = "prepare" /\ cmd[p].name # "scan" /\ pc \in [Procs -> Places]
          /\ cookie \in [Procs -> 0 .. Len(tables)]
    BY <1>6 DEF Prepare, IInv, ScansStoreFound, TypeOK
  <2>2. CASE Exit(p, "0")
    BY <2>1, <2>2, ExitImplements DEF Codes
  <2>3. CASE ~Exit(p, "0")
    BY <1>6, <2>1, <2>3, SameFate DEF Prepare, Goes
  <2> QED
    BY <2>2, <2>3
<1>7. ASSUME NEW p \in Procs, FirstStep(p) \/ NextRow(p)
      PROVE  [Store!Next]_(Store!storeVars)
  <2>1. pc[p] \in {"first", "rows"} /\ cookie[p] # 0 /\ pc \in [Procs -> Places]
    BY <1>7 DEF FirstStep, NextRow, PrintRow, EndRows, IInv, KnowsTables, TypeOK
  <2>2. CASE Exit(p, "0")
    BY <2>1, <2>2, ExitImplements DEF Codes
  <2>3. CASE ~Exit(p, "0")
    <3>1. UNCHANGED <<tables, cmd, code, cookie>>
      BY <1>7, <2>3 DEF FirstStep, NextRow, PrintRow, EndRows
    <3>2. pc'[p] # "ended" /\ \A q \in Procs \ {p} : pc'[q] = pc[q]
      BY <1>7, <2>1, <2>3 DEF FirstStep, NextRow, PrintRow, EndRows, Goes
    <3> QED
      BY <2>1, <3>1, <3>2, SameFate
  <2> QED
    BY <2>2, <2>3
<1> QED
  BY <1>1, <1>2, <1>3, <1>4, <1>5, <1>6, <1>7, CommitImplements DEF Next, Step

\* fragdb.cc:69-119: through kills, full disks, locks and other scans, the
\* results are those of the last scan that has stored any, as a whole, and
\* the exit status of a scan says whether it has stored its own.
THEOREM FragDbImplementsScanStore == Spec => ImplementsScanStore
<1>1. Init => Store!Init
  <2> SUFFICES ASSUME Init PROVE Store!Init
    OBVIOUS
  <2>1. Listable \in Walks \cup {{}}
    BY DEF Init, Listable, Last
  <2>2. [p \in Procs |-> Fate(p)] = [p \in Procs |-> "running"]
    BY DEF Init, Fate
  <2> QED
    BY <2>1, <2>2 DEF Store!Init, Listable
<1>2. IInv /\ [Next]_vars => [Store!Next]_(Store!storeVars)
  BY StepImplements
<1> QED
  BY <1>1, <1>2, SpecIInv, PTL DEF Spec, ImplementsScanStore, Store!Spec
=============================================================================
