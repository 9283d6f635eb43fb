------------------------------- MODULE FragDb -------------------------------
(***************************************************************************)
(* fragdb (src/fragdb.cc): several runs of the command-line tool over one  *)
(* file, fragmentator.db.  A run is a process of its own that scans a      *)
(* directory or lists what a scan has stored; it may be killed anywhere.   *)
(*                                                                         *)
(* SQLite is external.  It is modelled by its rollback journal: a          *)
(* transaction is atomic, a process holds one lock on the file, and as     *)
(* fragdb sets no busy timeout, a call that cannot get its lock fails at   *)
(* once.                                                                   *)
(***************************************************************************)
EXTENDS Integers, Sequences, SequencesExt, FiniteSets

CONSTANTS
  Procs,     \* runs of fragdb
  Live,      \* those that are sure to be scheduled
  Commands,  \* their command lines: [name, arg]
  NoArg,     \* the argument of a command line that has none
  Walks,     \* what a walk of a directory finds: sets of rows
  Unit       \* a severity is counted in parts of 1/Unit

VARIABLES
  tables,   \* the tables committed so far; the last is the one in the file
  lock,     \* the lock each process holds on the file
  pc,       \* where each process is
  cmd,      \* its command line
  found,    \* files_ of its Clusters, and whether the walk went well
  pending,  \* the rows its open transaction has inserted
  cookie,   \* the version of the schema its connection knows, 0 for none
  printed,  \* the rows it has printed
  code      \* its exit status

vars == <<tables, lock, pc, cmd, found, pending, cookie, printed, code>>

Locks == {"none", "shared", "reserved", "pending", "exclusive"}
Places == {"off", "create", "walk", "insert", "prepare", "first", "rows", "ended"}
Codes == {"none", "0", "1", "2", "signal"}
Results == UNION {w : w \in Walks}

ASSUME FragDbAssumption ==
  /\ Live \subseteq Procs
  /\ Unit \in Nat \ {0}
  /\ \A r \in Results : r.fragments \in Nat /\ r.severity \in Nat

Init ==
  /\ tables \in {<< >>} \cup {<<w>> : w \in Walks}
  /\ lock = [p \in Procs |-> "none"]
  /\ pc = [p \in Procs |-> "off"]
  /\ cmd \in [Procs -> Commands]
  /\ found = [p \in Procs |-> [ok |-> TRUE, files |-> {}]]
  /\ pending = [p \in Procs |-> {}]
  /\ cookie = [p \in Procs |-> 0]
  /\ printed = [p \in Procs |-> << >>]
  /\ code = [p \in Procs |-> "none"]

-----------------------------------------------------------------------------
(* The locks of SQLite. *)

Others(p) == {lock[q] : q \in Procs \ {p}}
CanRead(p) == Others(p) \cap {"pending", "exclusive"} = {}
CanWrite(p) == Others(p) \cap {"reserved", "pending", "exclusive"} = {}
Alone(p) == Others(p) = {"none"} \/ Others(p) = {}

Locked(p, mode) == lock' = [lock EXCEPT ![p] = mode]
Goes(p, place) == pc' = [pc EXCEPT ![p] = place]

\* The process ends.  The system takes its lock, and a transaction that is
\* open is rolled back.
Exit(p, status) ==
  /\ Goes(p, "ended")
  /\ code' = [code EXCEPT ![p] = status]
  /\ Locked(p, "none")
  /\ pending' = [pending EXCEPT ![p] = {}]
  /\ UNCHANGED <<tables, cmd, found, cookie, printed>>

-----------------------------------------------------------------------------
(* main, up to the call of scan or of a report. *)

NeedsArgument == {"scan", "over", "overs"}
Listings == {"top", "tops", "over", "overs"}

Start(p) ==
  /\ pc[p] = "off"
  /\ \/ cmd[p].name = "usage" /\ Exit(p, "0")
     \/ cmd[p].name \in NeedsArgument /\ cmd[p].arg = NoArg /\ Exit(p, "2")
     \* An unknown command closes a pointer that was never set.
     \/ cmd[p].name = "unknown" /\ \E status \in {"0", "signal"} : Exit(p, status)
     \/ /\ cmd[p].name \in {"scan"} \cup Listings
        /\ cmd[p].name \in NeedsArgument => cmd[p].arg # NoArg
        /\ \/ Exit(p, "1")  \* init_db: the file cannot be opened
           \/ /\ Goes(p, IF cmd[p].name = "scan" THEN "create" ELSE "prepare")
              /\ UNCHANGED <<tables, lock, cmd, found, pending, cookie,
                             printed, code>>

-----------------------------------------------------------------------------
(* scan *)

\* The first statement that writes takes the lock.
Reserve(p) ==
  /\ pc[p] = "create" /\ CanWrite(p)
  /\ Goes(p, "walk")
  /\ Locked(p, "reserved")
  /\ UNCHANGED <<tables, cmd, found, pending, cookie, printed, code>>

\* Mutant: a run waits until the other scan is over.
CreateTablesWaiting(p) == Reserve(p)

\* BEGIN TRANSACTION, which takes no lock, and the DROP and CREATE after it.
CreateTables(p) == Reserve(p) \/ (pc[p] = "create" /\ ~CanWrite(p) /\ Exit(p, "1"))

\* collect_fragments; one of its early returns leaves no files.
Walk(p) ==
  /\ pc[p] = "walk"
  /\ Goes(p, "insert")
  /\ \E result \in [ok : {TRUE}, files : Walks] \cup {[ok |-> FALSE, files |-> {}]} :
       found' = [found EXCEPT ![p] = result]
  /\ UNCHANGED <<tables, lock, cmd, pending, cookie, printed, code>>

\* SQLite may write a part of the transaction to the file before the commit.
Spill(p) ==
  /\ pc[p] = "insert" /\ pending[p] # {} /\ lock[p] # "exclusive"
  /\ Locked(p, IF Alone(p) THEN "exclusive" ELSE "pending")
  /\ UNCHANGED <<tables, pc, cmd, found, pending, cookie, printed, code>>

ToInsert(p) == found[p].files \ pending[p]

Insert(p) ==
  /\ pc[p] = "insert" /\ ToInsert(p) # {}
  /\ \/ /\ LET item == CHOOSE r \in ToInsert(p) : TRUE
           IN  pending' = [pending EXCEPT ![p] = @ \cup {item}]
        /\ UNCHANGED <<tables, lock, pc, cmd, found, cookie, printed, code>>
     \/ Exit(p, "1")  \* the disk is full

\* The transaction is in the file, and the process goes on at a place.
Committed(p, place) ==
  /\ tables' = Append(tables, pending[p])
  /\ cookie' = [cookie EXCEPT ![p] = Len(tables')]
  /\ pending' = [pending EXCEPT ![p] = {}]
  /\ Locked(p, "none")
  /\ Goes(p, place)
  /\ UNCHANGED <<cmd, found, printed, code>>

\* Mutant: the result of COMMIT is not looked at.
CommitUnchecked(p) ==
  /\ pc[p] = "insert" /\ ToInsert(p) = {}
  /\ (Alone(p) /\ Committed(p, "first")) \/ (~Alone(p) /\ Exit(p, "0"))

\* Mutant: the list at the end of a scan is made like any other.
CommitThenPrepare(p) ==
  /\ pc[p] = "insert" /\ ToInsert(p) = {}
  /\ (Alone(p) /\ Committed(p, "prepare")) \/ Exit(p, "1")

\* COMMIT fails if a reader holds its lock, or if the disk is full.  The
\* statement of the list is prepared in the same connection, which knows
\* the tables it has made.
Commit(p) ==
  /\ pc[p] = "insert" /\ ToInsert(p) = {}
  /\ (Alone(p) /\ Committed(p, "first")) \/ Exit(p, "1")

-----------------------------------------------------------------------------
(***************************************************************************)
(* show_top, show_top_severity, show_over and show_over_severity.  None of *)
(* them looks at what sqlite3_prepare returns, and each takes any result   *)
(* of sqlite3_step but a row for the end of the list.                      *)
(***************************************************************************)
BySeverity(c) == c.name \in {"tops", "overs"}
Key(c, r) == IF BySeverity(c) THEN r.severity ELSE r.fragments

\* The rows LIMIT lets through; a negative number of them is no limit.
Limit(c) ==
  CASE c.name = "scan" -> 10
    [] c.name \in {"top", "tops"} -> IF c.arg = NoArg THEN 10 ELSE c.arg
    [] OTHER -> 0 - 1

\* The double of overs goes through an int.
Threshold(c) ==
  CASE c.name = "over" -> c.arg
    [] c.name = "overs" -> (c.arg \div Unit) * Unit
    [] OTHER -> 0

Matching(c, table) == {r \in table : Key(c, r) >= Threshold(c)}

Prepare(p) ==
  /\ pc[p] = "prepare"
  /\ \/ /\ CanRead(p) /\ tables # << >>
        /\ cookie' = [cookie EXCEPT ![p] = Len(tables)]
        /\ Goes(p, "first")
        /\ UNCHANGED <<tables, lock, cmd, found, pending, printed, code>>
     \/ (~CanRead(p) \/ tables = << >>) /\ Exit(p, "0")

\* A statement of sqlite3_prepare is not prepared again when the schema has
\* changed since, which every commit of a scan does.
FirstStep(p) ==
  /\ pc[p] = "first"
  /\ \/ /\ CanRead(p) /\ cookie[p] = Len(tables)
        /\ Locked(p, "shared")
        /\ Goes(p, "rows")
        /\ UNCHANGED <<tables, cmd, found, pending, cookie, printed, code>>
     \/ (~CanRead(p) \/ cookie[p] # Len(tables)) /\ Exit(p, "0")

Left(p) == Matching(cmd[p], Last(tables)) \ ToSet(printed[p])

Prints(p, row) == printed' = [printed EXCEPT ![p] = Append(@, row)]

\* A row with the largest key of those left, while there are any.
PrintRow(p) ==
  /\ pc[p] = "rows" /\ Len(printed[p]) # Limit(cmd[p])
  /\ \E r \in Left(p) : /\ \A s \in Left(p) : Key(cmd[p], r) >= Key(cmd[p], s)
                        /\ Prints(p, r)
  /\ UNCHANGED <<tables, pc, cmd, found, pending, cookie, code>>

\* SQLITE_DONE
EndRows(p) ==
  /\ pc[p] = "rows"
  /\ Len(printed[p]) = Limit(cmd[p]) \/ Left(p) = {}
  /\ Exit(p, "0")

\* Mutant: one statement for each row.
NextRowByItself(p) == (PrintRow(p) /\ Locked(p, "none")) \/ EndRows(p)

\* Mutant: a row is printed before the result of sqlite3_step is looked at.
NextRowFirst(p) ==
  \/ PrintRow(p) /\ UNCHANGED lock
  \/ /\ pc[p] = "rows" /\ Left(p) = {}
     /\ Prints(p, cmd[p])
     /\ Goes(p, "ended")
     /\ UNCHANGED <<tables, lock, cmd, found, pending, cookie, code>>

NextRow(p) == (PrintRow(p) /\ UNCHANGED lock) \/ EndRows(p)

-----------------------------------------------------------------------------
Step(p) ==
  \/ Start(p)
  \/ CreateTables(p) \/ Walk(p) \/ Insert(p) \/ Commit(p)
  \/ Prepare(p) \/ FirstStep(p) \/ NextRow(p)

Kill(p) == pc[p] \notin {"off", "ended"} /\ Exit(p, "signal")

Next == \E p \in Procs : Step(p) \/ Spill(p) \/ Kill(p)

Spec == Init /\ [][Next]_vars

\* Nothing is assumed of the other processes: they may stop for ever
\* wherever they are, whatever lock they hold.
FairSpec == Spec /\ \A p \in Live : WF_vars(Step(p))

-----------------------------------------------------------------------------
TypeOK ==
  /\ tables \in Seq(SUBSET Results)
  /\ lock \in [Procs -> Locks]
  /\ pc \in [Procs -> Places]
  /\ cmd \in [Procs -> Commands]
  /\ found \in [Procs -> [ok : BOOLEAN, files : SUBSET Results]]
  /\ pending \in [Procs -> SUBSET Results]
  /\ cookie \in [Procs -> 0 .. Len(tables)]
  /\ printed \in [Procs -> Seq(Results)]
  /\ code \in [Procs -> Codes]

Sorted(c, s) ==
  \A i, j \in DOMAIN s : i < j => Key(c, s[i]) >= Key(c, s[j])

\* s is the head of a list of the table by the command c.
Heads(c, s, table) ==
  /\ ToSet(s) \subseteq Matching(c, table)
  /\ IsInjective(s) /\ Sorted(c, s)
  /\ \A r \in Matching(c, table) \ ToSet(s), i \in DOMAIN s :
       Key(c, s[i]) >= Key(c, r)

(* Properties. *)

\* What a run prints, scans with the list at their end included, is of one
\* committed table, whatever other runs commit, crash or lose while it
\* prints: in order, none twice, none passed over, and all that were asked
\* for once it ends by itself (fragdb.cc:124-221).
ListsOneScan ==
  \A p \in Procs : printed[p] # << >> =>
    LET table == tables[cookie[p]]
    IN  /\ Heads(cmd[p], printed[p], table)
        /\ code[p] = "0" => \/ Len(printed[p]) = Limit(cmd[p])
                            \/ ToSet(printed[p]) = Matching(cmd[p], table)

\* fragdb.cc:252: the list at the end of a scan is of what this scan found,
\* although another one may have replaced it since the commit.
ScanListsItsOwn ==
  \A p \in Procs :
    cmd[p].name = "scan" => ToSet(printed[p]) \subseteq found[p].files

\* A scan as ScanStore sees it: stored from the commit on, then what its
\* exit status says.
Fate(p) ==
  CASE cmd[p].name # "scan" -> "running"
    [] code[p] = "0" -> "succeeded"
    [] cookie[p] # 0 -> "stored"
    [] pc[p] = "ended" -> "failed"
    [] OTHER -> "running"

Store == INSTANCE ScanStore WITH
           Walks <- Walks \cup {{}},
           results <- IF tables = << >> THEN {} ELSE Last(tables),
           fate <- [p \in Procs |-> Fate(p)]

\* fragdb.cc:69-119: the results are only ever replaced by all that one scan
\* has found, by a scan that then ends with 0 unless it is killed; a scan
\* that ends with another status has changed nothing.
ImplementsScanStore == Store!Spec

\* A run never waits for another: one that is scheduled ends, although the
\* others may be stopped while they hold their locks, and nothing keeps a
\* list that another run locks out waiting.
NeverWaits == \A p \in Live : pc[p] # "off" ~> pc[p] = "ended"

-----------------------------------------------------------------------------
\* fragdb.cc:28, "Then it is possible to obtain list of most fragmented files
\* from previous scan": a list that ends with status 0 and has printed nothing
\* ends while nothing it asks for is stored.
EndsEmpty(p) ==
  /\ cmd[p].name \in Listings /\ Limit(cmd[p]) # 0
  /\ code[p] = "none" /\ code'[p] = "0" /\ printed'[p] = << >>

EmptyMeansNothingStored ==
  [][\A p \in Procs : EndsEmpty(p) =>
       tables = << >> \/ Matching(cmd[p], Last(tables)) = {}]_vars
=============================================================================
