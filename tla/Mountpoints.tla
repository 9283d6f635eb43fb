----------------------------- MODULE Mountpoints -----------------------------
(***************************************************************************)
(* Opening a mount point: class MountpointSelectDialog                     *)
(* (src/mountpoint-select-dialog.cc) and the handler of class GraphWindow  *)
(* that makes one, runs it and scans what it returns.  Meanwhile other     *)
(* processes mount and unmount.                                            *)
(*                                                                         *)
(* The table of mounts is external.  A file system that is mounted over    *)
(* another hides it, but both are in the table; statfs is about the one on *)
(* top.  The table writes a blank in a name as \040, so that no file has   *)
(* the name that is read from it.                                          *)
(***************************************************************************)
EXTENDS Integers, Sequences, SequencesExt

CONSTANTS
  Points,     \* mount points
  Escaped,    \* those with a blank in their name
  Systems,    \* file systems: [type, blocks]
  MaxMounts,  \* the length of the table, at most
  NoPath      \* the empty path

VARIABLES
  mounts,         \* /proc/mounts: [point, type, blocks], the latest last
  open,           \* the dialog is being run
  rows,           \* liststore_: [point, type] of the lines that are listed
  selection,      \* the row selected, 0 for none
  selected_path,  \* selected_path_
  scanned         \* the path of the last scan_dir

vars == <<mounts, open, rows, selection, selected_path, scanned>>

Mounts == [point : Points, type : {s.type : s \in Systems},
           blocks : {s.blocks : s \in Systems}]

ASSUME MountpointsAssumption ==
  /\ Escaped \subseteq Points
  /\ MaxMounts \in Nat
  /\ NoPath \notin Points

-----------------------------------------------------------------------------
(* The system. *)

\* What statfs64 and lstat64 find, for a name that is read from the table.
StatfsFinds(table, point) ==
  point \notin Escaped /\ \E i \in DOMAIN table : table[i].point = point

\* The file system of a line is the one on top where it is mounted.
OnTop(table, i) ==
  ~\E j \in DOMAIN table : j > i /\ table[j].point = table[i].point

ChangeMounts ==
  /\ \/ /\ Len(mounts) < MaxMounts
        /\ \E point \in Points, s \in Systems :
             mounts' = Append(mounts, [point |-> point, type |-> s.type,
                                       blocks |-> s.blocks])
     \/ \E i \in DOMAIN mounts :
          /\ OnTop(mounts, i)
          /\ mounts' = RemoveAt(mounts, i)
  /\ UNCHANGED <<open, rows, selection, selected_path, scanned>>

-----------------------------------------------------------------------------
(* The dialog. *)

\* The constructor lists a line of the table if the point can be looked at
\* and the file system has blocks; the type is the one the line gives.
Listed(table, i) ==
  /\ StatfsFinds(table, table[i].point)
  /\ \E j \in DOMAIN table :
       table[j].point = table[i].point /\ OnTop(table, j) /\ table[j].blocks # 0
  /\ table[i].type \notin {"tmpfs", "devtmpfs"}

Populated(table) ==
  [i \in {k \in DOMAIN table : Listed(table, k)} |->
     [point |-> table[i].point, type |-> table[i].type]]

\* Mutant: one dialog serves all the time.
OpenAgain ==
  /\ ~open
  /\ open' = TRUE
  /\ rows' = Populated(mounts)
  /\ selection' = 0
  /\ UNCHANGED <<mounts, selected_path, scanned>>

\* on_action_main_open_mountpoint makes a dialog and runs it.
Open ==
  /\ ~open
  /\ open' = TRUE
  /\ rows' = Populated(mounts)
  /\ selection' = 0
  /\ selected_path' = NoPath
  /\ UNCHANGED <<mounts, scanned>>

\* Mutant: the iterator is not looked at, and is no row without a selection.
SelectedPathUnchecked(i) == IF i = 0 THEN 0 ELSE rows[i].point

\* on_list_selection_changed for the row i, or for none.
SelectedPath(i) == IF i = 0 THEN selected_path ELSE rows[i].point

\* A click on a row selects it, and with Ctrl takes the selection away.
OnListSelectionChanged ==
  /\ open
  /\ \E i \in {0} \cup DOMAIN rows :
       /\ selection' = i
       /\ selected_path' = SelectedPath(i)
  /\ UNCHANGED <<mounts, open, rows, scanned>>

Close == open' = FALSE /\ rows' = << >> /\ selection' = 0

\* A double click answers with OK.  The click before it selects the row.
OnListRowActivated ==
  /\ open /\ selection # 0
  /\ Close
  /\ selected_path' = rows[selection].point
  /\ scanned' = selected_path'
  /\ UNCHANGED mounts

Ok ==
  /\ open
  /\ Close
  /\ scanned' = selected_path
  /\ UNCHANGED <<mounts, selected_path>>

Cancel ==
  /\ open
  /\ Close
  /\ UNCHANGED <<mounts, selected_path, scanned>>

Init ==
  /\ mounts = << >>
  /\ open = FALSE
  /\ rows = << >>
  /\ selection = 0
  /\ selected_path = NoPath
  /\ scanned = NoPath

Next ==
  \/ ChangeMounts
  \/ Open \/ OnListSelectionChanged \/ OnListRowActivated \/ Ok \/ Cancel

Spec == Init /\ [][Next]_vars

-----------------------------------------------------------------------------
TypeOK ==
  /\ mounts \in Seq(Mounts) /\ Len(mounts) =< MaxMounts
  /\ open \in BOOLEAN
  /\ DOMAIN rows \subseteq 1 .. MaxMounts
  /\ \A i \in DOMAIN rows : rows[i] \in [point : Points, type : {s.type : s \in Systems}]
  /\ selection \in {0} \cup DOMAIN rows
  /\ selected_path \in Points \cup {NoPath}
  /\ scanned \in Points \cup {NoPath}

Offered == {rows[i].point : i \in DOMAIN rows}

\* fragview.cc:165-172: whatever is mounted, selected and taken back, what is
\* scanned when the dialog closes is nothing, or a mount point this very
\* dialog showed.
ScansOnlyOffered ==
  [][scanned' # scanned => scanned' \in Offered \cup {NoPath}]_vars
=============================================================================
