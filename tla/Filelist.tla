------------------------------ MODULE Filelist ------------------------------
(***************************************************************************)
(* The order of the list of files: the headers and the store of class      *)
(* FilelistView (src/filelist-widget.cc).  A click on a header sorts by    *)
(* its column; the list is cleared and filled while it is sorted.          *)
(*                                                                         *)
(* The store is external: from set_sort_column on it keeps its rows in     *)
(* order, also the ones added later, which it moves when they get values.  *)
(***************************************************************************)
EXTENDS Integers, Sequences, SequencesExt

CONSTANTS
  Columns,       \* the columns with a header
  Descending,    \* those whose default_sort_order_ is descending
  Rows,          \* rows: for each column the value of the cell
  None           \* no column

VARIABLES
  last_column,  \* the header clicked last, static in the handler
  indicator,    \* the headers that show an arrow
  arrow,        \* get_sort_order() of each
  sort,         \* what the store sorts by, [column, order]
  rows          \* liststore_

vars == <<last_column, indicator, arrow, sort, rows>>

Orders == {"ascending", "descending"}

ASSUME FilelistAssumption ==
  /\ None \notin Columns
  /\ Descending \subseteq Columns
  /\ Rows \subseteq [Columns -> Int]

-----------------------------------------------------------------------------
(* The store. *)

InOrder(s, by) ==
  by.column = None \/
    \A i, j \in DOMAIN s : i < j =>
      IF by.order = "ascending" THEN s[i][by.column] =< s[j][by.column]
                                ELSE s[i][by.column] >= s[j][by.column]

Arranged(S, by) == {s \in SetToSeqs(S) : InOrder(s, by)}

-----------------------------------------------------------------------------
DefaultOrder(c) == IF c \in Descending THEN "descending" ELSE "ascending"

Init ==
  /\ last_column = None
  /\ indicator = {}
  /\ arrow = [c \in Columns |-> "ascending"]
  /\ sort = [column |-> None, order |-> "ascending"]
  /\ rows = << >>

Reversed(order) == IF order = "ascending" THEN "descending" ELSE "ascending"

\* The column is given an order, as is the store.
SetOrder(c, order) ==
  /\ arrow' = [arrow EXCEPT ![c] = order]
  /\ sort' = [column |-> c, order |-> order]
  /\ rows' \in Arranged(ToSet(rows), sort')

\* Mutant: the column clicked before keeps its arrow.
HeaderClickedKeepingArrow(c) ==
  /\ last_column' = c
  /\ IF c = last_column
     THEN SetOrder(c, Reversed(arrow[c])) /\ UNCHANGED indicator
     ELSE SetOrder(c, DefaultOrder(c)) /\ indicator' = indicator \cup {c}

OnFilelistHeaderClicked(c) ==
  /\ last_column' = c
  /\ IF c = last_column
     THEN SetOrder(c, Reversed(arrow[c])) /\ UNCHANGED indicator
     ELSE /\ SetOrder(c, DefaultOrder(c))
          /\ indicator' = (indicator \ {last_column}) \cup {c}

\* clear(), and add_file_info for each file of a report or a cluster.
Relist(files) ==
  /\ rows' \in Arranged(files, sort)
  /\ UNCHANGED <<last_column, indicator, arrow, sort>>

Next ==
  \/ \E c \in Columns : OnFilelistHeaderClicked(c)
  \/ \E files \in SUBSET Rows : Relist(files)

Spec == Init /\ [][Next]_vars

-----------------------------------------------------------------------------
\* The headers tell the order of the rows, whatever was clicked in which order
\* and however often the list was filled since: no header has an arrow as long
\* as none was clicked, then exactly one has, and the rows are in the order it
\* shows (filelist-widget.cc:116-142).
ArrowTellsOrder ==
  /\ indicator = {last_column} \ {None}
  /\ \A c \in indicator : InOrder(rows, [column |-> c, order |-> arrow[c]])
=============================================================================
