-------------------------------- MODULE Walk --------------------------------
(***************************************************************************)
(* The walk of Clusters::collect_fragments (src/clusters.cc:136): fts goes *)
(* through a tree of directories that other processes change meanwhile,    *)
(* and each file it comes upon is looked up again by its path.             *)
(*                                                                         *)
(* A node is a file or a directory with a name of its own, so that its     *)
(* path is the chain of directories it lies in.  fts is external: it reads *)
(* a directory whole, after it has handed out the directory itself, and    *)
(* hands out what it has read without looking at it again.  With           *)
(* FTS_NOSTAT it looks for as many subdirectories as the link count of the *)
(* directory told it when it was looked at itself, and takes what it reads *)
(* after these for anything but a directory.                               *)
(***************************************************************************)
EXTENDS Integers, Sequences, SequencesExt, FiniteSets

CONSTANTS
  Root,        \* the directory named by the user
  Nodes,       \* what may lie in it
  Kind,        \* Kind[n] is "dir", "file", "link" or "fifo"
  Device,      \* st_dev of each node
  MountPoints, \* the directories something is mounted on
  Readable,    \* the nodes that open succeeds for
  Tree,        \* where the nodes lie when the walk begins
  Nowhere,     \* where a node lies that does not exist
  Givens,      \* what the path of the user may be
  MaxChanges   \* changes other processes make, at most

VARIABLES
  place,    \* place[n], the directory n lies in
  given,    \* the path is a "dir", a "link" to one, or "missing"
  levels,   \* what fts has read, the innermost directory last: [path,
            \* left to hand out, links of those it knows for directories]
  current,  \* the directory fts reads next, << >> if none
  files,    \* files_, by path
  pc,
  touched,  \* the nodes that were moved, made or removed
  grown,    \* the directories that another directory was put into
  changes   \* the number of changes

vars == <<place, given, levels, current, files, pc, touched, grown, changes>>

Everything == Nodes \cup {Root}
Dirs == {n \in Everything : Kind[n] = "dir"}

ASSUME WalkAssumption ==
  /\ IsFiniteSet(Nodes)
  /\ Root \notin Nodes /\ Nowhere \notin Everything
  /\ Kind \in [Everything -> {"dir", "file", "link", "fifo"}]
  /\ Kind[Root] = "dir"
  /\ MountPoints \subseteq Dirs
  /\ Readable \subseteq Everything
  /\ Tree \in [Nodes -> Dirs \cup {Nowhere}]
  /\ Givens \subseteq {"dir", "link", "missing"}
  /\ MaxChanges \in Nat

\* All paths the nodes could form, through the directories that could lie in
\* each other.
DirPaths ==
  {p \in UNION {[1 .. k -> Dirs] : k \in 1 .. Cardinality(Dirs)} :
     p[1] = Root /\ IsInjective(p)}
Paths == DirPaths \cup {Append(p, n) : p \in DirPaths, n \in Nodes \ Dirs}

Resolves(path) == \A i \in 2 .. Len(path) : place[path[i]] = path[i - 1]

PathsTo(n) == {p \in Paths : Last(p) = n /\ Resolves(p)}

Children(d) == {n \in Nodes : place[n] = d}
Subdirs(d) == Children(d) \cap Dirs

\* What fts keeps of the directories it looks at: fts_nlink less the two
\* links that are not of a subdirectory.
LinksOf(dirs) == [d \in dirs |-> Cardinality(Subdirs(d))]

Init ==
  /\ place = Tree
  /\ given \in Givens
  /\ levels = << >>
  /\ current = << >>
  /\ files = {}
  /\ pc = "start"
  /\ touched = {}
  /\ grown = {}
  /\ changes = 0

-----------------------------------------------------------------------------
(* collect_fragments *)

\* Mutant: the directory itself is left out.
StartBelow ==
  /\ pc = "start"
  /\ pc' = IF given = "missing" THEN "done" ELSE "walk"
  /\ levels' = <<[path |-> << >>, left |-> Children(Root), links |-> LinksOf(Subdirs(Root))]>>
  /\ UNCHANGED <<place, given, current, files, touched, grown, changes>>

\* stat64 follows a link and fts_open with FTS_PHYSICAL does not: what it
\* then hands out is the link, which the switch passes over.
Start ==
  /\ pc = "start"
  /\ pc' = IF given = "missing" THEN "done" ELSE "walk"
  /\ levels' = IF given # "dir" THEN << >>
                ELSE <<[path |-> << >>, left |-> {Root}, links |-> LinksOf({Root})]>>
  /\ UNCHANGED <<place, given, current, files, touched, grown, changes>>

\* The subdirectories fts looks at in d, of which links were counted: so many
\* of those it reads, in whatever order they come; or all of them, on a file
\* system that does not count them and has a link count of 1.
LookedAt(d, links) ==
  {ds \in SUBSET Subdirs(d) : ds = Subdirs(d) \/ Cardinality(ds) = links}

\* fts_read goes down into the directory it handed out last, unless that is
\* on another device (FTS_XDEV) or cannot be read.
ReadDirectory ==
  /\ pc = "walk" /\ current # << >>
  /\ LET d == Last(current)
     IN  IF Device[d] = Device[Root] /\ d \in Readable /\ Resolves(current)
         THEN \E ds \in LookedAt(d, Last(levels).links[d]) :
                levels' = Append(levels, [path |-> current, left |-> Children(d),
                                          links |-> LinksOf(ds)])
         ELSE levels' = levels
  /\ current' = << >>
  /\ UNCHANGED <<place, given, files, pc, touched, grown, changes>>

\* Mutant: what is mounted on a directory counts as part of the device.
EntersMounted(path) ==
  Resolves(path) /\ Kind[Last(path)] \in {"file", "dir"} /\ Last(path) \in Readable

\* lstat64 finds the node, on the device of the root, and get_file_extents
\* takes it: a link is not opened, and a fifo is neither file nor directory.
Enters(path) ==
  /\ Resolves(path)
  /\ Device[Last(path)] = Device[Root]
  /\ Kind[Last(path)] \in {"file", "dir"} /\ Last(path) \in Readable

\* Mutant: what fts has not looked at itself, FTS_NSOK, is passed over.
VisitLookedAt ==
  /\ pc = "walk" /\ current = << >> /\ levels # << >>
  /\ \E n \in Last(levels).left :
       LET path == Append(Last(levels).path, n)
           known == n \in DOMAIN Last(levels).links
       IN  /\ levels' = [levels EXCEPT ![Len(levels)].left = @ \ {n}]
           /\ current' = IF known THEN path ELSE << >>
           /\ files' = IF known /\ Enters(path) THEN files \cup {path} ELSE files
  /\ UNCHANGED <<place, given, pc, touched, grown, changes>>

\* fts hands out a node, and goes down into it next if it knows it for a
\* directory (FTS_D).
Visit ==
  /\ pc = "walk" /\ current = << >> /\ levels # << >>
  /\ \E n \in Last(levels).left :
       LET path == Append(Last(levels).path, n)
       IN  /\ levels' = [levels EXCEPT ![Len(levels)].left = @ \ {n}]
           /\ current' = IF n \in DOMAIN Last(levels).links THEN path ELSE << >>
           /\ files' = IF Enters(path) THEN files \cup {path} ELSE files
  /\ UNCHANGED <<place, given, pc, touched, grown, changes>>

LeaveDirectory ==
  /\ pc = "walk" /\ current = << >> /\ levels # << >>
  /\ Last(levels).left = {}
  /\ levels' = Front(levels)
  /\ UNCHANGED <<place, given, current, files, pc, touched, grown, changes>>

End ==
  /\ pc = "walk" /\ current = << >> /\ levels = << >>
  /\ pc' = "done"
  /\ UNCHANGED <<place, given, levels, current, files, touched, grown, changes>>

-----------------------------------------------------------------------------
\* Another process moves, makes or removes a node: not into itself, not what
\* something is mounted on, and not from one device to another.
Change(n, d) ==
  /\ pc # "done" /\ changes < MaxChanges
  /\ n \notin MountPoints /\ place[n] # d
  /\ \/ d = Nowhere /\ Children(n) = {}
     \/ /\ d \in Dirs /\ Device[d] = Device[n]
        /\ \E p \in PathsTo(d) : n \notin ToSet(p)
  /\ place' = [place EXCEPT ![n] = d]
  /\ touched' = touched \cup {n}
  /\ grown' = IF n \in Dirs THEN grown \cup ({d} \cap Dirs) ELSE grown
  /\ changes' = changes + 1
  /\ UNCHANGED <<given, levels, current, files, pc>>

Next ==
  \/ Start \/ ReadDirectory \/ Visit \/ LeaveDirectory \/ End
  \/ \E n \in Nodes, d \in Dirs \cup {Nowhere} : Change(n, d)

Spec == Init /\ [][Next]_vars

-----------------------------------------------------------------------------
TypeOK ==
  /\ place \in [Nodes -> Dirs \cup {Nowhere}]
  /\ given \in Givens
  /\ \A i \in DOMAIN levels : levels[i].left \subseteq Everything
                                /\ DOMAIN levels[i].links \subseteq Dirs
  /\ current = << >> \/ current \in Paths
  /\ files \subseteq Paths
  /\ pc \in {"start", "walk", "done"}
  /\ touched \subseteq Nodes /\ grown \subseteq Dirs
  /\ changes \in 0 .. MaxChanges

\* Nothing on the way from the root to n was touched, and all of it can be
\* read and is on the device of the root.
StoodStill(path) ==
  /\ ToSet(path) \cap touched = {}
  /\ \A n \in ToSet(path) : n \in Readable /\ Device[n] = Device[Root]

\* No directory was put into one whose subdirectories lead to the node.
LinksStoodStill(path) == \A i \in 1 .. Len(path) - 2 : path[i] \notin grown

\* Whatever other processes move about meanwhile, a file or directory that
\* nobody touches is found, and found once: neither a directory that fts
\* could not read any more nor one that is walked a second time under its
\* new name costs or doubles any other (clusters.cc:163-205).  That holds as
\* long as no other directory is put beside one that leads to it, since fts
\* then takes one of the two for a file (FTS_NOSTAT, clusters.cc:166); beside
\* the node itself there may be any number of new ones, as the switch takes
\* FTS_NSOK as well (175).
StillFoundOnce ==
  pc = "done" /\ given = "dir" =>
    \A path \in Paths :
      /\ Resolves(path) /\ StoodStill(path) /\ LinksStoodStill(path)
      /\ Kind[Last(path)] \in {"file", "dir"}
      => {p \in files : Last(p) = Last(path)} = {path}

\* clusters.cc:185: the extents of a file on another device are places on
\* that device, which mean nothing on the map of this one.
OnlyThisDevice ==
  \A p \in files : \A n \in ToSet(p) : Device[n] = Device[Root]
=============================================================================
