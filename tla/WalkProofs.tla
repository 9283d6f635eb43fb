------------------------------ MODULE WalkProofs ------------------------------
(***************************************************************************)
(* Theorems about Walk, for any finite tree, any devices mounted in it and *)
(* any number of changes other processes make to it: what the walk counts  *)
(* is on the device of the root, and what nobody touches is counted once   *)
(* as long as the link counts fts goes by stand still as well.             *)
(***************************************************************************)
EXTENDS Walk, FiniteSetTheorems, SequenceTheorems, WellFoundedInduction, TLAPS

-----------------------------------------------------------------------------
(* Paths. *)

\* A set of numbers that is not empty has a least one.
LEMMA LeastNatural ==
  ASSUME NEW T \in SUBSET Nat, T # {}
  PROVE  \E m \in T : \A k \in T : m =< k
<1> DEFINE R == OpToRel(<, Nat)
<1>1. IsWellFoundedOn(R, Nat)
  BY NatLessThanWellFounded
<1> HIDE DEF R
<1>2. PICK m \in T : \A k \in T : <<k, m>> \notin R
  BY <1>1, WFMin
<1>3. \A k \in T : ~(k < m)
  BY <1>2 DEF R, OpToRel
<1> QED
  BY <1>3

LEMMA DirsFinite == IsFiniteSet(Dirs) /\ Cardinality(Dirs) \in Nat
<1>1. IsFiniteSet(Everything)
  BY WalkAssumption, FS_AddElement DEF Everything
<1> QED
  BY <1>1, FS_Subset, FS_CardinalityType DEF Dirs

\* A path of directories goes from the root through each one at most once.
SimplePath(p) ==
  /\ p \in Seq(Dirs) /\ p # << >>
  /\ p[1] = Root
  /\ \A i, j \in 1 .. Len(p) : p[i] = p[j] => i = j

LEMMA DirPathIsSimple ==
  ASSUME NEW p \in DirPaths
  PROVE  SimplePath(p)
<1>1. PICK k \in 1 .. Cardinality(Dirs) : p \in [1 .. k -> Dirs]
  BY DEF DirPaths
<1>2. k \in Nat \ {0}
  BY DirsFinite
<1>3. p \in Seq(Dirs) /\ Len(p) = k
  BY <1>1, <1>2
<1> QED
  BY <1>1, <1>2, <1>3 DEF DirPaths, SimplePath, IsInjective

\* No path is longer than there are directories.
LEMMA SimpleIsDirPath ==
  ASSUME NEW p, SimplePath(p)
  PROVE  p \in DirPaths
<1>1. p \in [1 .. Len(p) -> Dirs] /\ Len(p) \in Nat \ {0}
  BY DEF SimplePath
<1>2. IsInjective(p)
  BY <1>1 DEF SimplePath, IsInjective
<1>3. Cardinality(1 .. Len(p)) =< Cardinality(Dirs)
  BY <1>1, <1>2, DirsFinite, FS_Injection DEF Injection
<1>4. Cardinality(1 .. Len(p)) = Len(p)
  BY <1>1, FS_Interval
<1>5. Len(p) \in 1 .. Cardinality(Dirs)
  BY <1>1, <1>3, <1>4, DirsFinite
<1> QED
  BY <1>1, <1>2, <1>5 DEF SimplePath, DirPaths

\* The path of a node: a chain of directories, and the node.
LEMMA PathFacts ==
  ASSUME NEW p \in Paths
  PROVE  /\ p \in Seq(Everything) /\ Len(p) \in Nat \ {0}
         /\ p[1] = Root
         /\ \A i \in 1 .. Len(p) : i # 1 => p[i] \in Nodes
         /\ \A i \in 1 .. Len(p) : i # Len(p) => p[i] \in Dirs
<1> Root \in Dirs /\ Dirs \subseteq Everything /\ Root \notin Nodes
  BY WalkAssumption DEF Dirs, Everything
<1>1. CASE p \in DirPaths
  <2>1. SimplePath(p)
    BY <1>1, DirPathIsSimple
  <2>2. Len(p) \in Nat \ {0} /\ p \in Seq(Everything)
    BY <2>1 DEF SimplePath
  <2>3. \A i \in 1 .. Len(p) : i # 1 => p[i] # Root
    BY <2>1, <2>2 DEF SimplePath
  <2>4. \A i \in 1 .. Len(p) : p[i] \in Dirs
    BY <2>1 DEF SimplePath
  <2> QED
    BY <2>1, <2>2, <2>3, <2>4 DEF SimplePath, Everything
<1>2. CASE p \notin DirPaths
  <2>1. PICK q \in DirPaths, n \in Nodes \ Dirs : p = Append(q, n)
    BY <1>2 DEF Paths
  <2>2. SimplePath(q)
    BY <2>1, DirPathIsSimple
  <2>3. Len(q) \in Nat \ {0} /\ q \in Seq(Dirs) /\ q \in Seq(Everything)
    BY <2>2 DEF SimplePath
  <2>4. Len(p) = Len(q) + 1 /\ p \in Seq(Everything)
    BY <2>1, <2>3 DEF Everything
  <2>5. \A i \in 1 .. Len(q) : p[i] = q[i]
    BY <2>1, <2>3
  <2>6. p[Len(p)] = n
    BY <2>1, <2>3, <2>4
  <2>7. \A i \in 1 .. Len(q) : i # 1 => q[i] # Root
    BY <2>2, <2>3 DEF SimplePath
  <2>8. \A i \in 1 .. Len(q) : q[i] \in Dirs
    BY <2>3
  <2>9. \A i \in 1 .. Len(p) : i = Len(p) \/ i \in 1 .. Len(q)
    BY <2>3, <2>4
  <2> QED
    BY <2>1, <2>2, <2>3, <2>4, <2>5, <2>6, <2>7, <2>8, <2>9 DEF SimplePath, Everything
<1> QED
  BY <1>1, <1>2

\* The directory where the walk begins.
LEMMA RootIsPath == <<Root>> \in DirPaths
<1>1. Root \in Dirs
  BY WalkAssumption DEF Dirs, Everything
<1>2. SimplePath(<<Root>>)
  BY <1>1 DEF SimplePath
<1> QED
  BY <1>2, SimpleIsDirPath

\* What lies in a directory the walk can still reach has a path of its own.
LEMMA ChildHasPath ==
  ASSUME NEW p \in DirPaths, Resolves(p), NEW n \in Children(Last(p))
  PROVE  Append(p, n) \in Paths
<1>1. SimplePath(p) /\ Len(p) \in Nat \ {0}
  BY DirPathIsSimple DEF SimplePath
<1>2. n \in Nodes /\ place[n] = p[Len(p)]
  BY DEF Children, Last
<1>3. CASE n \notin Dirs
  BY <1>2, <1>3 DEF Paths
<1>4. CASE n \in Dirs
  <2>1. ASSUME NEW i \in 1 .. Len(p), p[i] = n PROVE FALSE
    <3>1. i # 1
      BY <1>1, <1>2, <2>1, WalkAssumption DEF SimplePath
    <3>2. p[i - 1] = p[Len(p)]
      BY <1>1, <1>2, <2>1, <3>1 DEF Resolves
    <3>3. i - 1 = Len(p)
      BY <1>1, <3>1, <3>2 DEF SimplePath
    <3> QED
      BY <1>1, <3>3
  <2>2. Append(p, n) \in Seq(Dirs) /\ Len(Append(p, n)) = Len(p) + 1
    BY <1>1, <1>4 DEF SimplePath
  <2>3. \A i \in 1 .. Len(p) : Append(p, n)[i] = p[i]
    BY <1>1 DEF SimplePath
  <2>4. Append(p, n)[Len(p) + 1] = n
    BY <1>1 DEF SimplePath
  <2>5. \A i \in 1 .. Len(p) + 1 : i = Len(p) + 1 \/ i \in 1 .. Len(p)
    BY <1>1
  <2>6. Append(p, n)[1] = Root
    BY <1>1, <2>3 DEF SimplePath
  <2>7. \A i, j \in 1 .. Len(p) + 1 : Append(p, n)[i] = Append(p, n)[j] => i = j
    BY <1>1, <2>1, <2>3, <2>4, <2>5 DEF SimplePath
  <2>8. SimplePath(Append(p, n))
    BY <1>1, <2>2, <2>6, <2>7 DEF SimplePath
  <2> QED
    BY <2>8, SimpleIsDirPath DEF Paths
<1> QED
  BY <1>3, <1>4

\* A node is in one place: two paths that lead to it are the same.
LEMMA PathIsUnique ==
  ASSUME NEW p \in Paths, NEW q \in Paths, Resolves(p), Resolves(q),
         Last(p) = Last(q)
  PROVE  p = q
<1>1. Len(p) \in Nat \ {0} /\ Len(q) \in Nat \ {0}
  BY PathFacts
<1> DEFINE Up == {k \in Nat : k < Len(p) /\ k < Len(q)}
           Apart == {k \in Up : p[Len(p) - k] # q[Len(q) - k]}
<1>2. Apart = {}
  <2>1. SUFFICES ASSUME Apart # {} PROVE FALSE
    OBVIOUS
  <2>2. PICK m \in Apart : \A k \in Apart : m =< k
    BY <2>1, LeastNatural
  <2>3. m \in Nat /\ m < Len(p) /\ m < Len(q) /\ p[Len(p) - m] # q[Len(q) - m]
    OBVIOUS
  <2>4. m # 0
    BY <1>1, <2>3 DEF Last
  <2>5. m - 1 \in Up /\ m - 1 \notin Apart
    BY <1>1, <2>2, <2>3, <2>4
  <2>6. p[Len(p) - (m - 1)] = q[Len(q) - (m - 1)]
    BY <2>5
  <2> DEFINE i == Len(p) - (m - 1)
             j == Len(q) - (m - 1)
  <2>7. i \in 2 .. Len(p) /\ j \in 2 .. Len(q) /\ i - 1 = Len(p) - m /\ j - 1 = Len(q) - m
    BY <1>1, <2>3, <2>4
  <2> HIDE DEF i, j
  <2>8. place[p[i]] = p[i - 1] /\ place[q[j]] = q[j - 1]
    BY <2>7 DEF Resolves
  <2>9. p[i] = q[j]
    BY <2>6 DEF i, j
  <2> QED
    BY <2>3, <2>7, <2>8, <2>9
<1>3. \A k \in Up : p[Len(p) - k] = q[Len(q) - k]
  BY <1>2
<1>4. Len(p) = Len(q)
  <2>1. ASSUME NEW s \in Paths, NEW t \in Paths,
               Len(s) \in Nat \ {0}, Len(t) \in Nat \ {0}, Len(s) < Len(t),
               s[Len(s) - (Len(s) - 1)] = t[Len(t) - (Len(s) - 1)]
        PROVE FALSE
    <3>1. Len(t) - (Len(s) - 1) \in 1 .. Len(t) /\ Len(t) - (Len(s) - 1) # 1
      BY <2>1
    <3>2. t[Len(t) - (Len(s) - 1)] \in Nodes
      BY <3>1, PathFacts
    <3>3. s[Len(s) - (Len(s) - 1)] = Root
      BY <2>1, PathFacts
    <3> QED
      BY <2>1, <3>2, <3>3, WalkAssumption
  <2>2. Len(p) < Len(q) => Len(p) - 1 \in Up
    BY <1>1
  <2>3. Len(q) < Len(p) => Len(q) - 1 \in Up
    BY <1>1
  <2>4. ~(Len(p) < Len(q))
    BY <1>1, <1>3, <2>1, <2>2
  <2>5. ~(Len(q) < Len(p))
    BY <1>1, <1>3, <2>1, <2>3
  <2> QED
    BY <1>1, <2>4, <2>5
<1>5. \A i \in 1 .. Len(p) : p[i] = q[i]
  <2>1. TAKE i \in 1 .. Len(p)
  <2>2. Len(p) - i \in Up /\ Len(p) - (Len(p) - i) = i
    BY <1>1, <1>4
  <2> QED
    BY <1>3, <1>4, <2>2
<1> QED
  BY <1>4, <1>5, PathFacts, SeqEqual

-----------------------------------------------------------------------------
(* The invariant. *)

\* What fts has read has a path through directories, whatever has become of
\* them since.
Counts == UNION {[ds -> Nat] : ds \in SUBSET Dirs}
Level == [path : DirPaths \cup {<< >>}, left : SUBSET Everything, links : Counts]
LevelsLead ==
  /\ levels \in Seq(Level)
  /\ current \in DirPaths \cup {<< >>}
  /\ current # << >> =>
       levels # << >> /\ Last(current) \in DOMAIN levels[Len(levels)].links
  /\ \A i \in 1 .. Len(levels) : \A n \in levels[i].left :
       Append(levels[i].path, n) \in Paths
  /\ pc # "walk" => levels = << >> /\ current = << >>

\* fts has gone down into directories of this device only; the last one it
\* has handed out may be on another.
DownThisDevice ==
  /\ \A i \in 1 .. Len(levels) : \A j \in 1 .. Len(levels[i].path) :
       Device[levels[i].path[j]] = Device[Root]
  /\ \A j \in 1 .. Len(current) :
       j # Len(current) => Device[current[j]] = Device[Root]

\* A directory that none was put into has no more subdirectories than fts
\* counted.
LinksKnown ==
  \A i \in 1 .. Len(levels) : \A d \in DOMAIN levels[i].links :
    d \in grown \/ Cardinality(Subdirs(d)) =< levels[i].links[d]

Begins(p, path) ==
  /\ Len(p) =< Len(path)
  /\ \A i \in 1 .. Len(p) : p[i] = path[i]

\* The walk has a directory on the way to path still before it, and knows it
\* for one, or path itself.
ComesAt(l, n, path) ==
  /\ Begins(Append(l.path, n), path)
  /\ Len(l.path) + 1 < Len(path) => n \in DOMAIN l.links

Comes(path) ==
  \/ \E i \in 1 .. Len(levels) : \E n \in levels[i].left : ComesAt(levels[i], n, path)
  \/ current # << >> /\ Begins(current, path) /\ Len(current) < Len(path)

Steady(path) == Resolves(path) /\ StoodStill(path)

\* What nobody touches is in the list, or the walk comes to it.
NoneMissed ==
  pc # "start" /\ given = "dir" =>
    \A path \in Paths :
      Steady(path) /\ LinksStoodStill(path) /\ Kind[Last(path)] \in {"file", "dir"}
        => path \in files \/ Comes(path)

\* What nobody touches is in the list under no other path.
NoneTwice ==
  \A p \in files, path \in Paths :
    Steady(path) /\ Last(p) = Last(path) => p = path

IInv ==
  /\ TypeOK /\ LevelsLead /\ DownThisDevice /\ OnlyThisDevice /\ LinksKnown
  /\ NoneMissed /\ NoneTwice

LEMMA SubdirsFinite ==
  ASSUME NEW d
  PROVE  IsFiniteSet(Subdirs(d)) /\ Cardinality(Subdirs(d)) \in Nat
BY DirsFinite, FS_Subset, FS_CardinalityType DEF Subdirs

LEMMA SubdirsStay ==
  ASSUME UNCHANGED place
  PROVE  \A d : Subdirs(d)' = Subdirs(d)
BY DEF Subdirs, Children

LEMMA LinksAreCounts ==
  ASSUME NEW ds \in SUBSET Dirs
  PROVE  LinksOf(ds) \in Counts /\ DOMAIN LinksOf(ds) = ds
<1>1. LinksOf(ds) \in [ds -> Nat]
  BY SubdirsFinite DEF LinksOf
<1> QED
  BY <1>1 DEF Counts, LinksOf

\* A level is what it is for TypeOK.
LEMMA LevelFacts ==
  ASSUME NEW l \in Level
  PROVE  /\ l.path \in DirPaths \cup {<< >>}
         /\ l.left \subseteq Everything
         /\ DOMAIN l.links \subseteq Dirs
         /\ \A d \in DOMAIN l.links : l.links[d] \in Nat
<1>1. l.path \in DirPaths \cup {<< >>} /\ l.left \subseteq Everything /\ l.links \in Counts
  BY DEF Level
<1>2. PICK ds \in SUBSET Dirs : l.links \in [ds -> Nat]
  BY <1>1 DEF Counts
<1> QED
  BY <1>1, <1>2

LEMMA LevelsFacts ==
  ASSUME NEW ls \in Seq(Level)
  PROVE  /\ Len(ls) \in Nat /\ DOMAIN ls = 1 .. Len(ls)
         /\ \A i \in 1 .. Len(ls) :
              /\ ls[i].left \subseteq Everything
              /\ DOMAIN ls[i].links \subseteq Dirs
<1>1. Len(ls) \in Nat /\ DOMAIN ls = 1 .. Len(ls) /\ \A i \in 1 .. Len(ls) : ls[i] \in Level
  OBVIOUS
<1> QED
  BY <1>1, LevelFacts

LEMMA InitIInv == Init => IInv
<1> SUFFICES ASSUME Init PROVE IInv
  OBVIOUS
<1>1. TypeOK
  BY WalkAssumption DEF Init, TypeOK
<1>2. LevelsLead /\ DownThisDevice /\ OnlyThisDevice /\ LinksKnown /\ NoneMissed /\ NoneTwice
  BY DEF Init, LevelsLead, DownThisDevice, OnlyThisDevice, LinksKnown, NoneMissed, NoneTwice
<1> QED
  BY <1>1, <1>2 DEF IInv

LEMMA StartIInv ==
  ASSUME IInv, Start
  PROVE  IInv'
<1> DEFINE first == [path |-> << >>, left |-> {Root}, links |-> LinksOf({Root})]
<1>1. pc = "start" /\ levels = << >> /\ current = << >> /\ current' = << >>
  BY DEF IInv, LevelsLead, Start
<1>2. Append(<< >>, Root) = <<Root>> /\ <<Root>> \in Paths
  BY RootIsPath DEF Paths
<1>3. first \in Level /\ DOMAIN first.links = {Root} /\ Root \in Dirs
  BY LinksAreCounts, WalkAssumption DEF Level, Everything, Dirs
<1>4. /\ given # "dir" => levels' = << >>
      /\ given = "dir" => levels' = <<first>>
      /\ pc' # "walk" => given = "missing"
      /\ UNCHANGED <<place, given, files, touched, grown, changes>>
      /\ pc' \in {"walk", "done"}
  BY DEF Start
<1>5. \A i \in 1 .. Len(levels') : levels'[i].path = << >> /\ levels'[i].left = {Root}
  BY <1>4
<1>12. LinksKnown'
  <2>1. first.links = [d \in {Root} |-> Cardinality(Subdirs(d))]
    BY DEF LinksOf
  <2>2. Subdirs(Root)' = Subdirs(Root)
    BY <1>4 DEF Subdirs, Children
  <2>3. \A i \in 1 .. Len(levels') : levels'[i].links = first.links
    BY <1>4
  <2> HIDE DEF first
  <2>4. \A i \in 1 .. Len(levels') : \A d \in DOMAIN levels'[i].links :
          d = Root /\ levels'[i].links[d] = Cardinality(Subdirs(Root))
    BY <2>1, <2>3
  <2>5. Cardinality(Subdirs(Root)) \in Nat
    BY SubdirsFinite
  <2> QED
    BY <2>2, <2>4, <2>5 DEF LinksKnown
<1> HIDE DEF first
<1>6. levels' \in Seq(Level)
  <2>1. << >> \in Seq(Level) /\ <<first>> \in Seq(Level)
    BY <1>3
  <2> QED
    BY <1>4, <2>1
<1>7. TypeOK'
  <2>1. \A i \in DOMAIN levels' : /\ levels'[i].left \subseteq Everything
                                 /\ DOMAIN levels'[i].links \subseteq Dirs
    BY <1>6, LevelsFacts
  <2> QED
    BY <1>1, <1>4, <2>1 DEF IInv, TypeOK
<1>8. LevelsLead'
  BY <1>1, <1>2, <1>4, <1>5, <1>6 DEF LevelsLead
<1>9. DownThisDevice' /\ OnlyThisDevice'
  BY <1>1, <1>4, <1>5 DEF IInv, DownThisDevice, OnlyThisDevice
<1>10. NoneMissed'
  <2> SUFFICES ASSUME given = "dir", NEW path \in Paths PROVE Comes(path)'
    BY <1>4 DEF NoneMissed
  <2>1. /\ 1 \in 1 .. Len(levels') /\ levels'[1].path = << >> /\ levels'[1].left = {Root}
        /\ DOMAIN levels'[1].links = {Root}
    <3>1. Len(levels') = 1 /\ levels'[1] = first
      BY <1>4
    <3> QED
      BY <1>3, <1>5, <3>1
  <2>2. Begins(<<Root>>, path)
    BY PathFacts DEF Begins
  <2>3. \E n \in levels'[1].left : ComesAt(levels'[1], n, path)
    BY <1>2, <2>1, <2>2 DEF ComesAt
  <2> QED
    BY <2>1, <2>3 DEF Comes
<1>11. NoneTwice'
  BY <1>4 DEF IInv, NoneTwice, Steady, Resolves, StoodStill
<1> QED
  BY <1>7, <1>8, <1>9, <1>10, <1>11, <1>12 DEF IInv

\* Another process moves a node.
LEMMA ChangeIInv ==
  ASSUME IInv, NEW n \in Nodes, NEW d \in Dirs \cup {Nowhere}, Change(n, d)
  PROVE  IInv'
<1>1. TypeOK'
  BY WalkAssumption DEF IInv, TypeOK, Change
<1>2. LevelsLead' /\ DownThisDevice' /\ OnlyThisDevice'
  BY DEF IInv, LevelsLead, DownThisDevice, OnlyThisDevice, Change
<1>3. ASSUME NEW path \in Paths, Steady(path)' PROVE Steady(path)
  <2>1. n \notin ToSet(path)
    BY <1>3 DEF Steady, StoodStill, Change
  <2>2. \A i \in 2 .. Len(path) : path[i] \in Nodes /\ path[i] # n
    BY <2>1, PathFacts DEF ToSet
  <2>3. \A i \in 2 .. Len(path) : place'[path[i]] = place[path[i]]
    BY <2>2 DEF Change, IInv, TypeOK
  <2> QED
    BY <1>3, <2>3 DEF Steady, Resolves, StoodStill, Change
<1>4. \A path \in Paths : Comes(path) => Comes(path)'
  BY DEF Comes, Change
<1>7. \A path \in Paths : LinksStoodStill(path)' => LinksStoodStill(path)
  BY DEF LinksStoodStill, Change
<1>5. NoneMissed'
  BY <1>3, <1>4, <1>7 DEF IInv, NoneMissed, Change
<1>8. LinksKnown'
  <2>1. SUFFICES ASSUME NEW i \in 1 .. Len(levels), NEW c \in DOMAIN levels[i].links,
                        c \notin grown'
                 PROVE  Cardinality(Subdirs(c)') =< levels[i].links[c]
    BY DEF LinksKnown, Change
  <2>2. Subdirs(c)' \subseteq Subdirs(c)
    BY <2>1 DEF Subdirs, Children, Change, IInv, TypeOK
  <2>3. /\ Cardinality(Subdirs(c)') =< Cardinality(Subdirs(c))
        /\ IsFiniteSet(Subdirs(c)')
    BY <2>2, SubdirsFinite, FS_Subset
  <2>4. Cardinality(Subdirs(c)') \in Nat /\ Cardinality(Subdirs(c)) \in Nat
    BY <2>3, SubdirsFinite, FS_CardinalityType
  <2>5. Cardinality(Subdirs(c)) =< levels[i].links[c]
    BY <2>1 DEF IInv, LinksKnown, Change
  <2>6. levels[i].links[c] \in Nat
    <3>1. levels[i] \in Level
      BY DEF IInv, LevelsLead
    <3> QED
      BY <3>1, LevelFacts
  <2> QED
    BY <2>3, <2>4, <2>5, <2>6
<1>6. NoneTwice'
  BY <1>3 DEF IInv, NoneTwice, Change
<1> QED
  BY <1>1, <1>2, <1>5, <1>6, <1>8 DEF IInv

\* fts goes down into a directory, or passes it over.
LEMMA ReadDirectoryIInv ==
  ASSUME IInv, ReadDirectory
  PROVE  IInv'
<1> DEFINE d == Last(current)
           L == Len(levels)
<1>1. current \in Paths /\ Len(current) \in Nat \ {0} /\ pc = "walk" /\ current' = << >>
  BY PathFacts DEF IInv, TypeOK, ReadDirectory
<1>2. levels \in Seq(Level)
  BY DEF IInv, LevelsLead
<1>3. UNCHANGED <<place, given, files, pc, touched, grown, changes>>
  BY DEF ReadDirectory
<1>4. CASE levels' = levels
           /\ ~(Device[d] = Device[Root] /\ d \in Readable /\ Resolves(current))
  <2>1. TypeOK' /\ LevelsLead'
    BY <1>1, <1>3, <1>4 DEF IInv, TypeOK, LevelsLead
  <2>2. DownThisDevice' /\ OnlyThisDevice'
    BY <1>1, <1>3, <1>4 DEF IInv, DownThisDevice, OnlyThisDevice
  <2>5. LinksKnown'
    BY <1>3, <1>4, SubdirsStay DEF IInv, LinksKnown
  <2>3. ASSUME NEW path \in Paths, Steady(path), Comes(path) PROVE Comes(path)'
    <3>1. ~(Begins(current, path) /\ Len(current) < Len(path))
      <4>1. SUFFICES ASSUME Begins(current, path), Len(current) < Len(path) PROVE FALSE
        OBVIOUS
      <4>2. Len(path) \in Nat
        BY PathFacts
      <4>3. d \in ToSet(path)
        BY <1>1, <4>1, <4>2, PathFacts DEF Begins, ToSet, Last
      <4>4. Resolves(current)
        BY <1>1, <2>3, <4>1, <4>2 DEF Steady, Resolves, Begins
      <4> QED
        BY <1>4, <2>3, <4>3, <4>4 DEF Steady, StoodStill
    <3> QED
      BY <1>4, <2>3, <3>1 DEF Comes
  <2>4. NoneMissed' /\ NoneTwice'
    BY <1>3, <2>3 DEF IInv, NoneMissed, NoneTwice, Steady, Resolves, StoodStill, LinksStoodStill
  <2> QED
    BY <2>1, <2>2, <2>4, <2>5 DEF IInv
<1>5. ASSUME Device[d] = Device[Root], d \in Readable, Resolves(current),
             NEW ds \in LookedAt(d, Last(levels).links[d]),
             levels' = Append(levels, [path |-> current, left |-> Children(d),
                                       links |-> LinksOf(ds)])
      PROVE  IInv'
  <2> DEFINE below == [path |-> current, left |-> Children(d), links |-> LinksOf(ds)]
  <2>1. current \in DirPaths
    BY <1>1 DEF IInv, LevelsLead
  <2>12. ds \subseteq Subdirs(d) /\ ds \subseteq Dirs
    BY DEF LookedAt, Subdirs
  <2>2. below \in Level /\ DOMAIN below.links = ds
    BY <2>1, <2>12, LinksAreCounts DEF Level, Children, Everything
  <2>3. /\ levels' \in Seq(Level) /\ Len(levels') = Len(levels) + 1
        /\ \A i \in 1 .. Len(levels) : levels'[i] = levels[i]
        /\ levels'[Len(levels) + 1] = below
        /\ Len(levels) \in Nat
    BY <1>2, <1>5, <2>2
  <2>4. \A i \in 1 .. Len(levels') : i \in 1 .. Len(levels) \/ i = Len(levels) + 1
    BY <2>3
  <2>5. below.path = current /\ below.left = Children(d) /\ below.links = LinksOf(ds)
    OBVIOUS
  <2> HIDE DEF below
  <2>6. TypeOK'
    <3>1. \A i \in DOMAIN levels' : /\ levels'[i].left \subseteq Everything
                                   /\ DOMAIN levels'[i].links \subseteq Dirs
      BY <2>3, LevelsFacts
    <3> QED
      BY <1>1, <1>3, <3>1 DEF IInv, TypeOK
  <2>7. LevelsLead'
    <3>1. \A i \in 1 .. Len(levels') : \A n \in levels'[i].left :
            Append(levels'[i].path, n) \in Paths
      BY <1>5, <2>1, <2>3, <2>4, <2>5, ChildHasPath DEF IInv, LevelsLead
    <3> QED
      BY <1>1, <1>3, <2>3, <3>1 DEF LevelsLead
  <2>8. DownThisDevice'
    <3>1. \A j \in 1 .. Len(current) : Device[current[j]] = Device[Root]
      BY <1>5 DEF IInv, DownThisDevice, Last
    <3> QED
      BY <1>1, <2>3, <2>4, <2>5, <3>1 DEF IInv, DownThisDevice
  <2>9. OnlyThisDevice' /\ NoneTwice'
    BY <1>3 DEF IInv, OnlyThisDevice, NoneTwice, Steady, Resolves, StoodStill
  <2>13. LinksKnown'
    <3>1. \A c : Subdirs(c)' = Subdirs(c)
      BY <1>3, SubdirsStay
    <3>2. \A c \in DOMAIN below.links : Cardinality(Subdirs(c)) =< below.links[c]
      BY <2>5, SubdirsFinite DEF LinksOf
    <3> QED
      BY <1>3, <2>3, <2>4, <3>1, <3>2 DEF IInv, LinksKnown
  <2>10. ASSUME NEW path \in Paths, Steady(path), LinksStoodStill(path), Comes(path)
         PROVE  Comes(path)'
    <3>1. ASSUME NEW i \in 1 .. Len(levels), NEW n \in levels[i].left,
                 ComesAt(levels[i], n, path)
          PROVE Comes(path)'
      <4>1. i \in 1 .. Len(levels') /\ levels'[i] = levels[i]
        BY <2>3
      <4> QED
        BY <3>1, <4>1 DEF Comes
    <3>2. ASSUME Begins(current, path), Len(current) < Len(path) PROVE Comes(path)'
      <4> DEFINE k == Len(current) + 1
                 n == path[k]
      <4>1. k \in 2 .. Len(path) /\ Len(path) \in Nat
        BY <1>1, <3>2, PathFacts
      <4>2. n \in Nodes /\ place[n] = path[k - 1] /\ path[k - 1] = d
        BY <1>1, <2>10, <3>2, <4>1, PathFacts DEF Steady, Resolves, Begins, Last
      <4>3. n \in below.left
        BY <2>5, <4>2 DEF Children
      <4>4. current \in Seq(Everything)
        BY <1>1, PathFacts
      <4>5. /\ Len(Append(current, n)) = k
            /\ \A i \in 1 .. Len(current) : Append(current, n)[i] = current[i]
            /\ Append(current, n)[k] = n
        BY <4>2, <4>4 DEF Everything
      <4>6. \A i \in 1 .. k : i \in 1 .. Len(current) \/ i = k
        BY <1>1
      <4>7. Begins(Append(current, n), path)
        BY <3>2, <4>1, <4>5, <4>6 DEF Begins
      <4>8. Len(levels) + 1 \in 1 .. Len(levels')
        BY <2>3
      <4>10. k < Len(path) => n \in ds
        <5>1. SUFFICES ASSUME k < Len(path) PROVE n \in ds
          OBVIOUS
        <5>2. n \in Subdirs(d)
          BY <4>1, <4>2, <5>1, PathFacts DEF Subdirs, Children
        <5>3. d \notin grown
          BY <2>10, <4>1, <4>2, <5>1 DEF LinksStoodStill
        <5> HIDE DEF n, k
        <5>4. levels # << >> /\ d \in DOMAIN levels[L].links
          BY <1>1 DEF IInv, LevelsLead
        <5>5. L \in 1 .. Len(levels) /\ Last(levels) = levels[L] /\ levels[L] \in Level
          BY <1>2, <5>4 DEF Last
        <5>6. Cardinality(Subdirs(d)) =< levels[L].links[d] /\ levels[L].links[d] \in Nat
          BY <5>3, <5>4, <5>5, LevelFacts DEF IInv, LinksKnown
        <5>7. ds = Subdirs(d) \/ Cardinality(ds) = levels[L].links[d]
          BY <5>5 DEF LookedAt
        <5> HIDE DEF d, L
        <5>8. ds = Subdirs(d)
          BY <2>12, <5>6, <5>7, SubdirsFinite, FS_Subset
        <5> QED
          BY <5>2, <5>8
      <4> HIDE DEF n
      <4>11. ComesAt(below, n, path)
        BY <2>2, <2>5, <4>7, <4>10 DEF ComesAt
      <4> HIDE DEF k
      <4> QED
        BY <2>3, <4>3, <4>8, <4>11 DEF Comes
    <3> QED
      BY <2>10, <3>1, <3>2 DEF Comes
  <2>11. NoneMissed'
    BY <1>3, <2>10 DEF IInv, NoneMissed, Steady, Resolves, StoodStill, LinksStoodStill
  <2> QED
    BY <2>6, <2>7, <2>8, <2>9, <2>11, <2>13 DEF IInv
<1> QED
  BY <1>4, <1>5 DEF ReadDirectory

\* fts hands out a node, which is looked up by its path.
LEMMA VisitIInv ==
  ASSUME IInv, Visit
  PROVE  IInv'
<1> DEFINE L == Len(levels)
<1>1. pc = "walk" /\ current = << >> /\ levels # << >> /\ levels \in Seq(Level)
  BY DEF IInv, LevelsLead, Visit
<1>2. L \in Nat \ {0} /\ L \in 1 .. L /\ Last(levels) = levels[L] /\ levels[L] \in Level
  BY <1>1 DEF Last
<1> HIDE DEF L
<1>3. PICK n \in levels[L].left :
        LET path == Append(levels[L].path, n)
        IN  /\ levels' = [levels EXCEPT ![L].left = @ \ {n}]
            /\ current' = IF n \in DOMAIN levels[L].links THEN path ELSE << >>
            /\ files' = IF Enters(path) THEN files \cup {path} ELSE files
  BY <1>2 DEF Visit, L
<1> DEFINE path == Append(levels[L].path, n)
           rest == [levels[L] EXCEPT !.left = @ \ {n}]
<1>4. UNCHANGED <<place, given, pc, touched, grown, changes>>
  BY DEF Visit
<1>5. /\ rest \in Level
      /\ rest.path = levels[L].path
      /\ rest.links = levels[L].links
      /\ rest.left = levels[L].left \ {n}
  BY <1>2 DEF Level
<1>6. levels' = [levels EXCEPT ![L] = rest]
  BY <1>3
<1>7. /\ current' = IF n \in DOMAIN levels[L].links THEN path ELSE << >>
      /\ files' = IF Enters(path) THEN files \cup {path} ELSE files
  BY <1>3
<1> HIDE DEF path, rest
<1>8. /\ levels' \in Seq(Level) /\ Len(levels') = L
      /\ levels'[L] = rest
      /\ \A i \in 1 .. L : i # L => levels'[i] = levels[i]
  <2>1. rest \in Level /\ levels' = [levels EXCEPT ![L] = rest]
    BY <1>5, <1>6
  <2>2. Len(levels) = L
    BY DEF L
  <2>3. \A i \in 1 .. L : levels'[i] = IF i = L THEN rest ELSE levels[i]
    BY <1>1, <1>2, <2>1, <2>2, ExceptSeq
  <2>4. levels' \in Seq(Level) /\ Len(levels') = L
    BY <1>1, <1>2, <2>1, <2>2, ExceptSeq
  <2> QED
    BY <1>2, <2>3, <2>4
<1>9. path \in Paths
  BY <1>2 DEF IInv, LevelsLead, L, path
<1>10. /\ levels[L].path \in Seq(Dirs) /\ n \in Everything
       /\ Last(path) = n /\ Len(path) = Len(levels[L].path) + 1
       /\ \A j \in 1 .. Len(levels[L].path) : path[j] = levels[L].path[j]
       /\ Len(levels[L].path) \in Nat
  <2>1. levels[L].path \in Seq(Dirs) /\ n \in Everything
    <3>1. levels[L].path \in DirPaths \cup {<< >>} /\ levels[L].left \subseteq Everything
      <4>1. \A l \in Level : l.path \in DirPaths \cup {<< >>} /\ l.left \subseteq Everything
        BY DEF Level
      <4> QED
        BY <1>2, <4>1
    <3>2. levels[L].path \in DirPaths => levels[L].path \in Seq(Dirs)
      BY DirPathIsSimple DEF SimplePath
    <3>3. << >> \in Seq(Dirs)
      OBVIOUS
    <3>4. levels[L].path \in Seq(Dirs)
      BY <3>1, <3>2, <3>3
    <3> QED
      BY <3>1, <3>4
  <2> QED
    BY <2>1 DEF Last, path
<1>11. n \in DOMAIN levels[L].links => path \in DirPaths
  <2>1. SUFFICES ASSUME n \in Dirs, path \notin DirPaths PROVE FALSE
    BY <1>2, LevelFacts
  <2>2. PICK q \in DirPaths, m \in Nodes \ Dirs : path = Append(q, m)
    BY <1>9, <2>1 DEF Paths
  <2>3. q \in Seq(Dirs)
    BY DirPathIsSimple DEF SimplePath
  <2>4. Last(path) = m
    BY <2>2, <2>3 DEF Last
  <2> QED
    BY <1>10, <2>1, <2>4
<1>12. Enters(path) => \A j \in 1 .. Len(path) : Device[path[j]] = Device[Root]
  <2>1. SUFFICES ASSUME Enters(path), NEW j \in 1 .. Len(path)
                 PROVE  Device[path[j]] = Device[Root]
    OBVIOUS
  <2>2. CASE j = Len(path)
    BY <2>1, <2>2 DEF Enters, Last
  <2>3. CASE j # Len(path)
    <3>1. j \in 1 .. Len(levels[L].path) /\ path[j] = levels[L].path[j]
      BY <1>10, <2>3
    <3>2. L \in 1 .. Len(levels)
      BY <1>2 DEF L
    <3>3. \A i \in 1 .. Len(levels) : \A h \in 1 .. Len(levels[i].path) :
            Device[(levels[i].path)[h]] = Device[Root]
      BY DEF IInv, DownThisDevice
    <3> HIDE DEF path
    <3> QED
      BY <3>1, <3>2, <3>3
  <2> QED
    BY <2>2, <2>3
<1>13. TypeOK'
  <2>1. \A i \in DOMAIN levels' : /\ levels'[i].left \subseteq Everything
                                 /\ DOMAIN levels'[i].links \subseteq Dirs
    BY <1>8, LevelsFacts
  <2>2. current' = << >> \/ current' \in Paths
    BY <1>7, <1>9
  <2>3. files' \subseteq Paths
    BY <1>7, <1>9 DEF IInv, TypeOK
  <2> QED
    BY <1>4, <2>1, <2>2, <2>3 DEF IInv, TypeOK
<1>14. LevelsLead'
  <2>1. \A i \in 1 .. L : \A m \in levels'[i].left : Append(levels'[i].path, m) \in Paths
    BY <1>2, <1>5, <1>8 DEF IInv, LevelsLead, L
  <2>2. current' # << >> => /\ levels' # << >>
                            /\ Last(current') \in DOMAIN levels'[Len(levels')].links
    BY <1>2, <1>5, <1>7, <1>8, <1>10
  <2> QED
    BY <1>1, <1>4, <1>7, <1>8, <1>11, <2>1, <2>2 DEF LevelsLead
<1>19. LinksKnown'
  <2>1. \A i \in 1 .. L : levels'[i].links = levels[i].links
    BY <1>5, <1>8
  <2>2. \A c : Subdirs(c)' = Subdirs(c)
    BY <1>4, SubdirsStay
  <2> QED
    BY <1>4, <1>8, <2>1, <2>2 DEF IInv, LinksKnown, L
<1>15. DownThisDevice'
  <2>1. \A i \in 1 .. L : levels'[i].path = levels[i].path
    BY <1>5, <1>8
  <2>2. \A j \in 1 .. Len(path) : j # Len(path) => Device[path[j]] = Device[Root]
    BY <1>2, <1>10 DEF IInv, DownThisDevice, L
  <2>3. \A j \in 1 .. Len(current') : j # Len(current') => Device[current'[j]] = Device[Root]
    BY <1>7, <2>2
  <2> QED
    BY <1>8, <2>1, <2>3 DEF IInv, DownThisDevice, L
<1>16. OnlyThisDevice'
  BY <1>7, <1>12 DEF IInv, OnlyThisDevice, ToSet
<1>17. NoneMissed'
  <2>1. SUFFICES ASSUME given = "dir", NEW p \in Paths, Steady(p), LinksStoodStill(p),
                        Kind[Last(p)] \in {"file", "dir"}
                 PROVE  p \in files' \/ Comes(p)'
    BY <1>1, <1>4 DEF NoneMissed, Steady, Resolves, StoodStill, LinksStoodStill
  <2>2. CASE p \in files
    BY <1>7, <2>2
  <2>3. ASSUME NEW i \in 1 .. L, NEW m \in levels[i].left,
               ComesAt(levels[i], m, p), ~(i = L /\ m = n)
        PROVE  Comes(p)'
    <3>1. /\ m \in levels'[i].left /\ levels'[i].path = levels[i].path
          /\ levels'[i].links = levels[i].links
      BY <1>5, <1>8, <2>3
    <3> QED
      BY <1>8, <2>3, <3>1 DEF Comes, ComesAt
  <2>4. CASE Begins(path, p) /\ Len(path) < Len(p) /\ n \in DOMAIN levels[L].links
    <3>2. current' = path /\ path # << >>
      BY <1>7, <1>9, <2>4, PathFacts
    <3> QED
      BY <2>4, <3>2 DEF Comes
  <2>5. CASE Begins(path, p) /\ ~(Len(path) < Len(p))
    <3>1. path = p
      BY <1>9, <2>5, PathFacts, SeqEqual DEF Begins
    <3>2. Last(p) \in ToSet(p)
      BY PathFacts DEF Last, ToSet
    <3>3. Enters(path)
      BY <2>1, <3>1, <3>2 DEF Enters, Steady, StoodStill
    <3> QED
      BY <1>7, <3>1, <3>3
  <2>6. p \in files \/ Comes(p)
    BY <1>1, <2>1 DEF IInv, NoneMissed
  <2>7. ASSUME ComesAt(levels[L], n, p) PROVE p \in files' \/ Comes(p)'
    BY <1>10, <2>4, <2>5, <2>7 DEF ComesAt, path
  <2> QED
    BY <1>1, <2>2, <2>3, <2>6, <2>7 DEF Comes, L
<1>18. NoneTwice'
  <2>1. SUFFICES ASSUME NEW f \in files', NEW p \in Paths, Steady(p), Last(f) = Last(p)
                 PROVE  f = p
    BY <1>4 DEF NoneTwice, Steady, Resolves, StoodStill
  <2>2. CASE f \in files
    BY <2>1, <2>2 DEF IInv, NoneTwice
  <2>3. CASE f = path /\ Enters(path)
    BY <1>9, <2>1, <2>3, PathIsUnique DEF Enters, Steady
  <2> QED
    BY <1>7, <2>2, <2>3
<1> QED
  BY <1>13, <1>14, <1>15, <1>16, <1>17, <1>18, <1>19 DEF IInv

LEMMA FrontFacts ==
  ASSUME NEW S, NEW s \in Seq(S), s # << >>
  PROVE  /\ Front(s) \in Seq(S) /\ Len(Front(s)) = Len(s) - 1
         /\ \A i \in 1 .. Len(Front(s)) : Front(s)[i] = s[i]
<1> DEFINE k == Len(s) - 1
<1>1. k \in Nat /\ Front(s) = SubSeq(s, 1, k) /\ \A i \in 1 .. k : s[i] \in S
  BY DEF Front
<1> HIDE DEF k
<1>2. Front(s) \in Seq(S) /\ Len(Front(s)) = k
  BY <1>1, SubSeqProperties
<1>3. \A i \in 1 .. k : Front(s)[i] = s[i]
  BY <1>1
<1> QED
  BY <1>2, <1>3 DEF k

\* fts leaves a directory it has handed out all of.
LEMMA LeaveDirectoryIInv ==
  ASSUME IInv, LeaveDirectory
  PROVE  IInv'
<1>1. pc = "walk" /\ current = << >> /\ levels # << >> /\ levels \in Seq(Level)
  BY DEF IInv, LevelsLead, LeaveDirectory
<1>2. /\ Len(levels) \in Nat \ {0} /\ levels[Len(levels)].left = {}
      /\ UNCHANGED <<place, given, current, files, pc, touched, grown, changes>>
  BY <1>1 DEF LeaveDirectory, Last
<1>3. /\ levels' \in Seq(Level) /\ Len(levels') = Len(levels) - 1
      /\ \A i \in 1 .. Len(levels') : levels'[i] = levels[i]
  <2>1. levels' = Front(levels)
    BY DEF LeaveDirectory
  <2> QED
    BY <1>1, <2>1, FrontFacts
<1>4. TypeOK'
  <2>1. \A i \in DOMAIN levels' : /\ levels'[i].left \subseteq Everything
                                 /\ DOMAIN levels'[i].links \subseteq Dirs
    BY <1>3, LevelsFacts
  <2> QED
    BY <1>2, <2>1 DEF IInv, TypeOK
<1>5. LevelsLead'
  BY <1>1, <1>2, <1>3 DEF IInv, LevelsLead
<1>6. DownThisDevice' /\ OnlyThisDevice'
  BY <1>1, <1>2, <1>3 DEF IInv, DownThisDevice, OnlyThisDevice
<1>9. LinksKnown'
  <2>1. \A i \in 1 .. Len(levels') : i \in 1 .. Len(levels)
    BY <1>2, <1>3
  <2> QED
    BY <1>2, <1>3, <2>1, SubdirsStay DEF IInv, LinksKnown
<1>7. ASSUME NEW path \in Paths, Comes(path) PROVE Comes(path)'
  <2>1. PICK i \in 1 .. Len(levels) : \E n \in levels[i].left :
          ComesAt(levels[i], n, path)
    BY <1>1, <1>7 DEF Comes
  <2>2. i \in 1 .. Len(levels')
    BY <1>2, <1>3, <2>1
  <2> QED
    BY <1>3, <2>1, <2>2 DEF Comes
<1>8. NoneMissed' /\ NoneTwice'
  BY <1>2, <1>7
  DEF IInv, NoneMissed, NoneTwice, Steady, Resolves, StoodStill, LinksStoodStill
<1> QED
  BY <1>4, <1>5, <1>6, <1>8, <1>9 DEF IInv

LEMMA NextIInv ==
  ASSUME IInv, [Next]_vars
  PROVE  IInv'
<1>1. CASE End
  <2>1. TypeOK' /\ LevelsLead' /\ DownThisDevice' /\ OnlyThisDevice'
    BY <1>1 DEF End, IInv, TypeOK, LevelsLead, DownThisDevice, OnlyThisDevice
  <2>3. LinksKnown'
    BY <1>1, SubdirsStay DEF End, IInv, LinksKnown
  <2>2. NoneMissed' /\ NoneTwice'
    BY <1>1 DEF End, IInv, NoneMissed, NoneTwice, Steady, Resolves, StoodStill,
                LinksStoodStill, Comes
  <2> QED
    BY <2>1, <2>2, <2>3 DEF IInv
<1>2. CASE UNCHANGED vars
  <2>1. TypeOK' /\ LevelsLead' /\ DownThisDevice' /\ OnlyThisDevice'
    BY <1>2 DEF vars, IInv, TypeOK, LevelsLead, DownThisDevice, OnlyThisDevice
  <2>3. LinksKnown'
    BY <1>2, SubdirsStay DEF vars, IInv, LinksKnown
  <2>2. NoneMissed' /\ NoneTwice'
    BY <1>2 DEF vars, IInv, NoneMissed, NoneTwice, Steady, Resolves, StoodStill,
                LinksStoodStill, Comes
  <2> QED
    BY <2>1, <2>2, <2>3 DEF IInv
<1> QED
  BY <1>1, <1>2, StartIInv, ReadDirectoryIInv, VisitIInv, LeaveDirectoryIInv, ChangeIInv
  DEF Next

\* The invariant holds in every state of the walk.
LEMMA Invariant == Spec => []IInv
<1> QED
  BY InitIInv, NextIInv, PTL DEF Spec

-----------------------------------------------------------------------------
(* The theorems. *)

\* Whatever is renamed under the walk, what it lists are paths in the tree
\* (collect_fragments, clusters.cc:136-207).
THEOREM WalkTypes == Spec => []TypeOK
<1>1. IInv => TypeOK
  BY DEF IInv
<1> QED
  BY <1>1, Invariant, PTL

\* The walk lists nothing that is on another device, or below something that
\* is (clusters.cc:185).
THEOREM ListsThisDevice == Spec => []OnlyThisDevice
<1>1. IInv => OnlyThisDevice
  BY DEF IInv
<1> QED
  BY <1>1, Invariant, PTL

\* What nobody touches is in the list at the end, and once, in a tree of any
\* size and however often the rest of it is moved about under the walk, if no
\* directory was put into one above its own (clusters.cc:163-205).
THEOREM StillIsFoundOnce == Spec => []StillFoundOnce
<1>1. IInv => StillFoundOnce
  <2>1. SUFFICES ASSUME IInv, pc = "done", given = "dir", NEW path \in Paths,
                        Resolves(path), StoodStill(path), LinksStoodStill(path),
                        Kind[Last(path)] \in {"file", "dir"}
                 PROVE  {p \in files : Last(p) = Last(path)} = {path}
    BY DEF StillFoundOnce
  <2>2. levels = << >> /\ current = << >>
    BY <2>1 DEF IInv, LevelsLead
  <2>3. ~Comes(path)
    BY <2>2 DEF Comes
  <2>4. path \in files
    BY <2>1, <2>3 DEF IInv, NoneMissed, Steady
  <2>5. \A p \in files : Last(p) = Last(path) => p = path
    BY <2>1 DEF IInv, NoneTwice, Steady
  <2> QED
    BY <2>4, <2>5
<1> QED
  BY <1>1, Invariant, PTL
=============================================================================
