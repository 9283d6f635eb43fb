---------------------------- MODULE FragviewProofs ----------------------------
(***************************************************************************)
(* Proofs about Fragview, for every device, every size of the window and   *)
(* of its scrollbar, every point that is clicked and every order of the    *)
(* handlers.  What is proved of Clusters carries over: each handler makes  *)
(* at most one call of that class.                                         *)
(***************************************************************************)
EXTENDS Fragview, ClustersProofs

-----------------------------------------------------------------------------
(* The size of the map. *)

\* The squares of one line, and the lines, of a map of count clusters.
Columns(pixels) == Larger(1, (pixels - 1) \div BoxSize)
Lines(count, columns) == (count - 1) \div columns + 1
HeightOf(alloc) == (alloc[2] - 1) \div BoxSize + 1
WidthOf(alloc, count) ==
  IF Lines(count, Columns(alloc[1])) > HeightOf(alloc)
  THEN Columns(alloc[1] - ScrollbarWidth) ELSE Columns(alloc[1])

Pixels == (Nat \ {0}) \X (Nat \ {0})

\* There is a column in a map of any width.
LEMMA ColumnsType ==
  ASSUME NEW pixels \in Int
  PROVE  Columns(pixels) \in Nat \ {0}
<1>1. BoxSize \in Nat \ {0}
  BY WindowAssumption
<1>2. (pixels - 1) \div BoxSize \in Int
  BY <1>1
<1> QED
  BY <1>2 DEF Columns, Larger

\* There are lines and columns in a map of any size.
LEMMA SizeType ==
  ASSUME NEW alloc \in Pixels, NEW count \in Nat \ {0}
  PROVE  /\ WidthOf(alloc, count) \in Nat \ {0}
         /\ HeightOf(alloc) \in Nat \ {0}
         /\ Lines(count, WidthOf(alloc, count)) \in Nat \ {0}
<1>1. /\ alloc[1] \in Int /\ alloc[1] - ScrollbarWidth \in Int
      /\ alloc[2] - 1 \in Nat /\ count - 1 \in Nat
      /\ BoxSize \in Nat \ {0}
  BY WindowAssumption DEF Pixels
<1>2. WidthOf(alloc, count) \in Nat \ {0}
  BY <1>1, ColumnsType DEF WidthOf
<1> QED
  BY <1>1, <1>2, DivBounds DEF HeightOf, Lines

\* recalculate_sizes, in these words.
LEMMA ResizedParts ==
  ASSUME NEW alloc, NEW count, NEW size
  PROVE  /\ Resized(alloc, count, size).width = WidthOf(alloc, count)
         /\ Resized(alloc, count, size).height = HeightOf(alloc)
         /\ Resized(alloc, count, size).scrollbar.upper =
              Lines(count, WidthOf(alloc, count))
         /\ Resized(alloc, count, size).scrollbar.page = HeightOf(alloc)
BY DEF Resized, WidthOf, HeightOf, Columns, Lines

\* If the value of the scrollbar has not moved, the view has not.
LEMMA UnmovedParts ==
  ASSUME NEW alloc, NEW count, NEW size,
         ~Resized(alloc, count, size).moved
  PROVE  Resized(alloc, count, size).target = target_block
BY DEF Resized, Follow

\* A value that is set is in the range of the scrollbar, and a value that is
\* in none is set to 0.
LEMMA ClampedType ==
  ASSUME NEW v \in Int, NEW upper \in Nat, NEW page \in Nat
  PROVE  /\ Clamped(v, upper, page) \in Nat
         /\ upper # 0 /\ page # 0 => Clamped(v, upper, page) < upper
BY DEF Clamped, Larger, Smaller

\* Setting a value to what it may not be makes it smaller.
LEMMA ClampedBelow ==
  ASSUME NEW v \in Nat, NEW upper \in Nat, NEW page \in Nat
  PROVE  Clamped(v, upper, page) =< v
BY DEF Clamped, Larger, Smaller

\* The block of a value is a block.
LEMMA FollowType ==
  ASSUME NEW old \in Nat, NEW new \in Nat, NEW target \in Nat,
         NEW width \in Nat, NEW size \in Nat
  PROVE  Follow(old, new, target, width, size) \in Nat
<1>1. width * size \in Nat
  BY TimesMonotone
<1>2. width * size * new \in Nat
  BY <1>1, TimesMonotone
<1> QED
  BY <1>2 DEF Follow

\* A line of the map starts on the device.
LEMMA LineStartsOnDevice ==
  ASSUME NEW size \in Nat \ {0}, NEW width \in Nat \ {0}, NEW blocks \in Nat \ {0},
         NEW line \in Nat, line < Lines(CountFor(size, blocks), width)
  PROVE  width * size * line < blocks
<1> DEFINE last == (blocks - 1) \div size
<1>1. CountFor(size, blocks) - 1 = last /\ last \in Nat /\ last * size =< blocks - 1
      /\ last * size \in Nat
  BY DivBounds DEF CountFor, Dec
<1> HIDE DEF last
<1>2. line =< last \div width /\ last \div width \in Nat
  BY <1>1, DivBounds DEF Lines
<1>3. line * width =< (last \div width) * width /\ line * width \in Nat
  BY <1>2, TimesMonotone
<1>4. (last \div width) * width =< last /\ (last \div width) * width \in Nat
  BY <1>1, DivBounds
<1>5. line * width =< last
  BY <1>1, <1>3, <1>4
<1>6. (line * width) * size =< last * size /\ (line * width) * size \in Nat
  BY <1>1, <1>3, <1>5, TimesMonotone
<1>7. width * size * line = (line * width) * size
  OBVIOUS
<1> QED
  BY <1>1, <1>6, <1>7

\* The value a view settles on starts on the device if the one before did.
LEMMA FollowStays ==
  ASSUME NEW size \in Nat \ {0}, NEW width \in Nat \ {0}, NEW blocks \in Nat \ {0},
         NEW old \in Nat, NEW new \in Nat, NEW target \in Nat, target < blocks,
         \/ new = old
         \/ new < Lines(CountFor(size, blocks), width)
  PROVE  Follow(old, new, target, width, size) < blocks
BY LineStartsOnDevice DEF Follow

\* recalculate_sizes gives the scrollbar and the view values they may have.
LEMMA ResizedType ==
  ASSUME NEW alloc \in Pixels, NEW count \in Nat \ {0}, NEW size \in Nat \ {0},
         scrollbar \in [value : Nat, upper : Nat, page : Nat],
         target_block \in Nat
  PROVE  /\ Resized(alloc, count, size).scrollbar \in [value : Nat, upper : Nat, page : Nat]
         /\ Resized(alloc, count, size).target \in Nat
<1> DEFINE old == scrollbar.value
           page == scrollbar.page
           width == WidthOf(alloc, count)
           upper == Lines(count, width)
           ranged == Clamped(old, upper, page)
           kept == Follow(old, ranged, target_block, width, size)
           value == Clamped((kept \div size) \div width, upper, page)
<1>1. width \in Nat \ {0} /\ upper \in Nat /\ HeightOf(alloc) \in Nat
  BY SizeType
<1>2. old \in Nat /\ old \in Int /\ page \in Nat
  OBVIOUS
<1>8. /\ Resized(alloc, count, size).scrollbar =
           [value |-> value, upper |-> upper, page |-> HeightOf(alloc)]
      /\ Resized(alloc, count, size).target = Follow(ranged, value, kept, width, size)
  BY DEF Resized, WidthOf, HeightOf, Columns, Lines
<1> HIDE DEF old, page, width, upper
<1>3. ranged \in Nat
  BY <1>1, <1>2, ClampedType
<1>4. kept \in Nat
  BY <1>1, <1>2, <1>3, FollowType
<1>5. /\ (kept \div size) \div width \in Nat
      /\ (kept \div size) \div width \in Int
  BY <1>1, <1>4, DivBounds
<1>6. value \in Nat
  BY <1>1, <1>2, <1>5, ClampedType
<1>7. Follow(ranged, value, kept, width, size) \in Nat
  BY <1>1, <1>3, <1>4, <1>6, FollowType
<1> QED
  BY <1>1, <1>6, <1>7, <1>8

\* A view that starts on the device still does when the map is resized.
LEMMA ResizedStays ==
  ASSUME NEW alloc \in Pixels, NEW size \in Nat \ {0}, NEW blocks \in Nat \ {0},
         scrollbar \in [value : Nat, upper : Nat, page : Nat],
         target_block \in Nat, target_block < blocks,
         scrollbar.page = 0 => scrollbar.value = 0 /\ target_block = 0
  PROVE  Resized(alloc, CountFor(size, blocks), size).target < blocks
<1> DEFINE old == scrollbar.value
           page == scrollbar.page
           count == CountFor(size, blocks)
           width == WidthOf(alloc, count)
           upper == Lines(count, width)
           ranged == Clamped(old, upper, page)
           kept == Follow(old, ranged, target_block, width, size)
           line == (kept \div size) \div width
           value == Clamped(line, upper, page)
<1>0. count \in Nat \ {0}
  BY CountForType
<1>1. width \in Nat \ {0} /\ upper \in Nat /\ upper # 0
  BY <1>0, SizeType
<1>2. old \in Nat /\ old \in Int /\ page \in Nat /\ (page = 0 => old = 0 /\ target_block = 0)
  OBVIOUS
<1>3. Resized(alloc, count, size).target = Follow(ranged, value, kept, width, size)
  BY DEF Resized, WidthOf, HeightOf, Columns, Lines
<1>8. upper = Lines(CountFor(size, blocks), width)
  OBVIOUS
<1> HIDE DEF old, page, width, upper, count
<1>4. ranged \in Nat /\ (ranged = old \/ ranged < upper)
  <2>1. CASE page # 0
    BY <1>1, <1>2, <2>1, ClampedType
  <2>2. CASE page = 0
    <3>1. ranged \in Nat /\ ranged =< old
      BY <1>1, <1>2, ClampedType, ClampedBelow
    <3> QED
      BY <1>2, <2>2, <3>1
  <2> QED
    BY <2>1, <2>2
<1>5. kept \in Nat /\ kept < blocks
  BY <1>1, <1>2, <1>4, <1>8, FollowType, FollowStays
<1>6. value \in Nat /\ (value = ranged \/ value < upper)
  <2>1. line \in Nat /\ line \in Int
    BY <1>1, <1>5, DivBounds
  <2>2. CASE page # 0
    BY <1>1, <1>2, <2>1, <2>2, ClampedType
  <2>3. CASE page = 0
    <3>1. ranged = 0 /\ kept = 0
      <4>1. ranged =< old
        BY <1>1, <1>2, ClampedBelow
      <4>2. ranged = old
        BY <1>2, <1>4, <2>3, <4>1
      <4> QED
        BY <1>2, <2>3, <4>2 DEF Follow
    <3>2. line = 0
      <4>1. 0 \div size = 0 /\ 0 \div width = 0
        BY <1>1
      <4> QED
        BY <3>1, <4>1
    <3> QED
      BY <1>1, <1>2, <3>1, <3>2, ClampedType
  <2> QED
    BY <2>2, <2>3
<1> QED
  BY <1>1, <1>3, <1>4, <1>5, <1>6, <1>8, FollowStays DEF count

-----------------------------------------------------------------------------
(* The inductive invariant. *)

\* What is listed twice in a cluster is listed in it.
TwiceListed == \A k \in DOMAIN clusters : clusters[k].twice \subseteq clusters[k].files

\* The map has the size of the last allocation, and the scrollbar the range of
\* that map; before the first one nothing is scrolled.
MapCurrent ==
  /\ allocation \in Pixels
  /\ map_width = WidthOf(allocation, cluster_count)
  /\ map_height = HeightOf(allocation)
  /\ scrollbar.page # 0 => /\ scrollbar.upper = Lines(cluster_count, map_width)
                           /\ scrollbar.page = map_height
  /\ scrollbar.page = 0 => scrollbar.value = 0 /\ target_block = 0 /\ ~Shown

\* What a screen that is up to date was painted from is the truth.
ViewAccurate ==
  ~redraw /\ InView => \A k \in Squares : IsAccurate(k) /\ At(k).twice = {}

WindowInv ==
  /\ IInv
  /\ CountCurrent
  /\ TwiceListed
  /\ FragviewTypeOK
  /\ MapCurrent
  /\ ListIsOfThisScan
  /\ ViewAccurate
  /\ ScreenTruth

-----------------------------------------------------------------------------
(* Every handler makes at most one call of class Clusters. *)

\* The line of a cluster starts at it or before it.
LEMMA LineBelow ==
  ASSUME NEW block \in Nat, NEW size \in Nat \ {0}, NEW width \in Nat \ {0}
  PROVE  /\ ((block \div size) \div width) * width \in Nat
         /\ ((block \div size) \div width) * width =< block \div size
BY DivBounds

\* A draw fills a view of at least one cluster.
LEMMA ViewType ==
  ASSUME FragviewTypeOK
  PROVE  /\ TargetLine \in Nat
         /\ FirstInView \in Nat
         /\ map_width * map_height \in Nat \ {0}
         /\ FirstInView =< target_block \div cluster_size
<1>1. /\ target_block \in Nat /\ cluster_size \in Nat \ {0}
      /\ map_width \in Nat \ {0} /\ map_height \in Nat \ {0}
  BY DEF FragviewTypeOK, TypeOK
<1>2. target_block \div cluster_size \in Nat
  BY <1>1, DivBounds
<1>3. /\ TargetLine \in Nat /\ FirstInView \in Nat
      /\ FirstInView =< target_block \div cluster_size
  BY <1>1, <1>2, DivBounds DEF TargetLine, FirstInView
<1>4. map_width * map_height \in Nat \ {0}
  BY <1>1, SMT
<1> QED
  BY <1>3, <1>4

\* Zooming asks for clusters of a block or more.
LEMMA ZoomedType ==
  ASSUME FragviewTypeOK, NEW direction
  PROVE  Zoomed(direction) \in Nat \ {0}
<1>1. cluster_size \in Nat \ {0}
  BY DEF FragviewTypeOK, TypeOK
<1>2. (20 * cluster_size) \div 23 \in Nat /\ (23 * cluster_size) \div 20 \in Nat
  BY <1>1, DivBounds
<1> QED
  BY <1>1, <1>2 DEF Zoomed, Larger

\* What the window does to the class is at most one call of it.
LEMMA WindowIsAnyStep == FragviewTypeOK /\ [FragviewNext]_allVars => AnyStep
<1> SUFFICES ASSUME FragviewTypeOK, [FragviewNext]_allVars PROVE AnyStep
  OBVIOUS
<1>1. CASE OnDraw
  BY <1>1, ViewType DEF OnDraw, AnyStep
<1>2. ASSUME NEW direction, OnZoom(direction) PROVE AnyStep
  BY <1>2, ZoomedType DEF OnZoom, AnyStep
<1>3. CASE OpenDirectory
  BY <1>3 DEF OpenDirectory, AnyStep
<1>4. CASE UNCHANGED vars
  BY <1>4 DEF AnyStep
<1> QED
  BY <1>1, <1>2, <1>3, <1>4 DEF FragviewNext, allVars, vars, OnSizeAllocate,
     OnScroll, OnScrollbarDrag, OnViewMostFragmented, OnViewMostSevere,
     OnViewRestore, Report, OnSelectionChanged, HighlightClusterAt

\* Every call of the class keeps what is listed twice listed.
LEMMA AnyStepTwice == IInv /\ TwiceListed /\ AnyStep => TwiceListed'
<1> SUFFICES ASSUME IInv, TwiceListed, AnyStep PROVE TwiceListed'
  OBVIOUS
<1>1. ASSUME NEW scan \in Scans, ScanDir(scan) PROVE TwiceListed'
  BY <1>1 DEF ScanDir, CollectFragments, ClearCaches, TwiceListed
<1>2. CASE ScanDirFails
  BY <1>2 DEF ScanDirFails, CollectNothing, TwiceListed
<1>3. ASSUME NEW ds \in Nat \ {0}, SetDesiredClusterSize(ds) PROVE TwiceListed'
  BY <1>3 DEF SetDesiredClusterSize, ClearCaches, TwiceListed, vars
<1>4. ASSUME NEW m \in Nat, NEW n \in Nat \ {0}, FillClusters(m, n)
      PROVE  TwiceListed'
  <2> SUFFICES ASSUME NEW k \in DOMAIN clusters'
               PROVE  clusters'[k].twice \subseteq clusters'[k].files
    BY DEF TwiceListed
  <2>1. clusters'[k] = Refilled(k, m, n)
    BY <1>4 DEF FillClusters
  <2>2. At(k).twice \subseteq At(k).files
    BY DEF TwiceListed, At, NewCluster
  <2> QED
    BY <2>1, <2>2 DEF Refilled
<1>5. CASE UNCHANGED vars
  BY <1>5 DEF vars, TwiceListed
<1> QED
  BY <1>1, <1>2, <1>3, <1>4, <1>5 DEF AnyStep

-----------------------------------------------------------------------------
(* Types, the size of the map and the list. *)

\* recalculate_sizes makes the sizes those of the map.
LEMMA RecalculateKeeps ==
  ASSUME FragviewTypeOK, cluster_count' \in Nat \ {0}, cluster_size' \in Nat \ {0},
         NEW alloc \in Pixels, RecalculateSizes(alloc)
  PROVE  /\ MapCurrent'
         /\ map_width' \in Nat \ {0}
         /\ map_height' \in Nat \ {0}
         /\ scrollbar' \in [value : Nat, upper : Nat, page : Nat]
         /\ target_block' \in Nat
         /\ allocation' \in Pixels
<1> DEFINE r == Resized(alloc, cluster_count', cluster_size')
<1>1. /\ map_width' = WidthOf(alloc, cluster_count')
      /\ map_height' = HeightOf(alloc)
      /\ scrollbar'.upper = Lines(cluster_count', WidthOf(alloc, cluster_count'))
      /\ scrollbar'.page = HeightOf(alloc)
      /\ allocation' = alloc
  BY ResizedParts DEF RecalculateSizes
<1>2. WidthOf(alloc, cluster_count') \in Nat \ {0} /\ HeightOf(alloc) \in Nat \ {0}
  BY SizeType
<1>3. /\ scrollbar' \in [value : Nat, upper : Nat, page : Nat]
      /\ target_block' \in Nat
  BY ResizedType DEF FragviewTypeOK, RecalculateSizes
<1>4. MapCurrent'
  BY <1>1, <1>2 DEF MapCurrent, WidthOf, HeightOf, Columns, Lines
<1> QED
  BY <1>1, <1>2, <1>3, <1>4

\* Setting the value of the scrollbar leaves the map as it is.
LEMMA SetValueKeeps ==
  ASSUME FragviewTypeOK, MapCurrent, Shown, NEW v \in Int, SetValue(v),
         UNCHANGED <<vars, sizeVars>>
  PROVE  /\ MapCurrent'
         /\ scrollbar' \in [value : Nat, upper : Nat, page : Nat]
         /\ target_block' \in Nat
         /\ redraw' \in BOOLEAN
<1> DEFINE value == Clamped(v, scrollbar.upper, scrollbar.page)
<1>1. /\ scrollbar \in [value : Nat, upper : Nat, page : Nat]
      /\ scrollbar.upper \in Nat /\ scrollbar.page \in Nat /\ scrollbar.value \in Nat
      /\ target_block \in Nat /\ map_width \in Nat /\ cluster_size \in Nat
  BY DEF FragviewTypeOK, TypeOK
<1>2. value \in Nat
  BY <1>1, ClampedType
<1>3. scrollbar' = [scrollbar EXCEPT !.value = value]
  BY DEF SetValue
<1>4. /\ scrollbar' \in [value : Nat, upper : Nat, page : Nat]
      /\ scrollbar'.upper = scrollbar.upper
      /\ scrollbar'.page = scrollbar.page
  BY <1>1, <1>2, <1>3
<1>5. target_block' \in Nat
  BY <1>1, <1>2, FollowType DEF SetValue
<1>6. redraw' \in BOOLEAN
  BY DEF SetValue, FragviewTypeOK
<1>7. MapCurrent'
  BY <1>4 DEF MapCurrent, Shown, vars, sizeVars, WidthOf, HeightOf, Columns, Lines
<1> QED
  BY <1>4, <1>5, <1>6, <1>7

\* What is not touched stays current.
LEMMA MapUntouched ==
  ASSUME MapCurrent, UNCHANGED <<cluster_count, sizeVars, scrollbar, target_block>>
  PROVE  MapCurrent'
BY DEF MapCurrent, Shown, sizeVars, WidthOf, HeightOf, Columns, Lines

\* The cluster under a point is one of the map, wherever the point is.
LEMMA ClusterAtType ==
  ASSUME FragviewTypeOK, NEW x \in Int, NEW y \in Int
  PROVE  ClusterAt(x, y) \in 0 .. cluster_count - 1
<1> DEFINE raw == (BoxOf(y) + TargetLine) * map_width + BoxOf(x)
<1>1. cluster_count \in Nat \ {0} /\ map_width \in Nat /\ TargetLine \in Nat
  BY ViewType DEF FragviewTypeOK, TypeOK
<1>2. BoxOf(x) \in Int /\ BoxOf(y) \in Int
  BY WindowAssumption DEF BoxOf
<1>3. raw \in Int
  BY <1>1, <1>2
<1> HIDE DEF raw
<1>4. ClusterAt(x, y) = IF raw < 0 \/ raw >= cluster_count THEN cluster_count - 1
                        ELSE raw
  BY DEF raw, ClusterAt
<1> QED
  BY <1>1, <1>3, <1>4

\* Filling the list leaves rows for files, none of them selected.
LEMMA RelistKeeps ==
  ASSUME FragviewTypeOK, ListIsOfThisScan, NEW mode \in Modes,
         NEW new \in SUBSET ((DOMAIN files') \X {1, 2}), Relist(new, mode),
         files' \in Seq(FileInfo)
  PROVE  /\ display_mode' \in Modes
         /\ selected_files' \subseteq Nat
         /\ rows' \subseteq Nat \X {1, 2}
         /\ selection' \subseteq rows'
         /\ ListIsOfThisScan'
<1>1. /\ display_mode' \in Modes
      /\ selected_files' = {}
      /\ selection' = {}
      /\ rows' = new
  BY DEF Relist, ListIsOfThisScan, Modes
<1>2. DOMAIN files' \subseteq Nat
  OBVIOUS
<1>3. ListIsOfThisScan'
  BY <1>1 DEF ListIsOfThisScan
<1> QED
  BY <1>1, <1>2, <1>3

\* The rows of files that the last scan found.
LEMMA RowsType ==
  ASSUME NEW fs \in SUBSET DOMAIN files'
  PROVE  Rows(fs) \in SUBSET ((DOMAIN files') \X {1, 2})
BY DEF Rows

\* What a draw highlights is on the map or after it.
LEMMA HighlightedType ==
  ASSUME FragviewTypeOK, NEW mode, NEW cluster, NEW chosen
  PROVE  Highlighted(mode, cluster, chosen) \subseteq Nat
<1>1. View \subseteq Nat
  BY ViewType DEF View
<1> QED
  BY <1>1 DEF Highlighted

\* Every handler keeps the types, the size of the map and the list.
LEMMA WindowKeepsTypes ==
  ASSUME IInv, IInv', TwiceListed, FragviewTypeOK, MapCurrent, ListIsOfThisScan,
         [FragviewNext]_allVars
  PROVE  FragviewTypeOK' /\ MapCurrent' /\ ListIsOfThisScan'
<1> DEFINE Goal == FragviewTypeOK' /\ MapCurrent' /\ ListIsOfThisScan'
<1>0. /\ TypeOK /\ TypeOK'
      /\ files' \in Seq(FileInfo)
      /\ cluster_count' \in Nat \ {0} /\ cluster_size' \in Nat \ {0}
  BY DEF IInv, TypeOK
<1>1. ASSUME NEW alloc \in Allocations, OnSizeAllocate(alloc) PROVE Goal
  <2>1. alloc \in Pixels
    BY WindowAssumption DEF Pixels
  <2>2. /\ MapCurrent'
        /\ map_width' \in Nat \ {0} /\ map_height' \in Nat \ {0}
        /\ scrollbar' \in [value : Nat, upper : Nat, page : Nat]
        /\ target_block' \in Nat
        /\ allocation' \in Pixels
    BY <1>0, <1>1, <2>1, RecalculateKeeps DEF OnSizeAllocate
  <2>3. redraw' \in BOOLEAN
    BY <1>1 DEF OnSizeAllocate
  <2>4. ListIsOfThisScan'
    BY <1>1 DEF OnSizeAllocate, listVars, vars, ListIsOfThisScan
  <2>5. FragviewTypeOK'
    BY <1>0, <1>1, <2>2, <2>3 DEF OnSizeAllocate, listVars, FragviewTypeOK, Pixels
  <2> QED
    BY <2>2, <2>4, <2>5
<1>2. CASE OnDraw
  <2>1. MapCurrent'
    BY <1>2, MapUntouched DEF OnDraw, FillClusters
  <2>2. ListIsOfThisScan'
    BY <1>2 DEF OnDraw, FillClusters, listVars, ListIsOfThisScan
  <2>3. selected_cluster' \in Nat
    BY <1>0, <1>2 DEF OnDraw, FragviewTypeOK, TypeOK
  <2>4. /\ screen'.mode \in Modes
        /\ screen'.first \in Nat
        /\ screen'.marked \subseteq Nat
    BY <1>2, ViewType, HighlightedType DEF OnDraw, FragviewTypeOK
  <2>5. FragviewTypeOK'
    BY <1>0, <1>2, <2>3, <2>4 DEF OnDraw, FragviewTypeOK, listVars, sizeVars
  <2> QED
    BY <2>1, <2>2, <2>5
<1>3. ASSUME NEW direction, OnZoom(direction) PROVE Goal
  <2>1. /\ MapCurrent'
        /\ map_width' \in Nat \ {0} /\ map_height' \in Nat \ {0}
        /\ scrollbar' \in [value : Nat, upper : Nat, page : Nat]
        /\ target_block' \in Nat
        /\ allocation' \in Pixels
    BY <1>0, <1>3, RecalculateKeeps DEF OnZoom, MapCurrent
  <2>2. ListIsOfThisScan'
    BY <1>3 DEF OnZoom, SetDesiredClusterSize, vars, listVars, ListIsOfThisScan
  <2>3. FragviewTypeOK'
    BY <1>0, <1>3, <2>1 DEF OnZoom, FragviewTypeOK, listVars, Pixels
  <2> QED
    BY <2>1, <2>2, <2>3
<1>4. ASSUME NEW v \in Int, Shown, SetValue(v),
             UNCHANGED <<vars, listVars, sizeVars, display_mode,
                         selected_cluster, screen>>
      PROVE  Goal
  <2>1. /\ MapCurrent'
        /\ scrollbar' \in [value : Nat, upper : Nat, page : Nat]
        /\ target_block' \in Nat
        /\ redraw' \in BOOLEAN
    BY <1>4, SetValueKeeps
  <2>2. ListIsOfThisScan'
    BY <1>4 DEF vars, listVars, ListIsOfThisScan
  <2>3. FragviewTypeOK'
    BY <1>0, <1>4, <2>1 DEF FragviewTypeOK, listVars, sizeVars
  <2> QED
    BY <2>1, <2>2, <2>3
<1>5. ASSUME NEW mode \in Modes, NEW new \in SUBSET ((DOMAIN files') \X {1, 2}),
             Relist(new, mode), selected_cluster' \in Nat, redraw' \in BOOLEAN,
             UNCHANGED <<vars, sizeVars, target_block, scrollbar, screen>>
      PROVE  Goal
  <2>1. MapCurrent'
    BY <1>5, MapUntouched DEF vars
  <2>2. /\ display_mode' \in Modes
        /\ selected_files' \subseteq Nat
        /\ rows' \subseteq Nat \X {1, 2}
        /\ selection' \subseteq rows'
        /\ ListIsOfThisScan'
    BY <1>0, <1>5, RelistKeeps
  <2>3. FragviewTypeOK'
    BY <1>0, <1>5, <2>2 DEF FragviewTypeOK, sizeVars
  <2> QED
    BY <2>1, <2>2, <2>3
<1>6. ASSUME NEW x \in Int, NEW y \in Int, HighlightClusterAt(x, y) PROVE Goal
  <2>1. CASE display_mode # "cluster" \/ selected_cluster # ClusterAt(x, y)
    <3> DEFINE k == ClusterAt(x, y)
               new == Rows(At(k).files) \cup {<<i, 2>> : i \in At(k).twice}
    <3>1. At(k).files \subseteq DOMAIN files /\ At(k).twice \subseteq At(k).files
      BY DEF IInv, IndicesValid, TwiceListed, At, NewCluster
    <3>2. UNCHANGED <<vars, sizeVars, target_block, scrollbar, screen>>
      BY <1>6 DEF HighlightClusterAt
    <3>3. new \in SUBSET ((DOMAIN files') \X {1, 2})
      BY <3>1, <3>2 DEF Rows, vars
    <3>4. k \in Nat
      <4>1. k \in 0 .. cluster_count - 1
        BY ClusterAtType
      <4> HIDE DEF k
      <4> QED
        BY <4>1
    <3>5. /\ selected_cluster' = k
          /\ Relist(new, "cluster")
          /\ redraw' = TRUE
      BY <1>6, <2>1 DEF HighlightClusterAt
    <3> QED
      BY <1>5, <3>2, <3>3, <3>4, <3>5 DEF Modes
  <2>2. CASE ~(display_mode # "cluster" \/ selected_cluster # ClusterAt(x, y))
    <3>1. UNCHANGED allVars
      BY <1>6, <2>2 DEF HighlightClusterAt, allVars, vars, listVars, sizeVars
    <3>2. MapCurrent'
      BY <3>1, MapUntouched DEF allVars, vars
    <3>3. ListIsOfThisScan'
      BY <3>1 DEF allVars, vars, listVars, ListIsOfThisScan
    <3>4. FragviewTypeOK'
      BY <1>0, <3>1 DEF allVars, vars, listVars, sizeVars, FragviewTypeOK
    <3> QED
      BY <3>2, <3>3, <3>4
  <2> QED
    BY <2>1, <2>2
<1>7. ASSUME NEW top \in SUBSET DOMAIN files, Report(top) PROVE Goal
  <2>1. /\ display_mode \in Modes
        /\ selected_cluster' \in Nat
        /\ redraw' \in BOOLEAN
        /\ files' = files
    BY <1>7 DEF Report, FragviewTypeOK, vars
  <2>2. Rows(top) \in SUBSET ((DOMAIN files') \X {1, 2})
    BY <2>1, RowsType
  <2> QED
    BY <1>5, <1>7, <2>1, <2>2 DEF Report
<1>8. CASE OnViewRestore
  <2>1. selected_cluster' \in Nat /\ redraw' \in BOOLEAN
    BY <1>8 DEF OnViewRestore, FragviewTypeOK
  <2> QED
    BY <1>5, <1>8, <2>1 DEF OnViewRestore, Modes
<1>9. ASSUME NEW chosen \in SUBSET rows, OnSelectionChanged(chosen) PROVE Goal
  <2>1. MapCurrent'
    BY <1>9, MapUntouched DEF OnSelectionChanged, vars
  <2>2. ListIsOfThisScan'
    BY <1>9 DEF OnSelectionChanged, vars, ListIsOfThisScan
  <2>3. selected_files' \subseteq Nat
    BY <1>9 DEF OnSelectionChanged, FragviewTypeOK
  <2>4. FragviewTypeOK'
    BY <1>0, <1>9, <2>3 DEF OnSelectionChanged, FragviewTypeOK, sizeVars, Modes
  <2> QED
    BY <2>1, <2>2, <2>4
<1>10. CASE OpenDirectory
  <2>1. /\ MapCurrent'
        /\ map_width' \in Nat \ {0} /\ map_height' \in Nat \ {0}
        /\ scrollbar' \in [value : Nat, upper : Nat, page : Nat]
        /\ target_block' \in Nat
        /\ allocation' \in Pixels
    BY <1>0, <1>10, RecalculateKeeps DEF OpenDirectory, MapCurrent
  <2>2. /\ display_mode' \in Modes
        /\ selected_files' \subseteq Nat
        /\ rows' \subseteq Nat \X {1, 2}
        /\ selection' \subseteq rows'
        /\ ListIsOfThisScan'
    BY <1>0, <1>10, RelistKeeps DEF OpenDirectory, FragviewTypeOK
  <2>3. FragviewTypeOK'
    BY <1>0, <1>10, <2>1, <2>2 DEF OpenDirectory, FragviewTypeOK, Pixels
  <2> QED
    BY <2>1, <2>2, <2>3
<1>11. CASE UNCHANGED allVars
  <2>1. MapCurrent'
    BY <1>11, MapUntouched DEF allVars, vars
  <2>2. ListIsOfThisScan'
    BY <1>11 DEF allVars, vars, listVars, ListIsOfThisScan
  <2>3. FragviewTypeOK'
    BY <1>0, <1>11 DEF allVars, vars, listVars, sizeVars, FragviewTypeOK
  <2> QED
    BY <2>1, <2>2, <2>3
<1>12. ASSUME NEW direction, OnScroll(direction) PROVE Goal
  <2> DEFINE v == CASE direction = "up" -> scrollbar.value - 1
                    [] direction = "down" -> scrollbar.value + 1
                    [] OTHER -> scrollbar.value
  <2>1. v \in Int
    BY DEF FragviewTypeOK
  <2> HIDE DEF v
  <2>2. SetValue(v) /\ Shown
    BY <1>12 DEF OnScroll, v
  <2>3. UNCHANGED <<vars, listVars, sizeVars, display_mode, selected_cluster, screen>>
    BY <1>12 DEF OnScroll
  <2> QED
    BY <1>4, <2>1, <2>2, <2>3
<1>13. ASSUME NEW v \in 0 .. scrollbar.upper, OnScrollbarDrag(v) PROVE Goal
  BY <1>4, <1>13 DEF OnScrollbarDrag, FragviewTypeOK
<1>14. ASSUME NEW p \in Clicks, HighlightClusterAt(p[1], p[2]) PROVE Goal
  BY <1>6, <1>14, WindowAssumption
<1>15. CASE OnViewMostFragmented \/ OnViewMostSevere
  BY <1>7, <1>15 DEF OnViewMostFragmented, OnViewMostSevere, Reports
<1> QED
  BY <1>1, <1>2, <1>3, <1>8, <1>9, <1>10, <1>11, <1>12, <1>13, <1>14, <1>15
     DEF FragviewNext

-----------------------------------------------------------------------------
(* The screen. *)

\* What is in view and what is true of it depends on the device, on the size
\* of the clusters and of the map and on the place of the view, but not on what
\* has been filled.
LEMMA ViewUntouched ==
  ASSUME UNCHANGED <<files, device_size, cluster_count, cluster_size, granularity,
                     coarse_map, target_block, map_width, map_height>>
  PROVE  /\ InView' <=> InView
         /\ FirstInView' = FirstInView
         /\ Squares' = Squares
         /\ TrueColours' = TrueColours
         /\ \A k : Occupants(k)' = Occupants(k)
         /\ \A i : Fragmented(i)' <=> Fragmented(i)
         /\ \A mode, cluster, chosen :
              Highlighted(mode, cluster, chosen)' = Highlighted(mode, cluster, chosen)
<1>1. FirstInView' = FirstInView
  BY DEF FirstInView, TargetLine
<1>2. View' = View
  BY <1>1 DEF View
<1>3. Squares' = Squares
  BY <1>2 DEF Squares
<1>4. InView' <=> InView
  BY <1>1 DEF InView, DeviceOpen, SpansBlocks, FirstBlock, LastBlock, FirstCell,
     LastCell, CoarseSize, Dec
<1>5. \A k : Occupants(k)' = Occupants(k)
  BY DEF Occupants, Blocks, Covers, Last
<1>6. \A i : Fragmented(i)' <=> Fragmented(i)
  BY DEF Fragmented
<1>7. TrueColours' = TrueColours
  BY <1>3, <1>5, <1>6 DEF TrueColours, Colour
<1>8. \A i : ClustersOf(i)' = ClustersOf(i)
  BY DEF ClustersOf, Last
<1>9. \A mode, cluster, chosen :
         Highlighted(mode, cluster, chosen)' = Highlighted(mode, cluster, chosen)
  BY <1>2, <1>8 DEF Highlighted
<1> QED
  BY <1>1, <1>3, <1>4, <1>5, <1>6, <1>7, <1>9

\* A handler other than the draw that leaves no draw due leaves everything
\* that is seen as it is.
LEMMA QuietHandler ==
  ASSUME FragviewTypeOK, MapCurrent, ListIsOfThisScan,
         [FragviewNext]_allVars, ~OnDraw, ~redraw'
  PROVE  /\ ~redraw
         /\ UNCHANGED <<vars, target_block, map_width, map_height, display_mode,
                        selected_cluster, selected_files, screen>>
<1> DEFINE Goal ==
      /\ ~redraw
      /\ UNCHANGED <<vars, target_block, map_width, map_height, display_mode,
                     selected_cluster, selected_files, screen>>
<1>1. ASSUME NEW alloc \in Allocations, OnSizeAllocate(alloc) PROVE Goal
  <2>1. /\ ~redraw /\ alloc = allocation
        /\ ~Resized(alloc, cluster_count, cluster_size).moved
        /\ UNCHANGED <<vars, listVars, display_mode, selected_cluster, screen>>
        /\ RecalculateSizes(alloc)
    BY <1>1 DEF OnSizeAllocate
  <2>2. cluster_count' = cluster_count /\ cluster_size' = cluster_size
    BY <2>1 DEF vars
  <2>3. target_block' = target_block
    BY <2>1, <2>2, UnmovedParts DEF RecalculateSizes
  <2>4. map_width' = map_width /\ map_height' = map_height
    BY <2>1, <2>2, ResizedParts DEF RecalculateSizes, MapCurrent
  <2> QED
    BY <2>1, <2>3, <2>4 DEF listVars
<1>2. ASSUME NEW v, SetValue(v),
             UNCHANGED <<vars, listVars, sizeVars, display_mode,
                         selected_cluster, screen>>
      PROVE  Goal
  BY <1>2 DEF SetValue, Follow, listVars, sizeVars
<1>3. ASSUME NEW top, Report(top) PROVE Goal
  BY <1>3 DEF Report, Relist, sizeVars
<1>4. ASSUME NEW x, NEW y, HighlightClusterAt(x, y) PROVE Goal
  BY <1>4 DEF HighlightClusterAt, listVars, sizeVars
<1>5. CASE UNCHANGED allVars
  BY <1>5 DEF allVars, listVars, sizeVars
<1>6. ASSUME NEW direction, OnScroll(direction) PROVE Goal
  BY <1>2, <1>6 DEF OnScroll
<1>7. ASSUME NEW v, OnScrollbarDrag(v) PROVE Goal
  BY <1>2, <1>7 DEF OnScrollbarDrag
<1> QED
  BY <1>1, <1>3, <1>4, <1>5, <1>6, <1>7
     DEF FragviewNext, OnZoom, OnViewMostFragmented, OnViewMostSevere,
         OnViewRestore, OnSelectionChanged, OpenDirectory

\* A draw paints the truth, and learns it of every square.
LEMMA DrawPaintsTruth ==
  ASSUME IInv, IInv', FragviewTypeOK, OnDraw
  PROVE  ViewAccurate' /\ ScreenTruth'
<1>1. UNCHANGED <<files, device_size, cluster_count, cluster_size, granularity,
                  coarse_map, target_block, map_width, map_height>>
  BY DEF OnDraw, FillClusters, sizeVars
<1>2. /\ InView' <=> InView
      /\ FirstInView' = FirstInView
      /\ Squares' = Squares
      /\ TrueColours' = TrueColours
      /\ \A k : Occupants(k)' = Occupants(k)
      /\ \A i : Fragmented(i)' <=> Fragmented(i)
      /\ \A mode, cluster, chosen :
           Highlighted(mode, cluster, chosen)' = Highlighted(mode, cluster, chosen)
  BY <1>1, ViewUntouched
<1>3. ASSUME InView, NEW k \in Squares
      PROVE  IsAccurate(k)' /\ At(k)'.twice = {}
  <2>1. k \in FirstInView .. FirstInView + map_width * map_height - 1
    BY DEF Squares, View
  <2> QED
    BY <1>3, <2>1, ViewType, FillIsTrue DEF InView, OnDraw
<1>4. ViewAccurate'
  BY <1>2, <1>3 DEF ViewAccurate
<1>5. ScreenTruth'
  <2> SUFFICES ASSUME InView
               PROVE  screen' = [mode    |-> display_mode',
                                 first   |-> FirstInView',
                                 colours |-> TrueColours',
                                 marked  |-> Highlighted(display_mode, selected_cluster,
                                                         selected_files)']
    BY <1>2 DEF ScreenTruth
  <2>1. [k \in Squares |-> Colour(At(k)'.free, At(k)'.fragmented)] = TrueColours
    <3>1. ASSUME NEW k \in Squares
          PROVE  /\ At(k)'.free <=> Occupants(k) = {}
                 /\ At(k)'.fragmented <=> \E i \in Occupants(k) : Fragmented(i)
      BY <1>2, <1>3, <3>1 DEF IsAccurate
    <3> QED
      BY <3>1 DEF TrueColours, Colour
  <2>2. screen' = [mode    |-> display_mode,
                   first   |-> FirstInView,
                   colours |-> TrueColours,
                   marked  |-> Highlighted(display_mode, selected_cluster',
                                           selected_files)]
    BY <2>1 DEF OnDraw
  <2>3. display_mode' = display_mode /\ selected_files' = selected_files
    BY DEF OnDraw, listVars
  <2> QED
    BY <1>2, <2>2, <2>3
<1> QED
  BY <1>4, <1>5

\* Every handler leaves the screen true or a draw due.
LEMMA WindowKeepsScreen ==
  ASSUME IInv, IInv', FragviewTypeOK, MapCurrent, ListIsOfThisScan,
         ViewAccurate, ScreenTruth, [FragviewNext]_allVars
  PROVE  ViewAccurate' /\ ScreenTruth'
<1>1. CASE OnDraw
  BY <1>1, DrawPaintsTruth
<1>2. CASE redraw'
  BY <1>2 DEF ViewAccurate, ScreenTruth
<1>3. CASE ~OnDraw /\ ~redraw'
  <2>1. /\ ~redraw
        /\ UNCHANGED <<vars, target_block, map_width, map_height, display_mode,
                       selected_cluster, selected_files, screen>>
    BY <1>3, QuietHandler
  <2>2. /\ InView' <=> InView
        /\ FirstInView' = FirstInView
        /\ Squares' = Squares
        /\ TrueColours' = TrueColours
        /\ \A k : Occupants(k)' = Occupants(k)
        /\ \A i : Fragmented(i)' <=> Fragmented(i)
        /\ \A mode, cluster, chosen :
             Highlighted(mode, cluster, chosen)' = Highlighted(mode, cluster, chosen)
    BY <2>1, ViewUntouched DEF vars
  <2>3. \A k : At(k)' = At(k)
    BY <2>1 DEF vars, At, NewCluster
  <2>4. ViewAccurate'
    BY <2>1, <2>2, <2>3 DEF ViewAccurate, IsAccurate
  <2>5. ScreenTruth'
    BY <2>1, <2>2 DEF ScreenTruth
  <2> QED
    BY <2>4, <2>5
<1> QED
  BY <1>1, <1>2, <1>3

-----------------------------------------------------------------------------
(* The invariant holds. *)

\* The window starts with the invariant.
LEMMA InitWindowInv == FragviewInit => WindowInv
<1> SUFFICES ASSUME FragviewInit PROVE WindowInv
  OBVIOUS
<1>1. IInv /\ CountCurrent
  BY InitIInv, InitCount DEF FragviewInit
<1>2. TwiceListed
  BY DEF FragviewInit, Init, TwiceListed
<1>3. FragviewTypeOK
  BY <1>1 DEF FragviewInit, FragviewTypeOK, IInv, Modes, Blank
<1>4. MapCurrent
  <2>1. allocation = <<1, 1>> /\ cluster_count = 1 /\ map_width = 1 /\ map_height = 1
    BY DEF FragviewInit, Init
  <2>2. 0 \div BoxSize = 0
    BY WindowAssumption
  <2>3. HeightOf(<<1, 1>>) = 1 /\ Columns(1) = 1 /\ Lines(1, 1) = 1
    BY <2>2 DEF HeightOf, Columns, Lines, Larger
  <2>4. WidthOf(<<1, 1>>, 1) = 1
    BY <2>3 DEF WidthOf
  <2> QED
    BY <2>1, <2>3, <2>4 DEF FragviewInit, MapCurrent, Shown, Pixels
<1>5. ListIsOfThisScan
  BY DEF FragviewInit, ListIsOfThisScan
<1>6. ViewAccurate /\ ScreenTruth
  BY DEF FragviewInit, ViewAccurate, ScreenTruth
<1> QED
  BY <1>1, <1>2, <1>3, <1>4, <1>5, <1>6 DEF WindowInv

\* Every handler keeps the invariant.
LEMMA NextWindowInv == WindowInv /\ [FragviewNext]_allVars => WindowInv'
<1> SUFFICES ASSUME WindowInv, [FragviewNext]_allVars PROVE WindowInv'
  OBVIOUS
<1> USE DEF WindowInv
<1>1. AnyStep
  BY WindowIsAnyStep
<1>2. IInv' /\ CountCurrent' /\ TwiceListed'
  BY <1>1, AnyStepIInv, AnyStepCount, AnyStepTwice
<1>3. FragviewTypeOK' /\ MapCurrent' /\ ListIsOfThisScan'
  BY <1>2, WindowKeepsTypes
<1>4. ViewAccurate' /\ ScreenTruth'
  BY <1>2, WindowKeepsScreen
<1> QED
  BY <1>2, <1>3, <1>4

\* The invariant holds in every state of the window.
LEMMA SpecWindowInv == FragviewSpec => []WindowInv
BY InitWindowInv, NextWindowInv, PTL DEF FragviewSpec

-----------------------------------------------------------------------------
(* Theorems. *)

\* The window keeps its types, whatever the user does with it.
THEOREM WindowTypes == FragviewSpec => []FragviewTypeOK
BY SpecWindowInv, PTL DEF WindowInv

\* Class Clusters keeps its promises under the window, which asks for other
\* sizes and other views than the instances of Clusters do.
THEOREM WindowKeepsClusters ==
  FragviewSpec => [](/\ CoarseMapCurrent
                     /\ ClustersTileDevice
                     /\ IndicesValid
                     /\ NothingInvented
                     /\ NothingLost)
<1>1. WindowInv => /\ CoarseMapCurrent
                   /\ ClustersTileDevice
                   /\ IndicesValid
                   /\ NothingInvented
                   /\ NothingLost
  BY CountTiles DEF WindowInv, IInv
<1> QED
  BY <1>1, SpecWindowInv, PTL

\* Each row of the list, and what is selected, is a file of the last scan:
\* files.at(file_idx) never throws (fragmap-widget.cc:351).
THEOREM ListOfThisScan == FragviewSpec => []ListIsOfThisScan
BY SpecWindowInv, PTL DEF WindowInv

\* A screen that is up to date shows the mode, the place and the truth, however
\* the device was scanned, zoomed, scrolled and resized to.
THEOREM ScreenIsTrue == FragviewSpec => []ScreenTruth
BY SpecWindowInv, PTL DEF WindowInv

\* A click on a square lists what is in the cluster painted there, once.
THEOREM ClickLists == FragviewSpec => ClickListsCluster
<1>1. ASSUME WindowInv, NEW p \in Clicks, NEW clicked,
             clicked = screen.first + BoxOf(p[2]) * map_width + BoxOf(p[1]),
             HighlightClusterAt(p[1], p[2]), ~redraw, redraw', InView,
             clicked \in DOMAIN screen.colours
      PROVE  rows' = Rows(Occupants(clicked))
  <2> DEFINE raw == (BoxOf(p[2]) + TargetLine) * map_width + BoxOf(p[1])
  <2>1. screen.first = FirstInView /\ DOMAIN screen.colours = Squares
    BY <1>1 DEF WindowInv, ScreenTruth, TrueColours
  <2>2. clicked \in Squares /\ clicked \in 0 .. cluster_count - 1
    BY <1>1, <2>1 DEF Squares
  <2>3. clicked = raw
    <3>1. BoxOf(p[1]) \in Int /\ BoxOf(p[2]) \in Int
      BY WindowAssumption DEF BoxOf
    <3>2. TargetLine \in Nat /\ map_width \in Nat
      BY <1>1, ViewType DEF WindowInv, FragviewTypeOK
    <3>3. (BoxOf(p[2]) + TargetLine) * map_width =
            TargetLine * map_width + BoxOf(p[2]) * map_width
      BY <3>1, <3>2
    <3>4. /\ TargetLine * map_width \in Int
          /\ BoxOf(p[2]) * map_width \in Int
      BY <3>1, <3>2
    <3> HIDE DEF TargetLine, BoxOf
    <3> QED
      BY <1>1, <2>1, <3>1, <3>3, <3>4 DEF FirstInView
  <2>4. ClusterAt(p[1], p[2]) = clicked
    <3>1. cluster_count \in Nat
      BY <1>1 DEF WindowInv, FragviewTypeOK, TypeOK
    <3> QED
      BY <2>2, <2>3, <3>1 DEF ClusterAt
  <2>5. rows' = Rows(At(clicked).files) \cup {<<i, 2>> : i \in At(clicked).twice}
    BY <1>1, <2>4 DEF HighlightClusterAt, Relist
  <2>6. At(clicked).files = Occupants(clicked) /\ At(clicked).twice = {}
    BY <1>1, <2>2 DEF WindowInv, ViewAccurate, IsAccurate
  <2> QED
    BY <2>5, <2>6 DEF Rows
<1>2. WindowInv =>
        \A p \in Clicks :
          LET clicked == screen.first + BoxOf(p[2]) * map_width + BoxOf(p[1])
          IN  /\ HighlightClusterAt(p[1], p[2]) /\ ~redraw /\ redraw'
              /\ InView
              /\ BoxOf(p[1]) \in 0 .. map_width - 1
              /\ BoxOf(p[2]) \in 0 .. map_height - 1
              /\ clicked \in DOMAIN screen.colours
              => rows' = Rows(Occupants(clicked))
  BY <1>1
<1> QED
  BY <1>2, SpecWindowInv, PTL DEF ClickListsCluster

\* What is selected is a cluster of the map, whatever point is pressed.
THEOREM SelectionIsOnMap == FragviewSpec => SelectsOnMap
<1>1. ASSUME WindowInv, [FragviewNext]_allVars, selected_cluster' # selected_cluster
      PROVE  selected_cluster' < cluster_count'
  <2>1. cluster_count \in Nat \ {0}
    BY <1>1 DEF WindowInv, FragviewTypeOK, TypeOK
  <2>2. CASE OnDraw
    BY <1>1, <2>1, <2>2 DEF OnDraw, FillClusters
  <2>3. ASSUME NEW p \in Clicks, HighlightClusterAt(p[1], p[2])
        PROVE  selected_cluster' < cluster_count'
    <3>1. ClusterAt(p[1], p[2]) \in 0 .. cluster_count - 1
      BY <1>1, ClusterAtType, WindowAssumption DEF WindowInv
    <3>2. selected_cluster' = ClusterAt(p[1], p[2]) /\ cluster_count' = cluster_count
      BY <1>1, <2>3 DEF HighlightClusterAt, vars
    <3> QED
      BY <2>1, <3>1, <3>2
  <2> QED
    BY <1>1, <2>2, <2>3 DEF FragviewNext, allVars, OnSizeAllocate, OnZoom, OnScroll,
       OnScrollbarDrag, OnViewMostFragmented, OnViewMostSevere, OnViewRestore,
       Report, OnSelectionChanged, OpenDirectory
<1> QED
  BY <1>1, SpecWindowInv, PTL DEF SelectsOnMap, FragviewSpec

\* A turn of the wheel is not lost in rounding, for clusters of any size.
THEOREM ZoomIsNotLost == FragviewSpec => ZoomGetsFurther
<1>1. ASSUME WindowInv, OnZoom("down")
      PROVE  \/ cluster_size' > cluster_size
             \/ cluster_size' = device_size \div CapDivisor + 1
  <2>1. cluster_size \in Nat \ {0} /\ device_size \in Nat
    BY <1>1 DEF WindowInv, FragviewTypeOK, TypeOK
  <2>2. Zoomed("down") \in Nat /\ Zoomed("down") > cluster_size
    <3>1. (23 * cluster_size) \div 20 \in Nat
      BY <2>1, DivBounds
    <3> QED
      BY <2>1, <3>1 DEF Zoomed, Larger
  <2>3. SetDesiredClusterSize(Zoomed("down"))
    BY <1>1 DEF OnZoom
  <2>4. cluster_size' = Smaller(Zoomed("down"), device_size \div CapDivisor + 1)
    BY <2>1, <2>2, <2>3 DEF SetDesiredClusterSize
  <2> QED
    BY <2>2, <2>4 DEF Smaller
<1>2. ASSUME WindowInv, OnZoom("up")
      PROVE  cluster_size' < cluster_size \/ cluster_size = 1
  <2> SUFFICES ASSUME cluster_size # 1 PROVE cluster_size' < cluster_size
    OBVIOUS
  <2>1. cluster_size \in Nat /\ cluster_size > 1 /\ device_size \in Nat
    BY <1>2 DEF WindowInv, FragviewTypeOK, TypeOK
  <2>2. Zoomed("up") \in Nat /\ Zoomed("up") < cluster_size
    <3>1. (20 * cluster_size) \div 23 \in Nat /\ (20 * cluster_size) \div 23 < cluster_size
      BY <2>1, SMT
    <3> QED
      BY <2>1, <3>1 DEF Zoomed, Larger
  <2>3. SetDesiredClusterSize(Zoomed("up"))
    BY <1>2 DEF OnZoom
  <2>4. cluster_size' = Smaller(Zoomed("up"), device_size \div CapDivisor + 1)
    BY <2>1, <2>2, <2>3 DEF SetDesiredClusterSize
  <2>5. device_size \div CapDivisor \in Nat
    BY <2>1, ConstantsAssumption, DivBounds
  <2> QED
    BY <2>1, <2>2, <2>4, <2>5 DEF Smaller
<1> QED
  BY <1>1, <1>2, SpecWindowInv, PTL DEF ZoomGetsFurther

\* The value nearest to a line that the scrollbar accepts shows that line.
LEMMA NearestShowsLine ==
  ASSUME NEW line \in Nat, NEW upper \in Nat, NEW page \in Nat \ {0}, line < upper
  PROVE  /\ Clamped(line, upper, page) \in Nat
         /\ Clamped(line, upper, page) =< line
         /\ line + 1 =< Clamped(line, upper, page) + page
BY DEF Clamped, Larger, Smaller

\* Every cluster can be scrolled to, on a map of any size.
THEOREM ScrollReaches == FragviewSpec => []ScrollReachesAll
<1>1. ASSUME WindowInv, Shown, NEW c \in 0 .. cluster_count - 1
      PROVE  \E v \in 0 .. scrollbar.upper :
               LET line == Clamped(v, scrollbar.upper, scrollbar.page)
               IN  c \in line * map_width .. (line + map_height) * map_width - 1
  <2> DEFINE row == c \div map_width
             line == Clamped(row, scrollbar.upper, scrollbar.page)
  <2>1. /\ cluster_count \in Nat /\ map_width \in Nat \ {0}
        /\ map_height \in Nat \ {0} /\ scrollbar.upper \in Nat
    BY <1>1 DEF WindowInv, FragviewTypeOK, TypeOK
  <2>2. /\ scrollbar.upper = (cluster_count - 1) \div map_width + 1
        /\ scrollbar.page = map_height
    BY <1>1 DEF WindowInv, MapCurrent, Lines
  <2>3. c \in Nat /\ cluster_count - 1 \in Nat /\ c =< cluster_count - 1
    BY <2>1
  <2>4. /\ row \in Nat /\ row * map_width \in Nat
        /\ row * map_width =< c /\ c < (row + 1) * map_width
    BY <2>1, <2>3, DivBounds
  <2>5. row < scrollbar.upper
    <3>1. row =< (cluster_count - 1) \div map_width
      BY <2>1, <2>3, DivMonotone
    <3>2. (cluster_count - 1) \div map_width \in Nat
      BY <2>1, <2>3, DivBounds
    <3> HIDE DEF row
    <3> QED
      BY <2>2, <2>4, <3>1, <3>2
  <2> HIDE DEF row
  <2>6. line \in Nat /\ line =< row /\ row + 1 =< line + map_height
    BY <2>1, <2>2, <2>4, <2>5, NearestShowsLine
  <2>7. row \in 0 .. scrollbar.upper
    BY <2>1, <2>4, <2>5
  <2> HIDE DEF line
  <2>8. line * map_width =< row * map_width /\ line * map_width \in Nat
    BY <2>1, <2>4, <2>6, TimesMonotone
  <2>9. /\ (row + 1) * map_width =< (line + map_height) * map_width
        /\ (row + 1) * map_width \in Nat /\ (line + map_height) * map_width \in Nat
    <3>1. row + 1 \in Nat /\ line + map_height \in Nat /\ map_width \in Nat
      BY <2>1, <2>4, <2>6
    <3>2. (line + map_height) * map_width \in Nat
      BY <3>1, TimesMonotone
    <3> QED
      BY <2>6, <3>1, <3>2, TimesMonotone
  <2>10. c \in line * map_width .. (line + map_height) * map_width - 1
    BY <2>3, <2>4, <2>8, <2>9
  <2> QED
    BY <2>7, <2>10 DEF line
<1>2. WindowInv => ScrollReachesAll
  BY <1>1 DEF ScrollReachesAll
<1> QED
  BY <1>2, SpecWindowInv, PTL

\* What is below a number is at most the one before it.
LEMMA BelowIsUpTo ==
  ASSUME NEW a \in Nat, NEW b \in Nat, a < b
  PROVE  a =< b - 1 /\ b - 1 \in Nat
OBVIOUS

\* A view that starts on the device stays on it and on the map, unless a
\* smaller device is opened.
THEOREM ViewStays == FragviewSpec => ViewStaysOnMap
<1>1. ASSUME WindowInv, WindowInv', [FragviewNext]_allVars,
             target_block < device_size, device_size =< device_size'
      PROVE  target_block' < device_size' /\ FirstInView' < cluster_count'
  <2>0. /\ device_size \in Nat /\ device_size' \in Nat
        /\ target_block \in Nat /\ target_block' \in Nat
        /\ cluster_size \in Nat \ {0} /\ cluster_size' \in Nat \ {0}
        /\ map_width \in Nat \ {0} /\ map_width' \in Nat \ {0}
        /\ scrollbar \in [value : Nat, upper : Nat, page : Nat]
        /\ scrollbar.page = 0 => scrollbar.value = 0 /\ target_block = 0
        /\ allocation \in Pixels
    BY <1>1 DEF WindowInv, FragviewTypeOK, TypeOK, MapCurrent
  <2>1. /\ device_size \in Nat \ {0} /\ device_size' \in Nat \ {0}
        /\ target_block < device_size'
    <3>1. /\ device_size \in Nat /\ device_size' \in Nat /\ target_block \in Nat
      BY <2>0
    <3> QED
      BY <1>1, <3>1
  <2>2. /\ cluster_count = CountFor(cluster_size, device_size)
        /\ cluster_count' = CountFor(cluster_size', device_size')
    BY <1>1 DEF WindowInv, CountCurrent, CountFor, Dec
  <2>3. ASSUME NEW alloc \in Pixels, RecalculateSizes(alloc)
        PROVE  target_block' < device_size'
    <3>1. target_block < device_size'
      BY <1>1, <2>1
    <3> QED
      BY <2>0, <2>1, <2>2, <2>3, <3>1, ResizedStays DEF RecalculateSizes
  <2>4. ASSUME NEW v \in Int, SetValue(v), Shown, UNCHANGED vars
        PROVE  target_block' < device_size'
    <3> DEFINE value == Clamped(v, scrollbar.upper, scrollbar.page)
               old == scrollbar.value
    <3>1. /\ scrollbar.page \in Nat /\ scrollbar.upper \in Nat /\ old \in Nat
          /\ scrollbar.page # 0
          /\ scrollbar.upper = Lines(cluster_count, map_width)
      BY <1>1, <2>0, <2>1, <2>4 DEF WindowInv, MapCurrent
    <3>2. scrollbar.upper # 0
      BY <1>1, <3>1, SizeType DEF WindowInv, MapCurrent, FragviewTypeOK, TypeOK
    <3>3. value \in Nat /\ value < scrollbar.upper
      BY <3>1, <3>2, ClampedType
    <3>4. target_block' = Follow(old, value, target_block, map_width, cluster_size)
      BY <2>4 DEF SetValue
    <3> HIDE DEF value, old
    <3>5. target_block' < device_size
      BY <1>1, <2>0, <2>1, <2>2, <3>1, <3>3, <3>4, FollowStays
    <3> QED
      BY <2>4, <3>5 DEF vars
  <2>5. target_block' < device_size'
    <3>1. ASSUME NEW alloc \in Allocations, OnSizeAllocate(alloc)
          PROVE  target_block' < device_size'
      BY <2>3, <3>1, WindowAssumption DEF OnSizeAllocate, Pixels
    <3>2. ASSUME NEW direction, OnZoom(direction) PROVE target_block' < device_size'
      BY <2>0, <2>1, <2>3, <3>2 DEF OnZoom
    <3>3. CASE OpenDirectory
      BY <2>0, <2>1, <2>3, <3>3 DEF OpenDirectory
    <3>4. ASSUME NEW direction, OnScroll(direction)
          PROVE  target_block' < device_size'
      <4> DEFINE v == CASE direction = "up" -> scrollbar.value - 1
                        [] direction = "down" -> scrollbar.value + 1
                        [] OTHER -> scrollbar.value
      <4>1. v \in Int
        BY <2>0, <2>1
      <4> HIDE DEF v
      <4>2. SetValue(v) /\ Shown /\ UNCHANGED vars
        BY <3>4 DEF OnScroll, v
      <4> QED
        BY <2>4, <4>1, <4>2
    <3>5. ASSUME NEW v \in 0 .. scrollbar.upper, OnScrollbarDrag(v)
          PROVE  target_block' < device_size'
      BY <2>0, <2>1, <2>4, <3>5 DEF OnScrollbarDrag
    <3>6. CASE target_block' = target_block
      BY <1>1, <2>0, <2>1, <3>6
    <3> QED
      BY <1>1, <3>1, <3>2, <3>3, <3>4, <3>5, <3>6
         DEF FragviewNext, allVars, OnDraw, OnViewMostFragmented, OnViewMostSevere,
             OnViewRestore, Report, OnSelectionChanged, HighlightClusterAt
  <2>6. FirstInView' < cluster_count'
    <3>1. FirstInView' \in Nat /\ FirstInView' =< target_block' \div cluster_size'
      BY <2>0, LineBelow DEF FirstInView, TargetLine
    <3>2. target_block' =< device_size' - 1 /\ device_size' - 1 \in Nat
      <4>1. device_size' \in Nat /\ target_block' \in Nat
        BY <2>0
      <4>2. target_block' < device_size'
        BY <2>5
      <4> QED
        BY <4>1, <4>2, BelowIsUpTo
    <3>3. target_block' \div cluster_size' =< (device_size' - 1) \div cluster_size'
      BY <2>0, <2>1, <3>2, DivMonotone
    <3>4. cluster_count' = (device_size' - 1) \div cluster_size' + 1
      BY <2>0, <2>1, <2>2 DEF CountFor, Dec
    <3>5. /\ (device_size' - 1) \div cluster_size' \in Nat
          /\ target_block' \div cluster_size' \in Nat
      BY <2>0, <2>1, <3>2, DivBounds
    <3> QED
      BY <3>1, <3>3, <3>4, <3>5
  <2> QED
    BY <2>5, <2>6
<1>2. WindowInv /\ WindowInv' /\ [FragviewNext]_allVars =>
        (target_block < device_size /\ device_size =< device_size' =>
           target_block' < device_size' /\ (FirstInView < cluster_count)')
  BY <1>1
<1> QED
  BY <1>2, SpecWindowInv, PTL DEF ViewStaysOnMap, FragviewSpec

-----------------------------------------------------------------------------
(* The window implements DiskMap. *)

\* The colour of a square is the one the display of README.md gives it.
LEMMA ColourIsDisplayed ==
  ASSUME TypeOK, NEW k
  PROVE  Colour(Occupants(k) = {}, \E i \in Occupants(k) : Fragmented(i))
           = Display!Colour(k)
<1>1. ASSUME NEW i \in DOMAIN files
      PROVE  i \in Occupants(k) <=> Display!HasBlockIn(i, k)
  <2>1. ASSUME NEW b \in Blocks, NEW e \in files[i].extents
        PROVE  b =< Last(e) <=> b < e.start + e.length
    <3>0. files[i] \in FileInfo
      BY DEF TypeOK
    <3>1. files[i].extents \subseteq Extent
      BY <3>0 DEF FileInfo
    <3>2. e.start \in Nat /\ e.length \in Nat
      BY <3>1 DEF Extent
    <3>3. b \in Int
      BY DEF Blocks
    <3> QED
      BY <3>2, <3>3 DEF Last
  <2> QED
    BY <2>1 DEF Occupants, Covers, Blocks, Display!HasBlockIn
<1>2. Occupants(k) = {i \in DOMAIN files : Display!HasBlockIn(i, k)}
  BY <1>1 DEF Occupants
<1> QED
  BY <1>2 DEF Colour, Display!Colour, Fragmented

\* Each handler shows as a step of the display, and what the window asks to be
\* drawn is drawn as README.md says.
THEOREM WindowImplementsDiskMap == FragviewSpec => ImplementsDiskMap
<1>1. FragviewInit => Display!Init
  BY DEF FragviewInit, Display!Init
<1>2. ASSUME WindowInv, WindowInv', [FragviewNext]_allVars
      PROVE  [Display!Next]_(Display!vars)
  <2>1. CASE OnDraw
    <3>1. UNCHANGED <<files, device_size, cluster_count, cluster_size, granularity,
                      coarse_map, target_block, map_width, map_height>>
      BY <2>1 DEF OnDraw, FillClusters, sizeVars
    <3>2. /\ InView' <=> InView
          /\ Squares' = Squares
          /\ TrueColours' = TrueColours
      BY <3>1, ViewUntouched
    <3>3. ASSUME InView PROVE screen'.colours = [k \in Squares |-> Display!Colour(k)]
      <4>1. screen'.colours = TrueColours
        BY <1>2, <2>1, <3>2, <3>3 DEF WindowInv, ScreenTruth, OnDraw
      <4> QED
        BY <1>2, <4>1, ColourIsDisplayed DEF TrueColours, WindowInv, FragviewTypeOK
    <3>4. redraw /\ redraw' = FALSE
      BY <2>1 DEF OnDraw
    <3> QED
      BY <3>1, <3>2, <3>3, <3>4 DEF Display!Next, Display!Paint
  <2>2. CASE ~OnDraw /\ redraw'
    <3>1. UNCHANGED screen
      BY <1>2, <2>2 DEF FragviewNext, allVars, OnSizeAllocate, OnZoom, OnScroll,
         OnScrollbarDrag, OnViewMostFragmented, OnViewMostSevere, OnViewRestore,
         Report, OnSelectionChanged, HighlightClusterAt, OpenDirectory
    <3>2. redraw' = TRUE
      BY <1>2, <2>2 DEF WindowInv, FragviewTypeOK
    <3> QED
      BY <3>1, <3>2 DEF Display!Next, Display!Change
  <2>3. CASE ~OnDraw /\ ~redraw'
    <3>1. /\ ~redraw
          /\ UNCHANGED <<vars, target_block, map_width, map_height, screen>>
      BY <1>2, <2>3, QuietHandler DEF WindowInv
    <3>2. (InView' <=> InView) /\ Squares' = Squares
      BY <3>1, ViewUntouched DEF vars
    <3>3. InView' = InView /\ redraw' = redraw
      BY <1>2, <2>3, <3>1, <3>2 DEF WindowInv, FragviewTypeOK, InView
    <3> QED
      BY <3>1, <3>2, <3>3 DEF Display!vars, vars
  <2> QED
    BY <2>1, <2>2, <2>3
<1> QED
  BY <1>1, <1>2, SpecWindowInv, PTL DEF FragviewSpec, ImplementsDiskMap, Display!Spec
=============================================================================
