--------------------------- MODULE ClustersProofs ---------------------------
(***************************************************************************)
(* Proofs about Clusters, for every granularity, cap, set of scans and set *)
(* of views.                                                               *)
(***************************************************************************)
EXTENDS Clusters, FiniteSetTheorems, TLAPS

-----------------------------------------------------------------------------
(* Arithmetic of cells and clusters. *)

\* The cell of a number starts at or before it and ends after it.
LEMMA DivBounds ==
  ASSUME NEW a \in Nat, NEW g \in Nat \ {0}
  PROVE  /\ a \div g \in Nat
         /\ (a \div g) * g \in Nat
         /\ (a \div g) * g =< a
         /\ a < (a \div g + 1) * g
OBVIOUS

\* The cells are in the order of the blocks in them.
LEMMA DivMonotone ==
  ASSUME NEW a \in Nat, NEW b \in Nat, NEW g \in Nat \ {0}, a =< b
  PROVE  a \div g =< b \div g
OBVIOUS

\* The cells start in the order of their numbers.
LEMMA TimesMonotone ==
  ASSUME NEW a \in Nat, NEW b \in Nat, NEW g \in Nat, a =< b
  PROVE  /\ a * g =< b * g
         /\ a * g \in Nat
OBVIOUS

\* A number below the start of cell c + 1 is in cell c or in one before it.
LEMMA DivBelow ==
  ASSUME NEW a \in Nat, NEW c \in Nat, NEW g \in Nat \ {0}, a < (c + 1) * g
  PROVE  a \div g =< c
OBVIOUS

\* A number from the start of cell c on is in cell c or in one after it.
LEMMA DivAbove ==
  ASSUME NEW a \in Nat, NEW c \in Nat, NEW g \in Nat \ {0}, c * g =< a
  PROVE  c =< a \div g
OBVIOUS

\* n - 1 in uint64_t is never negative.
LEMMA DecType == \A n \in Nat : Dec(n) \in Nat
BY ConstantsAssumption DEF Dec

\* A device has at least one cluster, also when it has no blocks.
LEMMA CountForType ==
  ASSUME NEW size \in Nat \ {0}, NEW blocks \in Nat
  PROVE  CountFor(size, blocks) \in Nat \ {0}
BY DecType, DivBounds DEF CountFor

-----------------------------------------------------------------------------
(* Types and the coarse map. *)

\* The cells of the coarse map, and the files they list.
LEMMA CoarseMapType ==
  ASSUME NEW g \in Nat \ {0}, NEW blocks \in Nat, NEW fs \in Seq(FileInfo)
  PROVE  /\ DOMAIN CoarseMap(g, blocks, fs) = 0 .. Dec(blocks) \div g
         /\ \A c \in DOMAIN CoarseMap(g, blocks, fs) :
              /\ CoarseMap(g, blocks, fs)[c] \subseteq DOMAIN fs
              /\ CoarseMap(g, blocks, fs)[c] \subseteq Nat
BY DEF CoarseMap

\* The extents of a file of a scan have a first and a last block.
LEMMA ExtentType ==
  ASSUME TypeOK, NEW i \in DOMAIN files, NEW e \in files[i].extents
  PROVE  e.start \in Nat /\ Last(e) \in Nat /\ e.start =< Last(e)
<1>1. files[i] \in FileInfo
  BY DEF TypeOK
<1>2. files[i].extents \subseteq Extent
  BY <1>1 DEF FileInfo
<1>3. e.start \in Nat /\ e.length \in Nat /\ e.length >= 1
  BY <1>2 DEF Extent
<1> QED
  BY <1>3 DEF Last

\* A look-up in clusters_ gives a cluster, entered or new.
LEMMA AtType ==
  ASSUME TypeOK, NEW k \in Nat
  PROVE  At(k) \in ClusterInfo
BY DEF TypeOK, At, NewCluster, ClusterInfo

\* Where a fill begins and ends, in cells and in blocks.
LEMMA Geometry ==
  ASSUME TypeOK, NEW m \in Nat, NEW n \in Nat \ {0}
  PROVE  /\ CoarseSize = Dec(device_size) \div granularity + 1
         /\ FirstCell(m) \in Nat
         /\ LastCell(m, n) \in Nat
         /\ LastCell(m, n) =< Dec(device_size) \div granularity
         /\ FirstBlock(m) \in Nat
         /\ LastBlock(m, n) \in Nat
         /\ LastBlock(m, n) =< Dec(device_size)
         /\ LastBlock(m, n) < (LastCell(m, n) + 1) * granularity
<1>1. Dec(device_size) \in Nat
  BY DecType DEF TypeOK
<1>2. Dec(device_size) \div granularity \in Nat
  BY <1>1, DivBounds DEF TypeOK
<1>3. CoarseSize = Dec(device_size) \div granularity + 1
  BY <1>2, FS_Interval DEF TypeOK, CoarseSize
<1>4. FirstCell(m) \in Nat
  <2>1. m * cluster_size \in Nat
    BY TimesMonotone DEF TypeOK
  <2> QED
    BY <2>1, DivBounds DEF TypeOK, FirstCell
<1>5. ((m + n) * cluster_size - 1) \div granularity \in Nat
  <2>1. 1 * 1 =< (m + n) * cluster_size /\ (m + n) * cluster_size \in Nat
    BY SMT DEF TypeOK
  <2> QED
    BY <2>1, DivBounds DEF TypeOK
<1>6. LastCell(m, n) \in Nat /\ LastCell(m, n) =< Dec(device_size) \div granularity
  BY <1>2, <1>3, <1>5 DEF LastCell, Smaller
<1>7. FirstBlock(m) \in Nat
  BY <1>4, TimesMonotone DEF TypeOK, FirstBlock
<1>8. (LastCell(m, n) + 1) * granularity \in Nat \ {0}
  BY <1>6, SMT DEF TypeOK
<1>9. /\ LastBlock(m, n) \in Nat
      /\ LastBlock(m, n) =< Dec(device_size)
      /\ LastBlock(m, n) < (LastCell(m, n) + 1) * granularity
  BY <1>1, <1>8 DEF LastBlock, Smaller
<1> QED
  BY <1>3, <1>4, <1>6, <1>7, <1>9

\* The cells a fill looks up are cells of the view and of the coarse map.
LEMMA CellsInView ==
  ASSUME TypeOK, NEW m \in Nat, NEW n \in Nat \ {0}, NEW c \in CellsToScan(m, n)
  PROVE  /\ c \in FirstCell(m) .. LastCell(m, n)
         /\ c \in DOMAIN coarse_map
         /\ FirstBlock(m) < LastBlock(m, n)
<1>1. PICK x \in Requested(m, n) :
        c \in {x \div granularity, (x + 1) \div granularity}
  BY DEF CellsToScan
<1>2. PICK b \in {x, x + 1} : c = b \div granularity
  BY <1>1
<1>a. /\ FirstBlock(m) \in Nat
      /\ LastBlock(m, n) \in Nat
      /\ x \in FirstBlock(m) .. LastBlock(m, n) - 1
  BY <1>1, Geometry DEF Requested
<1>b. FirstBlock(m) < LastBlock(m, n) /\ b \in FirstBlock(m) .. LastBlock(m, n)
  BY <1>2, <1>a
<1>3. b \in Nat /\ c \in Nat
  BY <1>2, <1>a, <1>b, DivBounds DEF TypeOK
<1>g. /\ granularity \in Nat \ {0}
      /\ FirstCell(m) \in Nat
      /\ LastCell(m, n) \in Nat
      /\ LastCell(m, n) =< Dec(device_size) \div granularity
      /\ LastBlock(m, n) < (LastCell(m, n) + 1) * granularity
      /\ Dec(device_size) \div granularity \in Nat
  BY Geometry, DecType, DivBounds DEF TypeOK
<1>4. FirstCell(m) =< c
  <2>1. FirstCell(m) * granularity =< b
    BY <1>a, <1>b DEF FirstBlock
  <2> QED
    BY <1>2, <1>3, <1>g, <2>1, DivAbove
<1>5. c =< LastCell(m, n)
  <2>1. b < (LastCell(m, n) + 1) * granularity
    <3>1. (LastCell(m, n) + 1) * granularity \in Nat
      BY <1>g, TimesMonotone
    <3> QED
      BY <1>3, <1>a, <1>b, <1>g, <3>1
  <2> QED
    BY <1>2, <1>3, <1>g, <2>1, DivBelow
<1>6. c \in 0 .. Dec(device_size) \div granularity
  BY <1>3, <1>5, <1>g
<1> QED
  BY <1>3, <1>4, <1>5, <1>6, <1>b, <1>g DEF TypeOK

\* The queue of a fill holds indices of files.
LEMMA QueueType ==
  ASSUME TypeOK, NEW m \in Nat, NEW n \in Nat \ {0}
  PROVE  FileQueue(m, n) \subseteq Nat
BY CellsInView DEF TypeOK, FileQueue

\* A fill makes clusters of clusters.
LEMMA RefilledType ==
  ASSUME TypeOK, NEW m \in Nat, NEW n \in Nat \ {0}, NEW k \in Nat
  PROVE  Refilled(k, m, n) \in ClusterInfo
<1>1. Entered(k, m, n) \subseteq Nat
  BY QueueType DEF Entered
<1>2. At(k) \in ClusterInfo
  BY AtType
<1> QED
  BY <1>1, <1>2 DEF Refilled, ClusterInfo

\* The clusters a fill reaches have numbers from 0 on.
LEMMA ReachedType ==
  ASSUME TypeOK, NEW m \in Nat, NEW n \in Nat \ {0}
  PROVE  ClustersReached(m, n) \subseteq Nat
<1>1. FirstBlock(m) \div cluster_size \in Nat
  BY Geometry, DivBounds DEF TypeOK
<1>2. LastBlock(m, n) \div cluster_size \in Nat
  BY Geometry, DivBounds DEF TypeOK
<1> QED
  BY <1>1, <1>2 DEF ClustersReached

-----------------------------------------------------------------------------
(* The inductive invariant.  A fill is right only if the coarse map is the *)
(* index of the files, if the indices in it are indices of files, and if   *)
(* what the cache lets it skip has been entered before.                    *)

IInv ==
  /\ TypeOK
  /\ CoarseMapCurrent
  /\ IndicesValid
  /\ NothingInvented
  /\ NothingLost

\* The constructor establishes the invariant.
LEMMA InitIInv == Init => IInv
<1> SUFFICES ASSUME Init PROVE IInv
  OBVIOUS
<1>0. /\ files \in Seq(FileInfo)
      /\ device_size \in Nat
      /\ granularity \in Nat \ {0}
      /\ coarse_map = CoarseMap(granularity, device_size, files)
  BY DEF Init
<1>a. /\ DOMAIN coarse_map = 0 .. Dec(device_size) \div granularity
      /\ \A c \in DOMAIN coarse_map :
           coarse_map[c] \subseteq Nat /\ coarse_map[c] \subseteq DOMAIN files
  BY <1>0, CoarseMapType
<1>1. TypeOK
  BY <1>0, <1>a, ConstantsAssumption DEF Init, TypeOK
<1>2. CoarseMapCurrent
  BY DEF Init, CoarseMapCurrent
<1>3. IndicesValid
  BY <1>a DEF Init, IndicesValid
<1>4. NothingInvented /\ NothingLost
  BY DEF Init, NothingInvented, NothingLost, DeviceOpen
<1> QED
  BY <1>1, <1>2, <1>3, <1>4 DEF IInv

\* What a scan finds has its types.
LEMMA ScanType ==
  ASSUME NEW scan \in Scans
  PROVE  scan.device_size \in Nat /\ scan.files \in Seq(FileInfo)
BY ConstantsAssumption DEF Scan

\* A scan keeps the invariant: it starts from empty caches.
LEMMA ScanDirIInv ==
  ASSUME IInv, NEW scan \in Scans, ScanDir(scan)
  PROVE  IInv'
<1> USE DEF ScanDir, CollectFragments, CreateCoarseMap, ClearCaches
<1>1. /\ files' \in Seq(FileInfo)
      /\ device_size' \in Nat
      /\ granularity' \in Nat \ {0}
      /\ coarse_map' = CoarseMap(granularity', device_size', files')
  BY ScanType, ConstantsAssumption
<1>2. TypeOK'
  <2>1. cluster_count' \in Nat \ {0}
    BY ScanType, CountForType DEF IInv, TypeOK
  <2>2. /\ DOMAIN coarse_map' = 0 .. Dec(device_size') \div granularity'
        /\ \A c \in DOMAIN coarse_map' : coarse_map'[c] \subseteq Nat
    BY <1>1, CoarseMapType
  <2> QED
    BY <1>1, <2>1, <2>2 DEF IInv, TypeOK, Dec
<1>3. CoarseMapCurrent'
  BY <1>1 DEF CoarseMapCurrent, CoarseMap, Dec, Last
<1>4. IndicesValid'
  BY <1>1, CoarseMapType DEF IndicesValid
<1>5. NothingInvented' /\ NothingLost'
  BY DEF NothingInvented, NothingLost, IsFilled
<1> QED
  BY <1>2, <1>3, <1>4, <1>5 DEF IInv

\* A scan that failed keeps the invariant: its device has no blocks to be
\* true of, and the coarse map is made anew.
LEMMA ScanDirFailsIInv ==
  ASSUME IInv, ScanDirFails
  PROVE  IInv'
<1> USE DEF ScanDirFails, CollectNothing, CreateCoarseMap
<1>1. /\ files' \in Seq(FileInfo)
      /\ device_size' \in Nat
      /\ granularity' \in Nat \ {0}
      /\ coarse_map' = CoarseMap(granularity', device_size', files')
  BY ConstantsAssumption DEF IInv, TypeOK
<1>2. TypeOK'
  <2>1. /\ DOMAIN coarse_map' = 0 .. Dec(device_size') \div granularity'
        /\ \A c \in DOMAIN coarse_map' : coarse_map'[c] \subseteq Nat
    BY <1>1, CoarseMapType
  <2> QED
    BY <1>1, <2>1 DEF IInv, TypeOK, Dec, ClusterInfo
<1>3. CoarseMapCurrent'
  BY <1>1 DEF CoarseMapCurrent, CoarseMap, Dec, Last
<1>4. IndicesValid'
  BY <1>1, CoarseMapType DEF IInv, IndicesValid
<1>5. NothingInvented' /\ NothingLost'
  BY DEF NothingInvented, NothingLost, DeviceOpen
<1> QED
  BY <1>2, <1>3, <1>4, <1>5 DEF IInv

\* A call that changes nothing keeps the invariant.
LEMMA StutterIInv ==
  ASSUME IInv, UNCHANGED vars
  PROVE  IInv'
<1> USE DEF vars
<1>1. TypeOK'
  BY DEF IInv, TypeOK, Dec
<1>2. CoarseMapCurrent'
  BY DEF IInv, CoarseMapCurrent, CoarseMap, Dec, Last
<1>3. IndicesValid'
  BY DEF IInv, IndicesValid
<1>4. NothingInvented'
  <2>1. NothingInvented
    BY DEF IInv
  <2> QED
    BY <2>1 DEF NothingInvented, DeviceOpen, Blocks, Covers, Occupants,
       Fragmented, Last
<1>5. NothingLost'
  <2>1. NothingLost
    BY DEF IInv
  <2> QED
    BY <2>1 DEF NothingLost, DeviceOpen, Blocks, Covers, IsFilled, At,
       NewCluster, Last
<1> QED
  BY <1>1, <1>2, <1>3, <1>4, <1>5 DEF IInv

\* Zooming keeps the invariant: it clears the caches.
LEMMA ZoomIInv ==
  ASSUME IInv, NEW ds \in Nat \ {0}, SetDesiredClusterSize(ds)
  PROVE  IInv'
<1>1. CASE UNCHANGED vars
  BY <1>1, StutterIInv
<1>2. CASE cluster_size # ds
  <2> USE DEF ClearCaches
  <2>1. /\ cluster_size' = Smaller(ds, device_size \div CapDivisor + 1)
        /\ cluster_count' = CountFor(cluster_size', device_size)
        /\ ClearCaches
        /\ UNCHANGED <<files, device_size, granularity, coarse_map>>
    BY <1>2 DEF SetDesiredClusterSize, vars
  <2>2. TypeOK'
    <3>1. cluster_size' \in Nat \ {0}
      BY <2>1, ConstantsAssumption, DivBounds DEF IInv, TypeOK, Smaller
    <3>2. cluster_count' \in Nat \ {0}
      BY <2>1, <3>1, CountForType DEF IInv, TypeOK
    <3> QED
      BY <2>1, <3>1, <3>2 DEF IInv, TypeOK, Dec
  <2>3. CoarseMapCurrent'
    BY <2>1 DEF IInv, CoarseMapCurrent, CoarseMap, Dec, Last
  <2>4. IndicesValid'
    BY <2>1 DEF IInv, IndicesValid
  <2>5. NothingInvented' /\ NothingLost'
    BY <2>1 DEF NothingInvented, NothingLost, IsFilled
  <2> QED
    BY <2>2, <2>3, <2>4, <2>5 DEF IInv
<1> QED
  BY <1>1, <1>2 DEF SetDesiredClusterSize


-----------------------------------------------------------------------------
(* A fill. *)

\* What a fill leaves in each cluster, reached or not.
LEMMA AfterFill ==
  ASSUME IInv, NEW m \in Nat, NEW n \in Nat \ {0}, FillClusters(m, n),
         NEW k \in Nat
  PROVE  /\ At(k)'.files = At(k).files \cup Entered(k, m, n)
         /\ k \in m .. m + n - 1 => At(k)'.twice = {}
         /\ k \notin DOMAIN clusters' => Entered(k, m, n) = {}
<1> DEFINE reached == ClustersReached(m, n)
<1>1. DOMAIN clusters' = DOMAIN clusters \cup reached
  BY DEF FillClusters
<1>2. CASE k \in DOMAIN clusters'
  <2>1. At(k)' = Refilled(k, m, n)
    BY <1>1, <1>2 DEF FillClusters, At
  <2> QED
    BY <1>2, <2>1 DEF Refilled
<1>3. CASE k \notin DOMAIN clusters'
  <2>1. At(k) = NewCluster /\ At(k)' = NewCluster
    BY <1>1, <1>3 DEF At, NewCluster
  <2>2. Entered(k, m, n) = {}
    <3> SUFFICES ASSUME NEW i \in Entered(k, m, n) PROVE FALSE
      OBVIOUS
    <3>1. PICK e \in files[i].extents : e \in Hits(i, k, m, n)
      BY DEF Entered, Hits
    <3>2. i \in DOMAIN files
      BY CellsInView DEF Entered, FileQueue, IInv, IndicesValid
    <3>3. e.start \in Nat /\ Last(e) \in Nat
      BY <3>1, <3>2, ExtentType DEF IInv
    <3>4. /\ FirstBlock(m) \in Nat
          /\ LastBlock(m, n) \in Nat
          /\ cluster_size \in Nat \ {0}
      BY Geometry DEF IInv, TypeOK
    <3>5. /\ FirstBlock(m) \div cluster_size =< k
          /\ k =< LastBlock(m, n) \div cluster_size
      <4>1. FirstBlock(m) \div cluster_size
              =< Larger(e.start, FirstBlock(m)) \div cluster_size
        BY <3>3, <3>4, DivMonotone DEF Larger
      <4>2. Smaller(Last(e), LastBlock(m, n)) \div cluster_size
              =< LastBlock(m, n) \div cluster_size
        BY <3>3, <3>4, DivMonotone DEF Smaller
      <4>3. /\ FirstBlock(m) \div cluster_size \in Nat
            /\ LastBlock(m, n) \div cluster_size \in Nat
            /\ Larger(e.start, FirstBlock(m)) \div cluster_size \in Nat
            /\ Smaller(Last(e), LastBlock(m, n)) \div cluster_size \in Nat
        BY <3>3, <3>4, DivBounds DEF Larger, Smaller
      <4> QED
        BY <3>1, <4>1, <4>2, <4>3 DEF Hits
    <3>6. k \in FirstBlock(m) \div cluster_size
                 .. LastBlock(m, n) \div cluster_size
      BY <3>4, <3>5, DivBounds
    <3> QED
      BY <1>1, <1>3, <3>6 DEF ClustersReached
  <2> QED
    BY <2>1, <2>2 DEF NewCluster
<1> QED
  BY <1>2, <1>3

\* A file is entered in a cluster only if it has a block of the device there.
LEMMA EnteredOccupies ==
  ASSUME IInv, DeviceOpen, NEW m \in Nat, NEW n \in Nat \ {0}, NEW k \in Nat,
         NEW i \in Entered(k, m, n)
  PROVE  i \in Occupants(k)
<1> DEFINE fb == FirstBlock(m)
           lb == LastBlock(m, n)
           cs == cluster_size
<1>1. PICK c \in CellsToScan(m, n) : i \in coarse_map[c]
  BY DEF Entered, FileQueue
<1>2. i \in DOMAIN files
  BY <1>1, CellsInView DEF IInv, IndicesValid
<1>3. PICK e \in files[i].extents : e \in Hits(i, k, m, n)
  BY DEF Entered, Hits
<1>4. e.start \in Nat /\ Last(e) \in Nat /\ e.start =< Last(e)
  BY <1>2, <1>3, ExtentType DEF IInv
<1>5. fb \in Nat /\ lb \in Nat /\ cs \in Nat \ {0} /\ fb < lb
  BY <1>1, CellsInView, Geometry DEF IInv, TypeOK
<1>6. lb =< device_size - 1 /\ device_size \in Nat
  BY Geometry DEF IInv, TypeOK, DeviceOpen, Dec
<1> DEFINE lo == Larger(e.start, fb)
           hi == Smaller(Last(e), lb)
           b == Larger(lo, k * cs)
<1>7. /\ e.start =< lb
      /\ fb =< Last(e)
      /\ lo \div cs =< k
      /\ k =< hi \div cs
  BY <1>3 DEF Hits
<1>8. lo \in Nat /\ hi \in Nat /\ lo =< hi
  BY <1>4, <1>5, <1>7 DEF Larger, Smaller
<1>9. k * cs =< hi /\ k * cs \in Nat
  <2>1. hi \div cs \in Nat /\ (hi \div cs) * cs =< hi /\ (hi \div cs) * cs \in Nat
    BY <1>5, <1>8, DivBounds
  <2>2. k * cs =< (hi \div cs) * cs /\ k * cs \in Nat
    BY <1>5, <1>7, <2>1, TimesMonotone
  <2> QED
    BY <1>8, <2>1, <2>2
<1>10. lo < (k + 1) * cs
  <2>1. lo \div cs \in Nat /\ lo < (lo \div cs + 1) * cs
    BY <1>5, <1>8, DivBounds
  <2>2. /\ (lo \div cs + 1) * cs =< (k + 1) * cs
        /\ (lo \div cs + 1) * cs \in Nat
        /\ (k + 1) * cs \in Nat
    <3>1. lo \div cs + 1 =< k + 1 /\ lo \div cs + 1 \in Nat /\ k + 1 \in Nat
      BY <1>7, <2>1
    <3> QED
      BY <1>5, <3>1, TimesMonotone
  <2> QED
    BY <1>8, <2>1, <2>2
<1>11. /\ b \in Nat
       /\ e.start =< b
       /\ b =< Last(e)
       /\ b =< device_size - 1
       /\ k * cs =< b
  BY <1>4, <1>5, <1>6, <1>8, <1>9 DEF Larger, Smaller
<1>12. b < (k + 1) * cs
  <2>1. k * cs < (k + 1) * cs
    BY <1>5
  <2> QED
    BY <1>8, <1>9, <1>10, <2>1 DEF Larger
<1>13. b \div cs = k
  <2>1. b \div cs \in Nat /\ b \div cs =< k
    BY <1>5, <1>11, <1>12, DivBelow, DivBounds
  <2>2. k =< b \div cs
    BY <1>5, <1>11, DivAbove
  <2> QED
    BY <2>1, <2>2
<1>14. b \in Blocks
  BY <1>6, <1>11 DEF Blocks
<1> QED
  BY <1>2, <1>3, <1>11, <1>13, <1>14 DEF Occupants, Covers

\* A block whose cell a fill looks up gets every file that covers it.
LEMMA ScannedIsEntered ==
  ASSUME IInv, DeviceOpen, NEW m \in Nat, NEW n \in Nat \ {0},
         NEW b \in Blocks, b \div granularity \in CellsToScan(m, n),
         NEW i \in DOMAIN files, Covers(i, b)
  PROVE  i \in Entered(b \div cluster_size, m, n)
<1> DEFINE g == granularity
           c == b \div g
<1>1. PICK e \in files[i].extents : e.start =< b /\ b =< Last(e)
  BY DEF Covers
<1>2. /\ e.start \in Nat /\ Last(e) \in Nat
      /\ g \in Nat \ {0} /\ cluster_size \in Nat \ {0}
      /\ b \in Nat /\ device_size \in Nat /\ b =< device_size - 1
  BY <1>1, ExtentType DEF IInv, TypeOK, Blocks
<1>3. c \in FirstCell(m) .. LastCell(m, n) /\ c \in DOMAIN coarse_map
  BY CellsInView DEF IInv
<1>4. /\ FirstCell(m) \in Nat
      /\ LastCell(m, n) \in Nat
      /\ FirstBlock(m) \in Nat
      /\ LastBlock(m, n) \in Nat
  BY Geometry DEF IInv
<1>5. i \in coarse_map[c]
  <2>1. e.start \div g =< c /\ c =< Last(e) \div g
    BY <1>1, <1>2, DivMonotone
  <2> QED
    BY <1>1, <1>3, <2>1 DEF IInv, CoarseMapCurrent, CoarseMap
<1>6. i \in FileQueue(m, n)
  BY <1>5 DEF FileQueue
<1>7. FirstBlock(m) =< b
  <2>1. c \in Nat /\ c * g =< b /\ c * g \in Nat
    BY <1>2, DivBounds
  <2>2. FirstCell(m) * g =< c * g /\ FirstCell(m) * g \in Nat
    BY <1>2, <1>3, <1>4, <2>1, TimesMonotone
  <2> QED
    BY <1>2, <2>1, <2>2 DEF FirstBlock
<1>8. b =< LastBlock(m, n)
  <2>1. c \in Nat /\ b < (c + 1) * g
    BY <1>2, DivBounds
  <2>2. /\ (c + 1) * g =< (LastCell(m, n) + 1) * g
        /\ (c + 1) * g \in Nat
        /\ (LastCell(m, n) + 1) * g \in Nat
    <3>1. c + 1 \in Nat /\ LastCell(m, n) + 1 \in Nat /\ c + 1 =< LastCell(m, n) + 1
      BY <1>3, <1>4, <2>1
    <3> QED
      BY <1>2, <3>1, TimesMonotone
  <2>3. b =< (LastCell(m, n) + 1) * g - 1
    BY <1>2, <2>1, <2>2
  <2> QED
    BY <1>2, <2>2, <2>3 DEF LastBlock, Smaller, Dec, DeviceOpen
<1>9. e \in Hits(i, b \div cluster_size, m, n)
  <2>1. e.start =< LastBlock(m, n) /\ FirstBlock(m) =< Last(e)
    BY <1>1, <1>2, <1>4, <1>7, <1>8
  <2>2. Larger(e.start, FirstBlock(m)) \div cluster_size =< b \div cluster_size
    BY <1>1, <1>2, <1>4, <1>7, DivMonotone DEF Larger
  <2>3. b \div cluster_size =< Smaller(Last(e), LastBlock(m, n)) \div cluster_size
    BY <1>1, <1>2, <1>4, <1>8, DivMonotone DEF Smaller
  <2> QED
    BY <1>1, <2>1, <2>2, <2>3 DEF Hits
<1> QED
  BY <1>6, <1>9 DEF Entered


\* A fill keeps the invariant: what it enters has a block in the cluster, and
\* what it adds to the cache has been entered.
LEMMA FillIInv ==
  ASSUME IInv, NEW m \in Nat, NEW n \in Nat \ {0}, FillClusters(m, n)
  PROVE  IInv'
<1>1. UNCHANGED <<files, device_size, cluster_count, cluster_size,
                  granularity, coarse_map>>
  BY DEF FillClusters
<1>2. DOMAIN clusters' = DOMAIN clusters \cup ClustersReached(m, n)
  BY DEF FillClusters
<1>3. DOMAIN clusters' \subseteq Nat
  BY <1>2, ReachedType DEF IInv, TypeOK
<1>4. TypeOK'
  <2>1. \A k \in DOMAIN clusters' : clusters'[k] \in ClusterInfo
    BY <1>2, <1>3, RefilledType DEF IInv, FillClusters
  <2>2. fill_cache' \subseteq Nat
    <3>1. FirstBlock(m) \in Nat /\ LastBlock(m, n) \in Nat
      BY Geometry DEF IInv
    <3>2. Requested(m, n) \subseteq Nat
      BY <3>1 DEF Requested
    <3> QED
      BY <3>2 DEF IInv, TypeOK, FillClusters
  <2> QED
    BY <1>1, <1>3, <2>1, <2>2 DEF IInv, TypeOK, Dec
<1>5. CoarseMapCurrent'
  BY <1>1 DEF IInv, CoarseMapCurrent, CoarseMap, Dec, Last
<1>6. IndicesValid'
  <2>1. \A k \in DOMAIN clusters' : clusters'[k].files \subseteq DOMAIN files
    <3> SUFFICES ASSUME NEW k \in DOMAIN clusters'
                 PROVE  clusters'[k].files \subseteq DOMAIN files
      OBVIOUS
    <3>1. clusters'[k].files = At(k).files \cup Entered(k, m, n)
      BY <1>2 DEF FillClusters, Refilled
    <3>2. At(k).files \subseteq DOMAIN files
      BY DEF IInv, IndicesValid, At, NewCluster
    <3>3. Entered(k, m, n) \subseteq DOMAIN files
      BY CellsInView DEF IInv, IndicesValid, Entered, FileQueue
    <3> QED
      BY <3>1, <3>2, <3>3
  <2> QED
    BY <1>1, <2>1 DEF IInv, IndicesValid
<1>7. NothingInvented'
  <2> SUFFICES ASSUME DeviceOpen', NEW k \in DOMAIN clusters'
               PROVE  /\ clusters'[k].files \subseteq Occupants(k)'
                      /\ clusters'[k].free <=> clusters'[k].files = {}
                      /\ clusters'[k].fragmented <=>
                           \E i \in clusters'[k].files : Fragmented(i)'
    BY DEF NothingInvented
  <2>1. clusters'[k] = Refilled(k, m, n) /\ k \in Nat
    BY <1>2, <1>3 DEF FillClusters
  <2>2. DeviceOpen
    BY <1>1 DEF DeviceOpen
  <2>3. /\ At(k).files \subseteq Occupants(k)
        /\ At(k).free <=> At(k).files = {}
        /\ At(k).fragmented <=> \E i \in At(k).files : Fragmented(i)
    BY <2>2 DEF IInv, NothingInvented, At, NewCluster
  <2>4. Entered(k, m, n) \subseteq Occupants(k)
    BY <2>1, <2>2, EnteredOccupies
  <2>5. Occupants(k)' = Occupants(k)
    BY <1>1 DEF Occupants, Blocks, Covers, Last
  <2>6. \A i : Fragmented(i)' <=> Fragmented(i)
    BY <1>1 DEF Fragmented
  <2>7. /\ clusters'[k].files = At(k).files \cup Entered(k, m, n)
        /\ clusters'[k].free = (At(k).free /\ Entered(k, m, n) = {})
        /\ clusters'[k].fragmented =
             (At(k).fragmented \/ \E i \in Entered(k, m, n) : Fragmented(i))
    BY <2>1 DEF Refilled
  <2>8. clusters'[k].files \subseteq Occupants(k)'
    BY <2>3, <2>4, <2>5, <2>7
  <2>9. clusters'[k].free <=> clusters'[k].files = {}
    BY <2>3, <2>7
  <2>10. clusters'[k].fragmented <=>
           \E i \in clusters'[k].files : Fragmented(i)'
    BY <2>3, <2>6, <2>7
  <2> QED
    BY <2>8, <2>9, <2>10
<1>8. NothingLost'
  <2> SUFFICES ASSUME DeviceOpen', NEW b \in Blocks', IsFilled(b)',
                      NEW i \in DOMAIN files', Covers(i, b)',
                      NEW k, k = b \div cluster_size
               PROVE  i \in At(k)'.files
    BY <1>1 DEF NothingLost, At
  <2>1. /\ DeviceOpen
        /\ b \in Blocks
        /\ i \in DOMAIN files
        /\ Covers(i, b)
    BY <1>1 DEF DeviceOpen, Blocks, Covers, Last
  <2>2. k \in Nat
    BY <2>1, DivBounds DEF IInv, TypeOK, Blocks
  <2>3. At(k)'.files = At(k).files \cup Entered(k, m, n)
    BY <2>2, AfterFill
  <2>4. PICK x \in fill_cache' :
          b \div granularity \in {x \div granularity, (x + 1) \div granularity}
    BY <1>1 DEF IsFilled
  <2>5. CASE x \in fill_cache
    <3>1. IsFilled(b)
      BY <2>4, <2>5 DEF IsFilled
    <3>2. i \in At(k).files
      BY <2>1, <3>1 DEF IInv, NothingLost
    <3> QED
      BY <2>3, <3>2
  <2>6. CASE x \in Requested(m, n) \ fill_cache
    <3>1. b \div granularity \in CellsToScan(m, n)
      BY <2>4, <2>6 DEF CellsToScan
    <3>2. i \in Entered(k, m, n)
      BY <2>1, <3>1, ScannedIsEntered
    <3> QED
      BY <2>3, <3>2
  <2> QED
    BY <2>4, <2>5, <2>6 DEF FillClusters
<1> QED
  BY <1>4, <1>5, <1>6, <1>7, <1>8 DEF IInv

\* A call of the class, whatever size is asked for and whatever is in view:
\* more than Next, which takes both from the sets of an instance.
AnyStep ==
  \/ \E scan \in Scans : ScanDir(scan)
  \/ ScanDirFails
  \/ \E ds \in Nat \ {0} : SetDesiredClusterSize(ds)
  \/ \E m \in Nat, n \in Nat \ {0} : FillClusters(m, n)
  \/ UNCHANGED vars

\* Every call keeps the invariant.
LEMMA AnyStepIInv == IInv /\ AnyStep => IInv'
<1> SUFFICES ASSUME IInv, AnyStep PROVE IInv'
  OBVIOUS
<1>1. ASSUME NEW scan \in Scans, ScanDir(scan) PROVE IInv'
  BY <1>1, ScanDirIInv
<1>2. CASE ScanDirFails
  BY <1>2, ScanDirFailsIInv
<1>3. ASSUME NEW ds \in Nat \ {0}, SetDesiredClusterSize(ds) PROVE IInv'
  BY <1>3, ZoomIInv
<1>4. ASSUME NEW m \in Nat, NEW n \in Nat \ {0}, FillClusters(m, n)
      PROVE  IInv'
  BY <1>4, FillIInv
<1>5. CASE UNCHANGED vars
  BY <1>5, StutterIInv
<1> QED
  BY <1>1, <1>2, <1>3, <1>4, <1>5 DEF AnyStep

\* The steps of the specification are calls.
LEMMA NextIsAnyStep == [Next]_vars => AnyStep
BY ConstantsAssumption DEF Next, AnyStep

\* The invariant holds in every state of class Clusters.
LEMMA SpecIInv == Spec => []IInv
<1>1. Init => IInv
  BY InitIInv
<1>2. IInv /\ [Next]_vars => IInv'
  BY AnyStepIInv, NextIsAnyStep
<1> QED
  BY <1>1, <1>2, PTL DEF Spec

-----------------------------------------------------------------------------
(* Theorems. *)

\* Class Clusters keeps its types, whatever is scanned, zoomed and drawn.
THEOREM TypeCorrect == Spec => []TypeOK
<1>1. IInv => TypeOK
  BY DEF IInv
<1> QED
  BY <1>1, SpecIInv, PTL

\* The coarse map always belongs to the files and the device beside it,
\* after a scan that failed as well (fragview.cc:179-180).
THEOREM CoarseMapIsCurrent == Spec => []CoarseMapCurrent
<1>1. IInv => CoarseMapCurrent
  BY DEF IInv
<1> QED
  BY <1>1, SpecIInv, PTL

\* files_ is never indexed beyond its end through an index that clusters_ or
\* the coarse map keeps (clusters.cc:248, fragmap-widget.cc:410).
THEOREM IndicesAreValid == Spec => []IndicesValid
<1>1. IInv => IndicesValid
  BY DEF IInv
<1> QED
  BY <1>1, SpecIInv, PTL

\* __fill_clusters never indexes coarse_map_ beyond its end (clusters.cc:237).
THEOREM CoarseMapIndexedInBounds == Spec => []CoarseIndexInBounds
<1>1. IInv => CoarseIndexInBounds
  BY CellsInView, ConstantsAssumption DEF IInv, CoarseIndexInBounds
<1> QED
  BY <1>1, SpecIInv, PTL

\* The fill cache never leaves a file in a cluster it has no block in.
THEOREM NothingIsInvented == Spec => []NothingInvented
<1>1. IInv => NothingInvented
  BY DEF IInv
<1> QED
  BY <1>1, SpecIInv, PTL

\* What the fill cache lets a later fill skip has been entered already.
THEOREM NothingIsLost == Spec => []NothingLost
<1>1. IInv => NothingLost
  BY DEF IInv
<1> QED
  BY <1>1, SpecIInv, PTL

\* The clusters tile the device: the inductive fact is that the count is
\* that of the present cluster size and device.
CountCurrent == cluster_count = CountFor(cluster_size, device_size)

\* A count that is up to date tiles the device.
LEMMA CountTiles == TypeOK /\ CountCurrent => ClustersTileDevice
<1> SUFFICES ASSUME TypeOK, CountCurrent, device_size > 0
             PROVE  /\ (cluster_count - 1) * cluster_size < device_size
                    /\ device_size =< cluster_count * cluster_size
  BY DEF ClustersTileDevice
<1> DEFINE a == device_size - 1
           q == a \div cluster_size
<1>1. device_size \in Nat /\ a \in Nat /\ cluster_size \in Nat \ {0}
  BY DEF TypeOK
<1>2. cluster_count = q + 1
  BY DEF CountCurrent, CountFor, Dec, TypeOK
<1>3. /\ q \in Nat
      /\ q * cluster_size \in Nat
      /\ q * cluster_size =< a
      /\ a < (q + 1) * cluster_size
  BY <1>1, DivBounds
<1>4. (q + 1) * cluster_size \in Nat
  BY <1>1, <1>3, TimesMonotone
<1> HIDE DEF q
<1>5. (cluster_count - 1) * cluster_size = q * cluster_size
  BY <1>2, <1>3
<1> QED
  BY <1>1, <1>2, <1>3, <1>4, <1>5

\* Every call keeps the count up to date.
LEMMA AnyStepCount == IInv /\ CountCurrent /\ AnyStep => CountCurrent'
<1> SUFFICES ASSUME IInv, CountCurrent, AnyStep PROVE CountCurrent'
  OBVIOUS
<1> USE DEF CountCurrent, CountFor, Dec
<1>1. ASSUME NEW scan \in Scans, ScanDir(scan) PROVE CountCurrent'
  BY <1>1 DEF ScanDir, CollectFragments
<1>2. CASE ScanDirFails
  <2>1. 0 \div cluster_size = 0
    BY DEF IInv, TypeOK
  <2> QED
    BY <1>2, <2>1 DEF ScanDirFails, CollectNothing
<1>3. ASSUME NEW ds \in Nat \ {0}, SetDesiredClusterSize(ds)
      PROVE  CountCurrent'
  BY <1>3 DEF SetDesiredClusterSize, vars
<1>4. ASSUME NEW m \in Nat, NEW n \in Nat \ {0}, FillClusters(m, n)
      PROVE  CountCurrent'
  BY <1>4 DEF FillClusters
<1>5. CASE UNCHANGED vars
  BY <1>5 DEF vars
<1> QED
  BY <1>1, <1>2, <1>3, <1>4, <1>5 DEF AnyStep

\* The constructor's count is that of its size.
LEMMA InitCount == Init => CountCurrent
BY ConstantsAssumption, DivBounds DEF Init, CountCurrent, CountFor, Dec

\* The clusters tile the device: no block is off the map, no square off the
\* device (clusters.cc:96, 143 and 157).
THEOREM ClustersTile == Spec => []ClustersTileDevice
<1>1. IInv /\ CountCurrent /\ [Next]_vars => CountCurrent'
  BY AnyStepCount, NextIsAnyStep
<1>2. IInv /\ CountCurrent => ClustersTileDevice
  BY CountTiles DEF IInv
<1> QED
  BY InitCount, <1>1, <1>2, SpecIInv, PTL DEF Spec

\* Every block of a cluster in view counts as filled after the draw: it is
\* requested itself, or it is the last one and the block before it is.
LEMMA ViewIsFilled ==
  ASSUME IInv, DeviceOpen, NEW m \in Nat, NEW n \in Nat \ {0},
         SpansBlocks(m, n), FillClusters(m, n),
         NEW k \in m .. m + n - 1, NEW b \in Blocks, b \div cluster_size = k
  PROVE  IsFilled(b)'
<1> DEFINE g == granularity
           cs == cluster_size
           fb == FirstBlock(m)
           lb == LastBlock(m, n)
           last == LastCell(m, n)
<1>1. /\ g \in Nat \ {0} /\ cs \in Nat \ {0} /\ b \in Nat /\ k \in Nat
      /\ device_size \in Nat /\ b =< device_size - 1
      /\ fb \in Nat /\ lb \in Nat /\ last \in Nat /\ fb < lb
  BY Geometry DEF IInv, TypeOK, Blocks, SpansBlocks
<1>2. k * cs =< b /\ b < (k + 1) * cs /\ k * cs \in Nat
  BY <1>1, DivBounds
<1>3. fb =< b
  <2>1. m * cs =< k * cs /\ m * cs \in Nat
    BY <1>1, TimesMonotone
  <2>2. FirstCell(m) * g =< m * cs
    BY <1>1, <2>1, DivBounds DEF FirstCell
  <2> QED
    BY <1>1, <1>2, <2>1, <2>2 DEF FirstBlock
<1>4. b \div g =< last
  <2>1. /\ (k + 1) * cs =< (m + n) * cs
        /\ (k + 1) * cs \in Nat
        /\ (m + n) * cs \in Nat
    <3>1. k + 1 =< m + n /\ k + 1 \in Nat /\ m + n \in Nat
      BY <1>1
    <3> QED
      BY <1>1, <3>1, TimesMonotone
  <2>2. b =< (m + n) * cs - 1 /\ (m + n) * cs - 1 \in Nat
    BY <1>1, <1>2, <2>1
  <2>3. b \div g =< ((m + n) * cs - 1) \div g
    BY <1>1, <2>2, DivMonotone
  <2>4. b =< Dec(device_size) /\ Dec(device_size) \in Nat
    BY <1>1 DEF Dec, DeviceOpen
  <2>5. b \div g =< Dec(device_size) \div g
    BY <1>1, <2>4, DivMonotone
  <2>6. /\ b \div g \in Nat
        /\ Dec(device_size) \div g \in Nat
        /\ ((m + n) * cs - 1) \div g \in Nat
    BY <1>1, <2>2, <2>4, DivBounds
  <2>7. CoarseSize - 1 = Dec(device_size) \div g
    <3>1. CoarseSize = Dec(device_size) \div g + 1
      BY Geometry DEF IInv
    <3> QED
      BY <2>6, <3>1
  <2> QED
    BY <2>3, <2>5, <2>6, <2>7 DEF LastCell, Smaller
<1>5. b =< lb
  <2>1. b \div g \in Nat /\ b < (b \div g + 1) * g
    BY <1>1, DivBounds
  <2>2. /\ (b \div g + 1) * g =< (last + 1) * g
        /\ (b \div g + 1) * g \in Nat
        /\ (last + 1) * g \in Nat
    <3>1. b \div g + 1 =< last + 1 /\ b \div g + 1 \in Nat /\ last + 1 \in Nat
      BY <1>1, <1>4, <2>1
    <3> QED
      BY <1>1, <3>1, TimesMonotone
  <2>3. b =< (last + 1) * g - 1
    BY <1>1, <2>1, <2>2
  <2> QED
    BY <1>1, <2>2, <2>3 DEF LastBlock, Smaller, Dec, DeviceOpen
<1>6. fill_cache' = fill_cache \cup Requested(m, n) /\ granularity' = granularity
  BY DEF FillClusters
<1>7. CASE b < lb
  <2>1. b \in fill_cache'
    BY <1>1, <1>3, <1>6, <1>7 DEF Requested
  <2> QED
    BY <1>6, <2>1 DEF IsFilled
<1>8. CASE b = lb
  <2>1. b - 1 \in fill_cache' /\ (b - 1) + 1 = b
    BY <1>1, <1>6, <1>8 DEF Requested
  <2> QED
    BY <1>6, <2>1 DEF IsFilled
<1> QED
  BY <1>1, <1>5, <1>7, <1>8

\* What a fill leaves of the clusters in view is the truth, each file once.
LEMMA FillIsTrue ==
  ASSUME IInv, IInv', NEW m \in Nat, NEW n \in Nat \ {0},
         FillClusters(m, n), DeviceOpen, SpansBlocks(m, n),
         NEW k \in m .. m + n - 1
  PROVE  IsAccurate(k)' /\ At(k)'.twice = {}
<1>1. UNCHANGED <<files, device_size, cluster_size, granularity>>
  BY DEF FillClusters
<1>2. k \in Nat /\ DeviceOpen'
  BY <1>1 DEF DeviceOpen
<1>3. /\ At(k)'.files \subseteq Occupants(k)'
      /\ At(k)'.free <=> At(k)'.files = {}
      /\ At(k)'.fragmented <=> \E i \in At(k)'.files : Fragmented(i)'
  BY <1>2 DEF IInv, NothingInvented, At, NewCluster
<1>4. ASSUME NEW i \in Occupants(k)' PROVE i \in At(k)'.files
  <2>1. PICK b \in Blocks' : b \div cluster_size' = k /\ Covers(i, b)'
    BY <1>4 DEF Occupants
  <2>2. b \in Blocks /\ b \div cluster_size = k
    BY <1>1, <2>1 DEF Blocks
  <2>3. IsFilled(b)'
    BY <2>2, ViewIsFilled
  <2>4. i \in DOMAIN files'
    BY <1>4 DEF Occupants
  <2> QED
    BY <1>2, <2>1, <2>3, <2>4 DEF IInv, NothingLost, At
<1>5. At(k)'.twice = {}
  BY <1>2, AfterFill
<1>6. At(k)'.files = Occupants(k)'
  BY <1>3, <1>4
<1> QED
  BY <1>3, <1>5, <1>6 DEF IsAccurate

\* After a draw the map shows the truth in every cluster in view, each file
\* once, for any history of scans, zooms and draws.
THEOREM FillsPaintTheTruth == Spec => FillPaintsTruth
<1>1. IInv /\ IInv' =>
        \A m \in ViewStarts, n \in ViewLengths :
          FillClusters(m, n) /\ DeviceOpen /\ SpansBlocks(m, n) =>
            \A k \in (m .. m + n - 1) \cap (0 .. cluster_count - 1) :
              IsAccurate(k)' /\ At(k)'.twice = {}
  BY FillIsTrue, ConstantsAssumption
<1> QED
  BY <1>1, SpecIInv, PTL DEF FillPaintsTruth
=============================================================================
