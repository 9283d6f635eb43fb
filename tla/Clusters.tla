------------------------------ MODULE Clusters ------------------------------
(***************************************************************************)
(* The disk map of fragview: class Clusters (src/clusters.hh and           *)
(* src/clusters.cc).  A scan of a directory fills files_; the map shows    *)
(* the device as clusters of cluster_size_ blocks, and the cluster_info of *)
(* a cluster is computed only when the cluster is about to be drawn:       *)
(*                                                                         *)
(*   files_        every file found, each with its extents                 *)
(*   coarse_map_   an index: for every cell of granularity blocks, the     *)
(*                 files that have an extent in it                         *)
(*   clusters_     a map from cluster numbers to what is known of them     *)
(*   fill_cache_   the blocks whose files have been entered in clusters_   *)
(*                                                                         *)
(* All calls come from the one thread of the program, a call is one step.  *)
(* What the map needs of a file is modelled: a set of extents and a        *)
(* severity.  Numbers of blocks and clusters are far from 2^64, except     *)
(* that 0 - 1 wraps around, see Dec.                                       *)
(***************************************************************************)
EXTENDS Integers, FiniteSets, Sequences

CONSTANTS
  Granularity,    \* granularity scan_dir passes to create_coarse_map: 2000
  InitialSize,    \* cluster_size_ the constructor sets: 3500
  CapDivisor,     \* a cluster is at most 1/CapDivisor of the device: 100
  WordMax,        \* largest uint64_t
  Scans,          \* what a walk of a directory may find
  DesiredSizes,   \* arguments of set_desired_cluster_size
  ViewStarts,     \* arguments of __fill_clusters: first cluster in view,
  ViewLengths     \* and number of clusters in view

VARIABLES
  files,          \* files_, indexed from 1
  clusters,       \* clusters_, a function on the keys of the map
  device_size,    \* device_size_, in blocks
  cluster_count,  \* cluster_count_
  cluster_size,   \* cluster_size_, in blocks
  fill_cache,     \* fill_cache_, the set of blocks in the interval set
  granularity,    \* coarse_map_granularity_
  coarse_map      \* coarse_map_, a function on 0 .. size - 1

vars == <<files, clusters, device_size, cluster_count, cluster_size,
          fill_cache, granularity, coarse_map>>

Extent == [start : Nat, length : Nat \ {0}]
FileInfo == [extents : SUBSET Extent, severity : Nat]
Scan == [device_size : Nat, files : Seq(FileInfo)]
ClusterInfo == [files : SUBSET Nat, twice : SUBSET Nat,
                free : BOOLEAN, fragmented : BOOLEAN]

ASSUME ConstantsAssumption ==
  /\ Granularity \in Nat \ {0}
  /\ InitialSize \in Nat \ {0}
  /\ CapDivisor \in Nat \ {0}
  /\ WordMax \in Nat
  /\ Scans \subseteq Scan
  /\ DesiredSizes \subseteq Nat \ {0}
  /\ ViewStarts \subseteq Nat
  /\ ViewLengths \subseteq Nat \ {0}

-----------------------------------------------------------------------------
Smaller(a, b) == IF a =< b THEN a ELSE b
Larger(a, b) == IF a =< b THEN b ELSE a

\* n - 1 in uint64_t.
Dec(n) == IF n = 0 THEN WordMax ELSE n - 1

Last(e) == e.start + e.length - 1

\* Severity is counted in whole units of the slowdown; two is the threshold, and
\* a severity of exactly two counts (clusters.cc:189), although README.md:17-19
\* of the program says more than two times lower.
Fragmented(i) == files[i].severity >= 2

\* A cluster nothing was entered in.  files is the set of files listed and
\* twice those of them that are listed more than once.
NewCluster == [files |-> {}, twice |-> {}, free |-> TRUE, fragmented |-> FALSE]

\* clusters_[k]: std::map makes a new entry for a key it does not have.  Such
\* an entry and a missing one are the same to every reader, so that clusters
\* has the keys a file was entered under only.
At(k) == IF k \in DOMAIN clusters THEN clusters[k] ELSE NewCluster

\* Mutant: the round-up of the division is left out.
CountRoundedDown(size, blocks) == Dec(blocks) \div size

CountFor(size, blocks) == Dec(blocks) \div size + 1

CoarseMap(g, blocks, fs) ==
  [c \in 0 .. Dec(blocks) \div g |->
     {i \in DOMAIN fs : \E e \in fs[i].extents :
        e.start \div g =< c /\ c =< Last(e) \div g}]

ClearCaches ==
  /\ fill_cache' = {}
  /\ clusters' = [k \in {} |-> NewCluster]

-----------------------------------------------------------------------------
Init ==
  /\ files = << >>
  /\ clusters = [k \in {} |-> NewCluster]
  /\ device_size = 1
  /\ cluster_count = 1
  /\ cluster_size = InitialSize
  /\ fill_cache = {}
  /\ granularity = 1
  /\ coarse_map = CoarseMap(1, 1, << >>)

CreateCoarseMap(g) ==
  /\ granularity' = g
  /\ coarse_map' = CoarseMap(g, device_size', files')

\* Mutant: a scan keeps what it knew of the clusters of the device before.
CollectKeepingCaches(scan) ==
  /\ device_size' = scan.device_size
  /\ cluster_count' = CountFor(cluster_size, scan.device_size)
  /\ files' = scan.files
  /\ UNCHANGED <<clusters, fill_cache, cluster_size>>

\* A walk that reached the directory: what it found replaces everything.
CollectFragments(scan) ==
  /\ device_size' = scan.device_size
  /\ cluster_count' = CountFor(cluster_size, scan.device_size)
  /\ files' = scan.files
  /\ ClearCaches
  /\ UNCHANGED cluster_size

\* stat64 or statfs64 of the directory failed: an early return.
CollectNothing ==
  /\ device_size' = 1
  /\ cluster_count' = 1
  /\ UNCHANGED <<files, clusters, cluster_size, fill_cache>>

\* GraphWindow::scan_dir, as far as this class takes part in it.
ScanDir(scan) == CollectFragments(scan) /\ CreateCoarseMap(Granularity)
\* Mutant: the caller gives up together with collect_fragments.
ScanDirGivesUp == CollectNothing /\ UNCHANGED <<granularity, coarse_map>>

ScanDirFails == CollectNothing /\ CreateCoarseMap(Granularity)

\* Mutant: the count is computed before the size is assigned.
ZoomCountsFirst(ds) ==
  \/ /\ cluster_size # ds
     /\ cluster_size' = Smaller(ds, device_size \div CapDivisor + 1)
     /\ cluster_count' = CountFor(cluster_size, device_size)
     /\ ClearCaches
     /\ UNCHANGED <<files, device_size, granularity, coarse_map>>
  \/ /\ cluster_size = ds
     /\ UNCHANGED vars

\* Mutant: zooming does not call clear_caches.
ZoomKeepsCaches(ds) ==
  \/ /\ cluster_size # ds
     /\ cluster_size' = Smaller(ds, device_size \div CapDivisor + 1)
     /\ cluster_count' = CountFor(cluster_size', device_size)
     /\ UNCHANGED <<files, clusters, fill_cache, device_size, granularity, coarse_map>>
  \/ /\ cluster_size = ds
     /\ UNCHANGED vars

SetDesiredClusterSize(ds) ==
  \/ /\ cluster_size # ds
     /\ cluster_size' = Smaller(ds, device_size \div CapDivisor + 1)
     /\ cluster_count' = CountFor(cluster_size', device_size)
     /\ ClearCaches
     /\ UNCHANGED <<files, device_size, granularity, coarse_map>>
  \/ /\ cluster_size = ds
     /\ UNCHANGED vars

-----------------------------------------------------------------------------
(***************************************************************************)
(* __fill_clusters(m, n): clusters m .. m + n - 1 are about to be drawn.   *)
(* The blocks they span are rounded to whole cells of the coarse map.      *)
(***************************************************************************)
CoarseSize == Cardinality(DOMAIN coarse_map)

FirstCell(m) == (m * cluster_size) \div granularity
LastCell(m, n) ==
  Smaller(((m + n) * cluster_size - 1) \div granularity, CoarseSize - 1)

FirstBlock(m) == FirstCell(m) * granularity
LastBlock(m, n) ==
  Smaller((LastCell(m, n) + 1) * granularity - 1, Dec(device_size))

\* interval_t(ib_start, ib_end): without explicit bounds a discrete_interval
\* of boost is right-open, so that it does not hold ib_end.
Requested(m, n) == FirstBlock(m) .. LastBlock(m, n) - 1

\* Mutant: the cells to scan include the one after upper().
CellsPastUpper(m, n) ==
  LET scan == Requested(m, n) \ fill_cache
  IN  {b \div granularity : b \in scan} \cup {x \div granularity + 1 : x \in scan}

\* Mutant: the interval is added to fill_cache_ before it is subtracted.
CellsAfterCaching(m, n) ==
  LET scan == Requested(m, n) \ (fill_cache \cup Requested(m, n))
  IN  {b \div granularity : b \in scan \cup {x + 1 : x \in scan}}

\* For each of the right-open intervals that remain to be scanned, the cells
\* from that of lower() to that of upper(), the block after its last one.
CellsToScan(m, n) ==
  LET scan == Requested(m, n) \ fill_cache
  IN  {b \div granularity : b \in scan \cup {x + 1 : x \in scan}}

FileQueue(m, n) == UNION {coarse_map[c] : c \in CellsToScan(m, n)}

\* The extents of file i that put it in cluster k.
Hits(i, k, m, n) ==
  {e \in files[i].extents :
     /\ e.start =< LastBlock(m, n)
     /\ FirstBlock(m) =< Last(e)
     /\ Larger(e.start, FirstBlock(m)) \div cluster_size =< k
     /\ k =< Smaller(Last(e), LastBlock(m, n)) \div cluster_size}

Entered(k, m, n) == {i \in FileQueue(m, n) : Hits(i, k, m, n) # {}}

\* Mutant: without std::unique on the clusters in view.
RefilledUnsorted(k, m, n) ==
  LET new == Entered(k, m, n)
      again == {i \in new : \/ i \in At(k).files
                            \/ \E d, e \in Hits(i, k, m, n) : d # e}
  IN [files      |-> At(k).files \cup new,
      twice      |-> At(k).twice \cup again,
      free       |-> At(k).free /\ new = {},
      fragmented |-> At(k).fragmented \/ \E i \in new : Fragmented(i)]

Refilled(k, m, n) ==
  LET new == Entered(k, m, n)
      again == {i \in new : \/ i \in At(k).files
                            \/ \E d, e \in Hits(i, k, m, n) : d # e}
  IN [files      |-> At(k).files \cup new,
      twice      |-> IF k \in m .. m + n - 1 THEN {}   \* std::unique
                     ELSE At(k).twice \cup again,
      free       |-> At(k).free /\ new = {},
      fragmented |-> At(k).fragmented \/ \E i \in new : Fragmented(i)]

ClustersReached(m, n) ==
  {k \in FirstBlock(m) \div cluster_size .. LastBlock(m, n) \div cluster_size :
     Entered(k, m, n) # {}}

FillClusters(m, n) ==
  /\ clusters' = [k \in DOMAIN clusters \cup ClustersReached(m, n) |->
                    Refilled(k, m, n)]
  /\ fill_cache' = fill_cache \cup Requested(m, n)
  /\ UNCHANGED <<files, device_size, cluster_count, cluster_size,
                 granularity, coarse_map>>

-----------------------------------------------------------------------------
Next ==
  \/ \E scan \in Scans : ScanDir(scan)
  \/ ScanDirFails
  \/ \E ds \in DesiredSizes : SetDesiredClusterSize(ds)
  \/ \E m \in ViewStarts, n \in ViewLengths : FillClusters(m, n)

Spec == Init /\ [][Next]_vars

-----------------------------------------------------------------------------
(***************************************************************************)
(* What is true of the device, read off the files themselves.  It means    *)
(* something only while a device is open: collect_fragments leaves a       *)
(* device of one block behind when it fails.                               *)
(***************************************************************************)
DeviceOpen == device_size > 1

Blocks == 0 .. device_size - 1

Covers(i, b) == \E e \in files[i].extents : e.start =< b /\ b =< Last(e)

Occupants(k) ==
  {i \in DOMAIN files :
     \E b \in Blocks : b \div cluster_size = k /\ Covers(i, b)}

IsAccurate(k) ==
  /\ At(k).files = Occupants(k)
  /\ At(k).free <=> Occupants(k) = {}
  /\ At(k).fragmented <=> \E i \in Occupants(k) : Fragmented(i)

\* The cell of block b has been scanned, going by the cache.  A cell is
\* scanned also when only the block before it entered the cache, because
\* the block after a right-open interval is looked up too.
IsFilled(b) ==
  \E x \in fill_cache :
    b \div granularity \in {x \div granularity, (x + 1) \div granularity}

\* Types.
TypeOK ==
  /\ files \in Seq(FileInfo)
  /\ DOMAIN clusters \subseteq Nat
  /\ \A k \in DOMAIN clusters : clusters[k] \in ClusterInfo
  /\ device_size \in Nat
  /\ cluster_count \in Nat \ {0}
  /\ cluster_size \in Nat \ {0}
  /\ fill_cache \subseteq Nat
  /\ granularity \in Nat \ {0}
  /\ DOMAIN coarse_map = 0 .. Dec(device_size) \div granularity
  /\ \A c \in DOMAIN coarse_map : coarse_map[c] \subseteq Nat

\* Whatever a handler did, the coarse map it leaves behind is the index of
\* the files and of the device it leaves behind (fragview.cc:179-180).
CoarseMapCurrent == coarse_map = CoarseMap(granularity, device_size, files)

\* The clusters tile the device: the last block is in the last cluster and
\* no cluster lies beyond it, whichever of the scan, the zoom and the failed
\* scan computed the count (clusters.cc:96, 143 and 157).
ClustersTileDevice ==
  device_size > 0 =>
    /\ (cluster_count - 1) * cluster_size < device_size
    /\ device_size =< cluster_count * cluster_size

\* Every file index kept in clusters_ or in the coarse map is an index of
\* files_: files_[item_idx] and files[fid] never read past the vector, even
\* across scans that shrink it (clusters.cc:248, fragmap-widget.cc:410).
IndicesValid ==
  /\ \A k \in DOMAIN clusters : clusters[k].files \subseteq DOMAIN files
  /\ \A c \in DOMAIN coarse_map : coarse_map[c] \subseteq DOMAIN files

\* __fill_clusters never indexes coarse_map_ out of bounds, wherever the
\* view is and whatever the cache holds (clusters.cc:237).
CoarseIndexInBounds ==
  \A m \in ViewStarts, n \in ViewLengths :
    CellsToScan(m, n) \subseteq DOMAIN coarse_map

\* What clusters_ says of a cluster is never more than what is on the
\* device: no scan, zoom or partial fill leaves a file in a cluster it has
\* no block in.
NothingInvented ==
  DeviceOpen => \A k \in DOMAIN clusters :
    /\ clusters[k].files \subseteq Occupants(k)
    /\ clusters[k].free <=> clusters[k].files = {}
    /\ clusters[k].fragmented <=> \E i \in clusters[k].files : Fragmented(i)

\* A block is in the cache only when every file that covers it, or covers a
\* block of its cell or of the cell the block after it is in, is entered in
\* the cluster of that block: skipping what is cached loses no file.
NothingLost ==
  DeviceOpen => \A b \in Blocks : IsFilled(b) =>
    \A i \in DOMAIN files : Covers(i, b) => i \in At(b \div cluster_size).files

\* The view of a draw spans more than one block (a view of a single block
\* requests an empty right-open interval and is never scanned).
SpansBlocks(m, n) == FirstBlock(m) < LastBlock(m, n)

\* README.md: a cluster is white when its blocks are free, red when it has
\* part of a fragmented file and blue otherwise.  After __fill_clusters this
\* can be read off clusters_ for every cluster in view, and each file of it
\* is listed once, whatever was scanned, zoomed and drawn before.
FillPaintsTruth ==
  [][\A m \in ViewStarts, n \in ViewLengths :
       FillClusters(m, n) /\ DeviceOpen /\ SpansBlocks(m, n) =>
         \A k \in (m .. m + n - 1) \cap (0 .. cluster_count - 1) :
           IsAccurate(k)' /\ At(k)'.twice = {}]_vars
=============================================================================
