# A TLA+ model of fragview

fragview draws a map of a disk: the device as squares ("clusters") of blocks,
white where it is free, red where a part of a fragmented file lies, blue
otherwise. A cluster is looked at only when it is about to be drawn; an index of
the files and a cache of the blocks already looked at make that fast, and are
what can go wrong. The modules here model that machinery, the window on top of
it, the walk of a directory, the reading of a file's extents and the metric they
are judged by, and the command-line tool `fragdb` with its database. TLC checks
them on small instances; TLAPS proves every invariant, every action property and both
refinements that TLC checks for all of them, so that only the two liveness properties
rest on the instances.

    tlc -workers 2 -config Clusters_map.cfg MCClusters.tla
    tlapm ClustersProofs.tla

Line numbers refer to the files of `src/`.

## The system

The program is three binaries around one class. Everything of `fragview` runs in
the one thread of the GTK main loop: the mutexes of class Clusters are locked and
unlocked, but nothing else ever holds them. So the hard behaviours are not data
races. They are handlers in an order nobody tried, handlers that run inside other
handlers (GTK signals are synchronous), a draw that comes any number of handlers
after the state it shows was changed, caches that must be emptied at the right
moments, and other processes that change the disk, the tree of directories and
the table of mounts meanwhile. `fragdb` is concurrent in the usual way: any number
of its processes share one database file, and each may be killed.

| Component | State | Operations | What makes it correct | What is hard |
|---|---|---|---|---|
| **Clusters** (`clusters.cc`) | `files_`, `clusters_`, `fill_cache_`, `coarse_map_` and its granularity, size of the device, size and number of clusters | constructor, `collect_fragments`, `create_coarse_map`, `set_desired_cluster_size`, `__fill_clusters`, `at` | the clusters tile the device; the index is the index of the present files; the cache never hides a block nobody looked at; a filled cluster says what is on the disk | right-open intervals, rounding to cells and clusters, caches across scans and zooms, an early return |
| **Walk** (`collect_fragments`) | where fts is in the tree, the files found | start, visit, enter, end | whatever nobody touches is found once; nothing of another device | the tree changes between fts, `lstat64` and `open`; mounts and links |
| **Extents of a file** (`get_file_extents`, `fibmap_fallback`) | the extents found so far, where to ask next | open, ask, add, fall back | each block of the file once, as many extents as fragments; ends | batches, FIBMAP, holes, a file that changes between two ioctls |
| **Fragmap** (`fragmap-widget.cc`) | mode, selected cluster, selected files, first block in view, size of the map in squares, scrollbar | size, draw, zoom, scroll, drag, click, `set_mode`, `file_begin`, `file_add` | the screen shows the device once no draw is due; a click lists what is painted | stale clusters under the pointer, clamping of the scrollbar, re-entrant `value_changed` |
| **FilelistView** (`filelist-widget.cc`) | rows, selection, the column clicked last, the arrows, the order of the store | `add_file_info`, `clear`, `on_selection_changed`, `on_filelist_header_clicked` | rows and selection are of the last scan; the arrow tells the order | `clear` runs `on_selection_changed`; three copies of the order |
| **GraphWindow** (`fragview.cc`) | owns the others | `scan_dir`, two reports, restore | one scan replaces everything the others keep | the order of these calls |
| **Severity** (`get_file_severity`) | two indices, the window, a time, the worst so far | one round of each loop | the worst read time over windows; 1 for a file in one piece | signed gaps, unsigned window, ends that coincide |
| **fragdb** (`fragdb.cc`) | an SQLite database, and for each process its place, its lock and its open transaction | `scan`, `top`, `tops`, `over`, `overs` | a scan replaces the results as a whole; a list is of one scan | crashes, busy locks, a full disk, statements out of date, truncated thresholds |
| **Mount point dialog** (`mountpoint-select-dialog.cc`) | rows, selection, `selected_path_` | populate, select, activate, OK, cancel | what is scanned is what was offered and selected | a path that outlives its selection; mounts on top of each other |
| **fileseverity, util** | none | print one severity; format a size | | |

Calls go GraphWindow -> Clusters, FilelistView, Fragmap; Fragmap -> Clusters (a
draw fills, a click reads) and FilelistView (a click relists); FilelistView ->
Fragmap (a selection sets the mode and the files to show). The indices of
`files_` are what they share: `clusters_`, the coarse map, the rows and
`selected_files_` all hold them, and only a scan changes what they mean.

## The modules

| Module | What it is |
|---|---|
| `Clusters` | class Clusters, one action per call |
| `Fragview` | extends `Clusters`: Fragmap, FilelistView and GraphWindow, one action per GTK handler |
| `DiskMap` | the abstract specification: the display README.md of fragview promises, without index or cache |
| `Walk` | the walk of `collect_fragments` on a tree that other processes change |
| `Extents` | one call of `get_file_extents`, against a kernel and other writers |
| `Severity` | one call of `get_file_severity`, one round of a loop per step |
| `Filelist` | the headers and the order of the list of files |
| `Mountpoints` | the mount point dialog and the handler that runs it, against a table of mounts that changes |
| `FragDb` | several processes of fragdb on one database |
| `ScanStore` | the abstract specification: what fragdb promises of its results, without transactions and locks |
| `ClustersProofs`, `FragviewProofs`, `WalkProofs`, `ExtentsProofs`, `SeverityProofs`, `FilelistProofs`, `MountpointsProofs`, `FragDbProofs` | the theorems about each, for TLAPS |
| `MCClusters`, `MCFragview`, `MCWalk`, `MCExtents`, `MCSeverity`, `MCFilelist`, `MCMountpoints`, `MCFragDb` | the instances for TLC |

**Clusters.** The variables are the fields of `clusters.hh:168-185` without the
mutexes, the block size (only the status bar reads it) and two flags for messages.
`fill_cache` is the set of blocks in the interval set. `clusters` has the keys a
file was entered under; `std::map` makes an entry for every key that is looked at,
which no reader can tell from a missing one. `files_` of a cluster, a vector, is
the set of its members and the set `twice` of those it holds more than once, which
is all its readers can tell apart. `ScanDir` is the pair `collect_fragments`,
`create_coarse_map(2000)` that `scan_dir` always calls together; `ScanDirFails` the
same with one of the early returns. The walk itself is a choice from `Scans`.
Extents of a file are a set: a vector that holds the same extent twice enters the
same file in the same clusters. In this class only 0 - 1 leaves the numbers of a
device, and `Dec` wraps it around. The severity of a file is a number with the
threshold 2, which is enough to be fragmented, as in `clusters.cc:189`.

**Fragview.** A handler is one step with all it calls: `OnDraw` is
`on_drawarea_draw` with its `__fill_clusters`, `OpenDirectory` is `scan_dir` up to
`queue_draw`, `HighlightClusterAt` a press or a drag. `RecalculateSizes` and
`SetValue` contain `on_scrollbar_value_changed`, which GTK calls inside
`set_range` and `set_value` when the value changes; `Relist` contains
`on_selection_changed`, which it calls inside `clear` when a selected row goes.
`redraw` says that a draw is queued and `screen` what the last one painted. The
value of the scrollbar is counted in whole lines, as the handler rounds it. The
factor 1.15 is applied to integers exactly, as 20/23 and 23/20. The status bar,
the title, the shades of the colours and the colour of a highlighted square are
left out. `Clamped` is what GTK's adjustment does and the only external definition
of the module. The width of the scrollbar is a constant; GTK reports a smaller one
until it has been shown once. The line and the offset of the view, and what a click
computes from them, are ints in the code (`fragmap-widget.cc:241-243, 327-329,
366-368, 393-394`) and numbers without a bound here: `Fragview` is faithful for maps
of fewer than 2^31 clusters, and the code scrolls a larger one (8 TiB in blocks of
4 KiB, zoomed in to single blocks) to a negative offset.

**Extents.** Offsets count blocks of the file system, a unit is `st_blksize`.
`Fiemap` and `Fibmap` are what the kernel answers for the file as it is at the
call. `FileChanges` lets another process replace the file by any of `Files`
between two calls, also between `lstat64`, which gave `block_count`, and the first
of them. `fibmap_fallback` makes an ioctl for each block: `Ask` fills in its first
record, `FibmapBlock` is a turn of its loop, and the file may change between two of
them. Each of these ioctls may fail, for any block, and the file is then skipped.
`Take` is a turn of the loop over the buffer. FIEMAP answers every call for a file or
none: that it fails only at a later one, so that the fallback goes on where it
stopped, is left out.

FIEMAP reports an extent whose place is not chosen yet with the address 0 and a
flag; `Mapped` has the address, since the code reads no flag.

**Walk.** A node is a file, a directory, a link or a FIFO with a name of its own;
where it lies may change, what it is may not, so that a path is the chain of
directories down to the node. `levels` is what fts has read and not handed out.
fts is external: with `FTS_NOSTAT` and `FTS_NOCHDIR` it reads a directory whole
after handing it out, and hands out what it read without looking at it again,
while each path is resolved afresh by `lstat64` and `open`. With `FTS_NOSTAT` it also
saves itself looks: `links` keeps, for each directory fts has looked at, the number of
subdirectories its link count told of at that time, and when fts reads the directory
it looks at so many (`LookedAt`), whichever it comes upon first; all others are handed
out as no directories (`FTS_NSOK`) and `Visit` does not go down into them. The switch
takes `FTS_NSOK` too, so that they are still listed. On a file system that counts no
links fts looks at all of them, which is the other choice of `LookedAt`. `grown` keeps,
for `StillFoundOnce`, the directories another directory was put into. `Enters` is the body
of the `switch` with the tests at the head of `get_file_extents`. `Change` moves,
makes or removes one node in a step, anywhere between two steps of the walk. The
lookup of one path by `lstat64` and `open` is one step, and a name belongs to one node,
so that a path may come to lead nowhere and back, and never to another node.

**Severity.** The time to read one block is the unit of time, so that `1 / speed`
is 1, `1e-3 * penalty` is `Penalty`, and a severity is a fraction kept as its two
parts; what doubles round is left out. `ReadExtent` is a round of the inner loop
and `CloseWindow` the end of a round of the outer one. The reference does not
know the order of the loops: it lays the file out as its blocks, and what each
passage from one block to the next costs as a set of that many units of time, and
counts both.

**Filelist.** The handler of the headers and the sorted store. `rows` are here the
values of the cells, and the store arranges them in any way that is in order.
Nothing else reads that order, so that `Fragview` keeps its rows as a set.

**Mountpoints.** One step makes the dialog and populates it from the table of that
moment, a function of the lines of the table; after that the table goes on
changing. A file system mounted over another one leaves both lines in the table while `statfs64` is about the one on top. Names
with a blank are escaped in the table and found under no name.

**FragDb.** A process goes through `Places`; a step is a call of SQLite that can
fail or that another process can see. Spawned by a shell, it has one command line
from `Commands`. SQLite is external and modelled by its rollback journal: locks as
in its documentation, without a busy timeout, which fragdb does not set, so that a
call that cannot get its lock fails at once; a transaction that is not committed
is rolled back by whoever opens the file next, so that for the others it never
was. `BEGIN TRANSACTION` takes no lock and is one step with the first statement
that writes. `Spill` is SQLite writing a part of a large transaction to the file
early, which locks readers out. A statement made by `sqlite3_prepare`, the old
interface, is not prepared again after the schema has changed; `cookie` is the
version a process knows. `Exit` is every way out: the system takes the locks.
`CreateTables`, `Insert` and `Commit` can fail, and so can opening the file.
`tables` keeps all that was ever committed, for the properties; the code can see
the last.

The modules meet in the type of a file: `Walk` says which paths become files,
`Extents` which extents they get, `Severity` how these are judged, and `Clusters`
takes any choice of `Scans`. `Extents` proves nothing about `Clusters`, but its
`TypeOK` (extents of at least one block) is what `Scans` assumes of every extent,
and its findings say which `Scans` a FIBMAP file system leads to: files with
extents that lie where no block of theirs is.

## The runs

| Run | Checks | Bounds, and why they are enough | States |
|---|---|---|---|
| `Clusters_map` | the seven invariants and `FillPaintsTruth` | devices of 5, 6 and 7 blocks in cells of 2, so that the last cell is whole in one and a single block in others; clusters of 1 to 3, so that cells and clusters do not line up; extents over cells, beyond the device, on a shared block, two of one file in one cluster | 840 |
| `Fragview_window` | `ScreenTruth`, `ListIsOfThisScan`, `ClickListsCluster`, `SelectsOnMap`, `ZoomGetsFurther`, types | a device of 6 blocks with two files that share a cluster and one of 3, whose last cell is a single block; a narrow window with a scrollbar and a flat one with or without; every scroll position, zoom and selection; reports of one row; clicks on two squares of either window, in the margin of the narrow one, below the flat one and above the map | 511 000 |
| `Fragview_display` | `ImplementsDiskMap`, `ViewStaysOnMap`, `ScrollReachesAll` | the same devices, four sizes; no clicks and no reports with rows, which `DiskMap` does not see | 27 700 |
| `Walk_tree` | `StillFoundOnce`, `OnlyThisDevice`, types | a directory in another, a file in each, one that cannot be read, a mount, a link, a FIFO; three changes, enough to take a directory away and bring it back elsewhere while it is walked, and to put one beside another between the look at their parent and its reading | 565 000 |
| `Extents_calls` | `FiemapIsExact`, `NothingMadeUp`, `FibmapIsExactWhenDense`, `EachCallGetsFurther`, `Terminates`, types | a buffer of two extents, files of up to five, units of two blocks; with FIEMAP, with FIBMAP only, with neither; the file changing at any time, between two ioctls of a FIBMAP call too, into three different ones in all, and any ioctl of the fallback failing | 1 659 000 |
| `Severity_loops` | `WorstAtExtents`, `AtMostItsExtents`, types | a window of 3 blocks, gaps of up to 1; every file of up to two extents at five places with lengths of 1 to 4, and of three at four places: extents that overlap, touch, go backwards, end with the window and are longer than it | 16 900 |
| `Filelist_sort` | `ArrowTellsOrder` | three columns of both default orders, four files with equal cells among them | 513 |
| `Mountpoints_dialog` | `ScansOnlyOffered`, types | three mount points, one escaped, four kinds of file system, three mounts in any order, on top of each other too | 1 527 000 |
| `FragDb_runs` | `ListsOneScan`, `ScanListsItsOwn`, `NeverWaits`, `ImplementsScanStore`, types | three processes, each a scan, a list with a limit, a list with a threshold or a wrong command line; two results of a walk, with a file of the same name in both; a database with and without results | 1 113 000 |

What they show: for these instances, no order of handlers makes the map wrong.
`ScreenTruth` is the property a user cares about: whenever nothing is queued,
every square in view has the colour of what lies there, whatever was scanned,
failed, zoomed, dragged and resized before. `ImplementsDiskMap` says the same as a
refinement: the window with its caches is a display without any. `DiskMap` is
safety: that a draw that is queued is run is GTK's part. `ScrollReachesAll` holds
`recalculate_sizes` to what the scrollbar is for: the range, the page and the width of
the map, set one after the other in the middle of callbacks, always bring every
cluster within reach. `ClickListsCluster` is about a screen that is up to date, on
the squares: off them the code selects another cluster than the one pointed at,
though always one of the map (`SelectsOnMap`).

`StillFoundOnce` says that a walk costs nobody his files: whatever is moved about
meanwhile, what stays where it is is found, and once, also beside directories that
come and go. What is moved may be found twice or not at all, and what lies in a
directory beside which another one was put may not be found: the link counts fts goes
by are then out of date (`LinksStoodStill`). `WorstAtExtents` holds the two loops with their indices and
their mixed signs against a definition that knows blocks only. `ImplementsScanStore`
is what a user of fragdb counts on: through kills, full disks and other scans the
results are always the whole of one scan, and the exit status says whether they
are those of this one. `ListsOneScan` says that a list is never half of one scan
and half of the next; `NeverWaits`, that a run cannot be held up by another one,
stopped with its lock or not.

Three runs check a statement of the code or its documentation, and TLC finds it
violated.

| Run | Statement | What happens |
|---|---|---|
| `Fragview_selected` | squares represent blocks (README.md) | `>` for `>=` at `fragmap-widget.cc:323`: the selected cluster can be one past the last |
| `Extents_emulates` | "emulate FIEMAP by means of FIBMAP", `clusters.cc:312` | every call starts with the answer for block 0: a file that ends in a hole gets an extent there for each block of the hole, and one in more fragments than the buffer holds gets it where the second call starts |
| `FragDb_empty` | "it is possible to obtain list of most fragmented files from previous scan", `fragdb.cc:28` | while a previous scan's results are stored, a list that a second scan locks out, or whose statement that scan made out of date, ends empty, with 0 |

Other disagreements the models show, for which no run is kept:

- `fragmap-widget.cc:189`, `assert(get_device_size() > 0)`: a directory of a pseudo
  file system has 0 blocks. The mount point dialog leaves these out, the directory
  chooser and the command line do not. The `Scans` of the instances have blocks.
- `fragview.cc:140`: "Restore regular view" sets the mode before it clears the list,
  and clearing a selected row sets it to the mode for files (`Relist`).
- `fragmap-widget.cc:204`: "upper limit for scroll bar is one page shorter" (208), but
  the value is clamped with the page of the size before (`Resized`). The value can
  therefore lag behind `target_block_`, which follows it only when it changes:
  scroll a device of four blocks to its end, make the window three lines high,
  zoom in, make it one line high, open a device of two blocks, and the view starts
  beyond its end. The instances are too small for this; the attempt to prove
  `ViewStaysOnMap` for every device found it, and the property is now about devices
  of at least the size before.
- `clusters.cc:222`: the interval of blocks to be scanned is right-open, and the last
  block in view is its end. A view of a single block is an empty interval, no file
  is looked at, and its square is white whatever lies there. `InView` (`shown` of
  `DiskMap`) leaves such views out.
- `clusters.cc:431`: `fe_flags` is not looked at, so that an extent FIEMAP reports before
  its place is chosen is entered at block 0; `README.md:12` promises colour for
  occupied blocks only. `Placed` keeps `FiemapIsExact` to files on the disk.
- `clusters.cc:281`: windows start at extents only, while `doc/draftpad.md:7, 16` slides
  one through the file for its "slowest file part": a file of two extents longer
  than the window has severity 1 however far apart they lie.
- `clusters.cc:185`: "don't cross mount borders" (163) is tested by device: a directory
  of this device that is mounted in the tree is walked too.
- `clusters.cc:189`: a severity of exactly 2 makes a file fragmented, while `README.md:17-19`
  says "more than two times lower" (`Fragmented`).
- `clusters.cc:166`: `FTS_NOSTAT` makes fts trust link counts that other processes may
  have changed: a directory put into another one just before that is read hides one of
  its subdirectories, which need not be the new one, and the files in it are not found
  (`LookedAt`). Without `LinksStoodStill`, `StillFoundOnce` is violated by it.
- `clusters.cc:166`: a path that is a symbolic link to a directory passes `stat64` and is
  not followed by `FTS_PHYSICAL`: nothing is found (`Start` of `Walk`).
- `fragdb.cc:84`: a walk that gives up cannot say so, and the results before are
  replaced by none, with status 0 (`Walk` of `FragDb`, `ok = FALSE`).
- `fragdb.cc:278`: the threshold of `overs` goes through an int (`Threshold`).
- `mountpoint-select-dialog.cc:147`: OK with no row selected scans the empty path, or
  the row selected before (`SelectedPath`).
- `mountpoint-select-dialog.cc:116`: a tmpfs mounted over another file system is
  offered under the type of that one (`Listed`), although line 117 leaves tmpfs out.

`CHECK_DEADLOCK FALSE` is set where the thing modelled ends: a call of
`get_file_extents` (`Extents`) or `get_file_severity` (`Severity`), a walk (`Walk`),
and all processes of fragdb (`FragDb`).

**Fairness.** `Fairness` of `Extents`: the loop goes on; nothing is assumed
of other processes. `Terminates` depends on `Files` being bounded: a file that
grows faster than it is read can keep the loop busy. `FairSpec` of `FragDb`: the
processes in `Live` are scheduled; the others may stop for ever wherever they are,
with whatever lock they hold, and `NeverWaits` still holds, since no call waits.
`Fragview`, `Walk` and the others state safety only: when a draw is run is up to GTK, and
a walk ends if the tree stops growing, which nothing in the code sees to.

## The proofs

Each proof module has the theorems about one component, for every value of its
constants that its `ASSUME` allows, and assumes nothing else. `DiskMap`, `ScanStore`
and the instances need no theorems of their own.

| Module | Theorem | Property |
|---|---|---|
| `ClustersProofs` | `TypeCorrect` | `TypeOK` |
| | `CoarseMapIsCurrent` | `CoarseMapCurrent` |
| | `IndicesAreValid` | `IndicesValid` |
| | `CoarseMapIndexedInBounds` | `CoarseIndexInBounds` |
| | `NothingIsInvented` | `NothingInvented` |
| | `NothingIsLost` | `NothingLost` |
| | `ClustersTile` | `ClustersTileDevice` |
| | `FillsPaintTheTruth` | `FillPaintsTruth` |
| `FragviewProofs` | `WindowTypes` | `FragviewTypeOK` |
| | `WindowKeepsClusters` | the invariants of `Clusters`, under the window |
| | `ListOfThisScan` | `ListIsOfThisScan` |
| | `ScreenIsTrue` | `ScreenTruth` |
| | `ClickLists` | `ClickListsCluster` |
| | `SelectionIsOnMap` | `SelectsOnMap` |
| | `ZoomIsNotLost` | `ZoomGetsFurther` |
| | `ViewStays` | `ViewStaysOnMap` |
| | `ScrollReaches` | `ScrollReachesAll` |
| | `WindowImplementsDiskMap` | `ImplementsDiskMap` |
| `WalkProofs` | `WalkTypes` | `TypeOK` |
| | `ListsThisDevice` | `OnlyThisDevice` |
| | `StillIsFoundOnce` | `StillFoundOnce` |
| `ExtentsProofs` | `ExtentsTypes` | `TypeOK` |
| | `CallsGetFurther` | `EachCallGetsFurther` |
| | `FiemapMakesNothingUp` | `NothingMadeUp` |
| | `FiemapReportsFile` | `FiemapIsExact` |
| | `FibmapReportsDenseFile` | `FibmapIsExactWhenDense` |
| `SeverityProofs` | `TypeCorrect` | `TypeOK`: the unsigned window never wraps |
| | `SeverityAtMostExtents` | `AtMostItsExtents` |
| | `ComputesTheWorst` | `WorstAtExtents` |
| `FilelistProofs` | `ArrowsTellTheOrder` | `ArrowTellsOrder` |
| `MountpointsProofs` | `DialogTypes` | `TypeOK` |
| | `OnlyOfferedIsScanned` | `ScansOnlyOffered` |
| `FragDbProofs` | `TypeCorrect` | `TypeOK` |
| | `EachListIsOfOneScan` | `ListsOneScan` |
| | `EachScanListsItsOwn` | `ScanListsItsOwn` |
| | `FragDbImplementsScanStore` | `ImplementsScanStore` |

Every module has its inductive invariant at the head of its steps. The arguments:

**Clusters.** `IInv` is the conjunction of `TypeOK`, `CoarseMapCurrent`,
`IndicesValid`, `NothingInvented` and `NothingLost`. Neither of the last two stands
alone: that a fill loses nothing needs the coarse map to be current, that it invents
nothing needs the indices to be valid. `IsFilled` is the strengthening that makes
`NothingLost` inductive: a cell counts as scanned also when only the block before it
is in the cache, since the right-open intervals of the cache leave out their last
block and the scan looks at it all the same. `ClustersTile` needs one more fact,
`CountCurrent`, that the count is that of the present size; `FillsPaintTheTruth` puts
`NothingLost` after the fill (`ViewIsFilled`: every block in view is filled) and
`NothingInvented` together. The lemmas at the head are about division, cells and
clusters.

**Fragview.** `WindowIsAnyStep` says that a handler makes at most one call of class
Clusters, so that `IInv` and `CountCurrent` carry over from `ClustersProofs`, which
proves them for calls with any size and any view (`AnyStep`). `WindowInv` adds
`MapCurrent` (the map has the size of the last allocation, and the range and the page
of the scrollbar are those of the map, from which `ScrollReaches` follows), `TwiceListed`, and `ViewAccurate`: while no draw is
due, what is painted was filled and is still accurate. That is what `ScreenTruth`
cannot say by itself, and what `ClickLists` reads from the cluster. A draw paints the
truth (`DrawPaintsTruth`); any other handler either leaves a draw due or touches
nothing that is seen (`QuietHandler`). `WindowImplementsDiskMap` is that case
distinction step by step. The cluster listed by a click and the one painted are the
same because the arithmetic of both starts at `FirstInView`.

**Walk.** `LevelsLead` and `DownThisDevice` say where fts is. `StillFoundOnce` is about
the end; `NoneMissed` says it of every state: what nobody touches is found, or the
walk has a directory on the way to it still before it (`Comes`). For that fts must know
the directories on the way for directories: `LinksKnown` says that the links it keeps
are, for a directory nothing was put into, at least those it has, so that it looks at all
of them; subdirectories that leave make room for more. `NoneTwice` is the
other half: what was found under one path is the still file, because two paths that
resolve to a node are one (`PathIsUnique`, from the last step backwards).

**Extents.** `ExactSoFar` says of a file that stands still that, wherever the batches
end, there is a number of its extents such that these are entered and the next call
starts after them; `AddExtentFacts` is the arithmetic of one extent, of rounding and
joining. `NothingMadeUp` needs only that what is in the buffer was in the file
(`BatchWasInFile`). FIBMAP has an invariant of its own, `BlocksSoFar`: the buffer
holds the runs of the blocks asked for so far, without a gap, and as many as there
are breaks; that the buffer suffices is `Dense`. Its records are runs of blocks,
more than runs of units where an extent ends within a unit: `Dense` bounds those.

**Severity.** `AtMostItsExtents` is about the worst so far and says nothing of the
window that is open, so that `IInv` adds `TimeBounded`: the time spent in it is at
most that of the blocks read and of one move of the head for each extent begun. A gap
that is read costs at most a move because `Shift` is at most `Penalty`, which is how
`clusters.cc:452-457` calls it: 64 KiB are read in 1.6 ms, and a move takes 20.
`ComputesTheWorst` rests on `WindowSoFar` and `WorstSoFar`: what has been read of the
window and the time it took are the numbers of blocks, and of units of time, from the
first extent of the window on. Offsets count blocks, so that the lemmas are about
cardinalities: an extent adds its blocks (`BlocksGrow`), and its gap if it is read to
its end (`UnitsGrow`).

**Filelist.** The handler's `last_column`, the arrows and the order of the store are
copies of each other, and the store has its order.

**Mountpoints.** While the dialog is open, the path selected is one of its rows or
none; the dialog that is opened next forgets it.

**FragDb.** The lock a process holds is that of the place it is at, one process
writes, and none reads while it writes to the file (`LocksByPlace`, `OneWriter`).
So the tables a list knows are the last ones for as long as it reads (`KnowsTables`),
and what it prints is the head of one list. `ScansStoreFound` ties what is committed
to the walk of that scan. For `FragDbImplementsScanStore` a commit is the one step that
stores, and each way out is matched with the fate of the scan.

Recursion does not occur in these modules: a path, a run or an ordered list is told
by its members, and where an argument goes step by step (`LeastNatural`, `PathIsUnique`)
it takes a least counterexample. The theorems of the library that take an operator
(induction, the image of a finite set) cannot be instantiated by the provers;
surjections and least elements do their work.

Model-checked only, because the provers have no fairness and no `ENABLED`: the two
liveness properties, `NeverWaits` and `Terminates`. So are the three runs that end in a
violation.

## The plan

1. `Clusters`, with its proofs: done.
2. `Severity`, with its proofs: done.
3. `Fragview` and `DiskMap`, `Extents`, `Walk`, `Filelist`, `Mountpoints`, `FragDb` and
   `ScanStore`: done as models.
4. The invariants, the action properties and the two refinements of all of them: done.
5. Left: the safety half of the liveness properties as theorems. For `NeverWaits`, that
   no step of a process waits for another one; for `Terminates`, a measure that every
   step but `FileChanges` makes smaller.
6. Left: the overlap of `Walk` and `Extents` with `Clusters`, that what they find is
   one of the `Scans` it takes.

## Not modelled

`fileseverity.cc` calls `get_file_extents` for each argument and prints the result;
it keeps nothing from one to the next, and what it calls is modelled. `util`
formats sizes. Of the widgets: how a cell is formatted, the split of a path into
name and directory, the status bar, the exact shades, menus, title and locale, and
the sizes the mount point dialog shows: no other state depends on them. Of
`fragdb`: the layout of its lines. A FIFO put in the place of a file between
`lstat64` and `open` would stop the walk until somebody writes to it; `Walk` does not
let a node change its kind. The kernel patches and the build are no part of the
program. `tests/severity_test1.cpp` prints numbers and checks nothing.
