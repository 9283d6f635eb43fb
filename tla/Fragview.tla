------------------------------ MODULE Fragview ------------------------------
(***************************************************************************)
(* The main window of fragview: class Fragmap (src/fragmap-widget.cc), the *)
(* map of the disk with its scrollbar, class FilelistView                  *)
(* (src/filelist-widget.cc), the list of files under it, and the menu      *)
(* handlers of class GraphWindow (src/fragview.cc), on top of Clusters.    *)
(*                                                                         *)
(* GTK runs every handler in the main thread, so that a handler is a step; *)
(* it runs them in any order, and a draw that was queued comes any number  *)
(* of handlers later.  Signals are synchronous: changing the value of the  *)
(* scrollbar or clearing the list runs the handlers of value_changed and   *)
(* of changed inside the step that does it.                                *)
(***************************************************************************)
EXTENDS Clusters

CONSTANTS
  BoxSize,         \* kBoxSize, the pixels between two squares: 7
  ScrollbarWidth,  \* width of the scrollbar, in pixels
  TopRows,         \* rows a report of the View menu lists: 40
  Allocations,     \* sizes the window manager gives the map, in pixels
  Clicks           \* points a button press or a drag may report, in pixels

VARIABLES
  display_mode,      \* display_mode_
  selected_cluster,  \* selected_cluster_
  target_block,      \* target_block_, the first block in view
  selected_files,    \* selected_files_, as a set
  map_width,         \* cluster_map_width_, in squares
  map_height,        \* cluster_map_height_, in squares
  scrollbar,         \* the adjustment of scrollbar_, in lines of squares
  allocation,        \* get_allocation(): <<width, height>> in pixels
  rows,              \* liststore_: <<file, copy>> for each row
  selection,         \* the selected rows
  redraw,            \* queue_draw was called since the last draw
  screen             \* what the last draw painted

listVars == <<selected_files, rows, selection>>
sizeVars == <<map_width, map_height, allocation>>
allVars == <<vars, listVars, sizeVars, display_mode, selected_cluster,
             target_block, scrollbar, redraw, screen>>

Modes == {"all", "cluster", "file"}
Colours == {"free", "fragmented", "continuous"}

ASSUME WindowAssumption ==
  /\ BoxSize \in Nat \ {0}
  /\ ScrollbarWidth \in Nat
  /\ TopRows \in Nat
  /\ Allocations \subseteq (Nat \ {0}) \X (Nat \ {0})
  /\ Clicks \subseteq Int \X Int

-----------------------------------------------------------------------------
(***************************************************************************)
(* GTK.  An adjustment keeps its value between 0 and upper - page, or at 0 *)
(* when a page is more than there is, but does so only where it is set:    *)
(* a change of the page leaves the value alone.                            *)
(***************************************************************************)
Clamped(v, upper, page) == Larger(0, Smaller(v, upper - page))

\* value_changed runs on_scrollbar_value_changed, if the value did change.
\* The value is counted in whole lines, as the handler rounds it.
Follow(old, new, target, width, size) ==
  IF new = old THEN target ELSE width * size * new

\* recalculate_sizes for count clusters of the given size: the size of the
\* map in squares, the scrollbar, and the block the scrollbar settles on.
Resized(alloc, count, size) ==
  LET Columns(pixels) == Larger(1, (pixels - 1) \div BoxSize)
      Lines(columns) == (count - 1) \div columns + 1
      height == (alloc[2] - 1) \div BoxSize + 1
      wide == Columns(alloc[1])
      width == IF Lines(wide) > height THEN Columns(alloc[1] - ScrollbarWidth)
               ELSE wide
      upper == Lines(width)
      ranged == Clamped(scrollbar.value, upper, scrollbar.page)
      kept == Follow(scrollbar.value, ranged, target_block, width, size)
      value == Clamped((kept \div size) \div width, upper, scrollbar.page)
  IN [width     |-> width,
      height    |-> height,
      scrollbar |-> [value |-> value, upper |-> upper, page |-> height],
      target    |-> Follow(ranged, value, kept, width, size),
      moved     |-> ranged # scrollbar.value \/ value # ranged]

RecalculateSizes(alloc) ==
  LET r == Resized(alloc, cluster_count', cluster_size')
  IN  /\ map_width' = r.width
      /\ map_height' = r.height
      /\ scrollbar' = r.scrollbar
      /\ target_block' = r.target
      /\ allocation' = alloc

\* Mutant: on_scrollbar_value_changed does not queue a draw.
SetValueQuietly(v) ==
  LET value == Clamped(v, scrollbar.upper, scrollbar.page)
  IN  /\ scrollbar' = [scrollbar EXCEPT !.value = value]
      /\ target_block' = Follow(scrollbar.value, value, target_block,
                                map_width, cluster_size)
      /\ UNCHANGED redraw

\* Mutant: the value may be as much as the upper end of the range.
SetValueToTheEnd(v) ==
  LET value == Clamped(v, scrollbar.upper, 0)
  IN  /\ scrollbar' = [scrollbar EXCEPT !.value = value]
      /\ target_block' = Follow(scrollbar.value, value, target_block,
                                map_width, cluster_size)
      /\ redraw' = (redraw \/ value # scrollbar.value)

\* scrollbar_.set_value, by the user or by the program.
SetValue(v) ==
  LET value == Clamped(v, scrollbar.upper, scrollbar.page)
  IN  /\ scrollbar' = [scrollbar EXCEPT !.value = value]
      /\ target_block' = Follow(scrollbar.value, value, target_block,
                                map_width, cluster_size)
      /\ redraw' = (redraw \/ value # scrollbar.value)

\* filelist_->clear(), with new rows after it.  Removing a selected row
\* emits changed, and on_selection_changed empties selected_files_ and sets
\* the mode; mode is the mode the caller has set before.
Relist(new, mode) ==
  /\ rows' = new
  /\ selection' = {}
  /\ selected_files' = IF selection = {} THEN selected_files ELSE {}
  /\ display_mode' = IF selection = {} THEN mode ELSE "file"

\* One row for each file.
Rows(fs) == {<<i, 1>> : i \in fs}

-----------------------------------------------------------------------------
(***************************************************************************)
(* What a draw paints: the first cluster in view, the colour of each       *)
(* square, and the squares highlighted on the bleached map.                *)
(***************************************************************************)
\* target_line and target_offset are ints in the code; here they do not wrap
\* around, which is the same for a map of fewer than 2^31 clusters.
TargetLine == (target_block \div cluster_size) \div map_width
FirstInView == TargetLine * map_width
View == FirstInView .. FirstInView + map_width * map_height - 1
Squares == View \cap (0 .. cluster_count - 1)

Colour(free, fragmented) ==
  IF free THEN "free" ELSE IF fragmented THEN "fragmented" ELSE "continuous"

\* The clusters of the blocks of a file, those past the device included.
ClustersOf(i) ==
  UNION {e.start \div cluster_size .. Last(e) \div cluster_size :
           e \in files[i].extents}

Highlighted(mode, cluster, chosen) ==
  View \cap CASE mode = "all" -> {}
              [] mode = "cluster" -> {cluster}
              [] mode = "file" -> UNION {ClustersOf(i) : i \in chosen}

Blank == [mode |-> "all", first |-> 0, colours |-> << >>, marked |-> {}]

FragviewInit ==
  /\ Init
  /\ display_mode = "all"
  /\ selected_cluster = 0
  /\ target_block = 0
  /\ selected_files = {}
  /\ map_width = 1
  /\ map_height = 1
  /\ scrollbar = [value |-> 0, upper |-> 0, page |-> 0]
  /\ allocation = <<1, 1>>
  /\ rows = {}
  /\ selection = {}
  /\ redraw = TRUE
  /\ screen = Blank

-----------------------------------------------------------------------------
(* Handlers of class Fragmap. *)

\* The map gets its first size when the window is shown; before that only a
\* directory named on the command line is opened.
Shown == allocation # <<1, 1>>

OnSizeAllocate(alloc) ==
  /\ UNCHANGED vars
  /\ RecalculateSizes(alloc)
  /\ redraw' = \/ redraw
               \/ alloc # allocation
               \/ Resized(alloc, cluster_count, cluster_size).moved
  /\ UNCHANGED <<listVars, display_mode, selected_cluster, screen>>

OnDraw ==
  /\ Shown /\ redraw
  /\ FillClusters(FirstInView, map_width * map_height)
  /\ selected_cluster' = IF selected_cluster > cluster_count
                         THEN cluster_count - 1 ELSE selected_cluster
  /\ screen' = [mode    |-> display_mode,
                first   |-> FirstInView,
                colours |-> [k \in Squares |->
                               Colour(At(k)'.free, At(k)'.fragmented)],
                marked  |-> Highlighted(display_mode, selected_cluster',
                                        selected_files)]
  /\ redraw' = FALSE
  /\ UNCHANGED <<listVars, sizeVars, display_mode, target_block, scrollbar>>

\* Mutant: 15% of a small number are no block.
ZoomedByFactor(direction) ==
  CASE direction = "up" -> Larger(1, (20 * cluster_size) \div 23)
    [] direction = "down" -> (23 * cluster_size) \div 20
    [] OTHER -> cluster_size

\* Ctrl and the wheel: up divides the size by 1.15, down multiplies it.
Zoomed(direction) ==
  CASE direction = "up" -> Larger(1, (20 * cluster_size) \div 23)
    [] direction = "down" ->
         Larger(cluster_size + 1, (23 * cluster_size) \div 20)
    [] OTHER -> cluster_size

\* Mutant: only a change of the scrollbar queues a draw.
OnZoomQuietly(direction) ==
  /\ Shown
  /\ SetDesiredClusterSize(Zoomed(direction))
  /\ RecalculateSizes(allocation)
  /\ redraw' = (redraw \/ target_block' # target_block)
  /\ UNCHANGED <<listVars, display_mode, selected_cluster, screen>>

OnZoom(direction) ==
  /\ Shown
  /\ SetDesiredClusterSize(Zoomed(direction))
  /\ RecalculateSizes(allocation)
  /\ redraw' = TRUE
  /\ UNCHANGED <<listVars, display_mode, selected_cluster, screen>>

OnScroll(direction) ==
  /\ Shown
  /\ SetValue(CASE direction = "up" -> scrollbar.value - 1
                [] direction = "down" -> scrollbar.value + 1
                [] OTHER -> scrollbar.value)
  /\ UNCHANGED <<vars, listVars, sizeVars, display_mode,
                 selected_cluster, screen>>

OnScrollbarDrag(value) ==
  /\ Shown
  /\ SetValue(value)
  /\ UNCHANGED <<vars, listVars, sizeVars, display_mode,
                 selected_cluster, screen>>

\* A double is truncated towards zero, and so is the quotient.
BoxOf(pixels) == IF pixels >= 0 THEN pixels \div BoxSize
                 ELSE 0 - ((0 - pixels) \div BoxSize)

\* Mutant: the map is taken to start at its first line.
ClusterAtTop(x, y) ==
  LET raw == BoxOf(y) * map_width + BoxOf(x)
  IN  IF raw < 0 \/ raw >= cluster_count THEN cluster_count - 1 ELSE raw

\* Mutant: only what is above the map is brought back onto it.
ClusterAnywhere(x, y) ==
  LET raw == (BoxOf(y) + TargetLine) * map_width + BoxOf(x)
  IN  IF raw < 0 THEN 0 ELSE raw

\* Mutant: a signed number, and what is above the map is left there.
ClusterSigned(x, y) ==
  LET raw == (BoxOf(y) + TargetLine) * map_width + BoxOf(x)
  IN  IF raw >= cluster_count THEN cluster_count - 1 ELSE raw

\* The cluster highlight_cluster_at takes (x, y) for.  A negative number
\* becomes a huge uint64_t.
ClusterAt(x, y) ==
  LET raw == (BoxOf(y) + TargetLine) * map_width + BoxOf(x)
  IN  IF raw < 0 \/ raw >= cluster_count THEN cluster_count - 1 ELSE raw

\* A press of the left button, or motion with the button held.
HighlightClusterAt(x, y) ==
  /\ Shown
  /\ \/ /\ display_mode # "cluster" \/ selected_cluster # ClusterAt(x, y)
        /\ selected_cluster' = ClusterAt(x, y)
        /\ Relist(Rows(At(ClusterAt(x, y)).files) \cup
                    {<<i, 2>> : i \in At(ClusterAt(x, y)).twice}, "cluster")
        /\ redraw' = TRUE
     \/ /\ display_mode = "cluster" /\ selected_cluster = ClusterAt(x, y)
        /\ UNCHANGED <<listVars, selected_cluster, display_mode, redraw>>
  /\ UNCHANGED <<vars, sizeVars, target_block, scrollbar, screen>>

-----------------------------------------------------------------------------
(* Handlers of class FilelistView and of class GraphWindow. *)

OnSelectionChanged(chosen) ==
  /\ Shown
  /\ selection' = chosen
  /\ selected_files' = {r[1] : r \in chosen}
  /\ display_mode' = "file"
  /\ redraw' = TRUE
  /\ UNCHANGED <<vars, sizeVars, rows, selected_cluster, target_block,
                 scrollbar, screen>>

\* The files of a report: at most TopRows, none left out in favour of one
\* with a smaller key.
Reports(key) ==
  {top \in SUBSET DOMAIN files :
     /\ Cardinality(top) = Smaller(TopRows, Len(files))
     /\ \A i \in top, j \in DOMAIN files \ top : key[i] >= key[j]}

Report(top) ==
  /\ Shown
  /\ Relist(Rows(top), display_mode)
  /\ redraw' = (redraw \/ selection # {})
  /\ UNCHANGED <<vars, sizeVars, selected_cluster, target_block,
                 scrollbar, screen>>

OnViewMostFragmented ==
  \E top \in Reports([i \in DOMAIN files |-> Cardinality(files[i].extents)]) :
    Report(top)

OnViewMostSevere ==
  \E top \in Reports([i \in DOMAIN files |-> files[i].severity]) : Report(top)

OnViewRestore ==
  /\ Shown
  /\ Relist({}, "all")
  /\ redraw' = TRUE
  /\ UNCHANGED <<vars, sizeVars, selected_cluster, target_block,
                 scrollbar, screen>>

\* Mutant: the scrollbar keeps the range it had for the device before.
OpenKeepingRange ==
  /\ Relist({}, display_mode)
  /\ \/ \E scan \in Scans : ScanDir(scan)
     \/ ScanDirFails
  /\ redraw' = TRUE
  /\ UNCHANGED <<sizeVars, target_block, scrollbar, selected_cluster, screen>>

\* Mutant: scan_dir does not clear the list.
OpenKeepingList ==
  /\ \/ \E scan \in Scans : ScanDir(scan)
     \/ ScanDirFails
  /\ RecalculateSizes(allocation)
  /\ redraw' = TRUE
  /\ UNCHANGED <<listVars, display_mode, selected_cluster, screen>>

\* scan_dir: the list is cleared before the files its rows stand for go.
OpenDirectory ==
  /\ Relist({}, display_mode)
  /\ \/ \E scan \in Scans : ScanDir(scan)
     \/ ScanDirFails
  /\ RecalculateSizes(allocation)
  /\ redraw' = TRUE
  /\ UNCHANGED <<selected_cluster, screen>>

-----------------------------------------------------------------------------
FragviewNext ==
  \/ \E alloc \in Allocations : OnSizeAllocate(alloc)
  \/ OnDraw
  \/ \E direction \in {"up", "down", "left"} : OnZoom(direction)
  \/ \E direction \in {"up", "down", "left"} : OnScroll(direction)
  \/ \E value \in 0 .. scrollbar.upper : OnScrollbarDrag(value)
  \/ OnViewMostFragmented
  \/ OnViewMostSevere
  \/ OnViewRestore
  \/ \E chosen \in SUBSET rows : OnSelectionChanged(chosen)
  \/ \E p \in Clicks : HighlightClusterAt(p[1], p[2])
  \/ OpenDirectory

FragviewSpec == FragviewInit /\ [][FragviewNext]_allVars

-----------------------------------------------------------------------------
FragviewTypeOK ==
  /\ TypeOK
  /\ display_mode \in Modes
  /\ selected_cluster \in Nat
  /\ target_block \in Nat
  /\ selected_files \subseteq Nat
  /\ map_width \in Nat \ {0}
  /\ map_height \in Nat \ {0}
  /\ scrollbar \in [value : Nat, upper : Nat, page : Nat]
  /\ allocation \in Nat \X Nat
  /\ rows \subseteq Nat \X {1, 2}
  /\ selection \subseteq rows
  /\ redraw \in BOOLEAN
  /\ screen.mode \in Modes
  /\ screen.first \in Nat
  /\ screen.marked \subseteq Nat

TrueColours ==
  [k \in Squares |->
     Colour(Occupants(k) = {}, \E i \in Occupants(k) : Fragmented(i))]

\* More than one block is in view: a view of a single block is never scanned.
InView == DeviceOpen /\ SpansBlocks(FirstInView, map_width * map_height)

\* README.md: "Square's color is white for unoccupied blocks and colored for
\* occupied ones", red for part of a fragmented file and blue otherwise.
\* Whenever no draw is pending, the screen shows the present mode and view,
\* and the colours are those of the device, however it was scanned, zoomed
\* and scrolled to: nothing the screen depends on changes without a
\* queue_draw, and no fill is skipped that was needed.
ScreenTruth ==
  ~redraw /\ InView =>
    screen = [mode    |-> display_mode,
              first   |-> FirstInView,
              colours |-> TrueColours,
              marked  |-> Highlighted(display_mode, selected_cluster,
                                      selected_files)]

\* selected_files_ is what is selected in the list, and the rows of the list
\* stand for files of the last scan: files.at(file_idx) in the draw never
\* throws (fragmap-widget.cc:351), although collect_fragments replaces files_.
ListIsOfThisScan ==
  /\ selected_files = {r[1] : r \in selection}
  /\ \A r \in rows : r[1] \in DOMAIN files

\* A view that starts on the device stays on it, and on the map, whatever is
\* resized, zoomed and scrolled, and whichever device of at least its size is
\* opened (fragmap-widget.cc:179-211, 433-438).  A smaller one need not be
\* scrolled back to: the range of the scrollbar is set with the page of the
\* size before.
ViewStaysOnMap ==
  [][target_block < device_size /\ device_size =< device_size' =>
       target_block' < device_size' /\ (FirstInView < cluster_count)']_allVars

\* Each cluster of the map can be scrolled to: whatever is resized, zoomed and
\* scanned, some value the scrollbar accepts brings the line of the cluster
\* into view, also when the page is one that is set after the range and the
\* value (fragmap-widget.cc:181-211).
ScrollReachesAll ==
  Shown =>
    \A c \in 0 .. cluster_count - 1 :
      \E v \in 0 .. scrollbar.upper :
        LET line == Clamped(v, scrollbar.upper, scrollbar.page)
        IN  c \in line * map_width .. (line + map_height) * map_width - 1

\* Clicking a square of a screen that is up to date lists each file that
\* has a block in the cluster painted there, once (fragmap-widget.cc:402-414),
\* unless that cluster is highlighted already.
ClickListsCluster ==
  [][\A p \in Clicks :
       LET clicked == screen.first + BoxOf(p[2]) * map_width + BoxOf(p[1])
       IN  /\ HighlightClusterAt(p[1], p[2]) /\ ~redraw /\ redraw'
           /\ InView
           /\ BoxOf(p[1]) \in 0 .. map_width - 1
           /\ BoxOf(p[2]) \in 0 .. map_height - 1
           /\ clicked \in DOMAIN screen.colours
           => rows' = Rows(Occupants(clicked))]_allVars

\* Whatever point is pressed, in the margins, above the map or after a drag
\* out of it, and however the number of clusters has changed since: what is
\* selected is a cluster of the map (fragmap-widget.cc:390-397, 323).
SelectsOnMap ==
  [][selected_cluster' # selected_cluster => selected_cluster' < cluster_count']_allVars

\* A turn of the wheel is never lost in rounding: zooming out enlarges the
\* clusters until they are a hundredth of the device, and zooming in makes
\* them smaller until they are single blocks (fragmap-widget.cc:141-151,
\* clusters.cc:95).
ZoomGetsFurther ==
  [][/\ OnZoom("down") => \/ cluster_size' > cluster_size
                          \/ cluster_size' = device_size \div CapDivisor + 1
     /\ OnZoom("up") => cluster_size' < cluster_size \/ cluster_size = 1]_allVars

\* The window implements the display of README.md, which has no cache: no
\* handler changes what is to be seen without asking for a draw, and a draw
\* paints what a look at every block of every file would (clusters.cc:203-269,
\* fragmap-widget.cc:219-317).
Display == INSTANCE DiskMap WITH
             device  <- device_size,
             size    <- cluster_size,
             view    <- Squares,
             painted <- screen.colours,
             shown   <- InView,
             pending <- redraw
ImplementsDiskMap == Display!Spec

-----------------------------------------------------------------------------
\* README.md: each square represents a number of blocks.  The selected one
\* is moved back onto the map when the map has shrunk (fragmap-widget.cc:323).
SelectedSquareIsOnMap ==
  ~redraw /\ screen.mode = "cluster" => screen.marked \subseteq 0 .. cluster_count - 1
=============================================================================
