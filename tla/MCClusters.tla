----------------------------- MODULE MCClusters -----------------------------
(***************************************************************************)
(* Instances of Clusters for TLC: devices of 5 and 6 blocks, so that the   *)
(* last cell of the coarse map is a single block in one and whole in the   *)
(* other, and up to two files.                                             *)
(***************************************************************************)
EXTENDS Clusters

Ext(s, l) == [start |-> s, length |-> l]
File(exts, sev) == [extents |-> exts, severity |-> sev]

\* Extents that straddle cells and clusters, touch the last block, lie
\* beyond the device, share a block, and two of one file in one cluster.
MCScans ==
  {[device_size |-> d, files |-> fs] : d \in {5, 6, 7},
     fs \in {<<File({Ext(1, 4)}, 1), File({Ext(0, 1), Ext(2, 1)}, 2)>>,
             <<File({}, 1), File({Ext(0, 1), Ext(5, 3)}, 2)>>,
             <<File({Ext(3, 1), Ext(7, 2)}, 1)>>,
             <<File({Ext(4, 1)}, 2), File({Ext(4, 2)}, 1)>>}}

MCDesiredSizes == 1 .. 3
MCViewStarts == 0 .. 5
MCViewLengths == 1 .. 3
=============================================================================
