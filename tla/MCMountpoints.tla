---------------------------- MODULE MCMountpoints ----------------------------
(***************************************************************************)
(* Instances of Mountpoints for TLC: three mount points, one with a blank  *)
(* in its name, and four kinds of file system.                             *)
(***************************************************************************)
EXTENDS Mountpoints

CONSTANTS home, usb, blank

System(type, blocks) == [type |-> type, blocks |-> blocks]
MCSystems ==
  {System("ext4", 9), System("tmpfs", 5), System("devtmpfs", 5), System("proc", 0)}
=============================================================================
