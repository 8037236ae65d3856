----------------------------- MODULE MountTable -----------------------------
(***************************************************************************)
(* Which mounts follow ofgwrite into the new root: readProcMounts() sorts  *)
(* the lines of /proc/mounts, umount_rootfs() moves some mounts, and the   *)
(* rest it unmounts, so that the old root can be unmounted as well.        *)
(*                                                                         *)
(* A path is a sequence of names.  A table is a sequence of mounts, each a *)
(* record of dir, dev and movable (the kernel refuses to move some).  A    *)
(* placement gives the path of each mount that is still there.             *)
(***************************************************************************)
EXTENDS Integers, Sequences

Root    == <<>>
Newroot == <<"newroot">>
OldRoot == <<"oldroot">>

Inside(path, dir) == Len(dir) <= Len(path) /\ SubSeq(path, 1, Len(dir)) = dir
Below(path, dir)  == Inside(path, dir) /\ path # dir
Rest(path, dir)   == SubSeq(path, Len(dir) + 1, Len(path))

-----------------------------------------------------------------------------
(* The mount a path lies on: of those on it and above it the last one      *)
(* mounted.                                                                *)
MountOf(table, path) ==
  LET on == {i \in DOMAIN table : Inside(path, table[i].dir)}
  IN CHOOSE i \in on : \A j \in on : i >= j

(* stat() of mnt_fsname, or of mnt_dir, which leads to what covers it now. *)
HasDevice(table, i, dev) ==
  table[i].dev = dev \/ table[MountOf(table, table[i].dir)].dev = dev

(* The lines that show the type of the rootfs, and /newroot, are not       *)
(* compared with the device of the image files.                            *)
Matching(table, dev) ==
  {i \in DOMAIN table : table[i].dir \notin {Root, Newroot} /\ HasDevice(table, i, dev)}

(* rootfs_mount_point, the last line that matches; the root for none.      *)
RootfsMountPoint(table, dev) ==
  LET matching == Matching(table, dev)
  IN IF matching = {} THEN Root
     ELSE table[CHOOSE i \in matching : \A j \in matching : i >= j].dir

Needed == {Root, Newroot, <<"sys">>, <<"dev">>, <<"dev", "pts">>, <<"proc">>,
           <<"var", "volatile">>}

(* mountlist, "store all other mounts to unmount them".                    *)
Unneeded(table, dev) ==
  {table[i].dir : i \in DOMAIN table \ Matching(table, dev)} \ Needed

-----------------------------------------------------------------------------
AsMounted(table) == [i \in DOMAIN table |-> table[i].dir]

(* pivot_root("/newroot/", "oldroot").                                     *)
Pivoted(table) ==
  [i \in DOMAIN table |-> IF table[i].dir = Newroot THEN Root
                          ELSE OldRoot \o table[i].dir]

(* The directory of a mount cannot be reached under a later mount on it or *)
(* above it.                                                               *)
Hides(placed, j, i) ==
  j > i /\ Below(placed[j], OldRoot) /\ Inside(placed[i], placed[j])

(* Of the mounts stacked on a directory the path leads to the last.        *)
Topmost(placed, dir) ==
  {i \in DOMAIN placed :
     placed[i] = OldRoot \o dir /\ \A j \in DOMAIN placed : ~Hides(placed, j, i)}

(* mount("/oldroot<dir>", dir, NULL, MS_MOVE, NULL) fails if there is no    *)
(* mount, or one that the kernel refuses to move.                          *)
CanMove(table, placed, dir) == \E i \in Topmost(placed, dir) : table[i].movable

(* A mount moves with what has been mounted below it; one that it covered  *)
(* stays.                                                                  *)
MovesWith(placed, dir) ==
  {j \in DOMAIN placed :
     \E i \in Topmost(placed, dir) : j >= i /\ Inside(placed[j], OldRoot \o dir)}

(* The call for each dir.                                                  *)
MovedToNew(table, placed, dirs) ==
  LET moving == UNION {MovesWith(placed, d) : d \in {e \in dirs : CanMove(table, placed, e)}}
  IN [i \in DOMAIN placed |->
        IF i \in moving THEN Rest(placed[i], OldRoot) ELSE placed[i]]

(* umount2(dir, MNT_DETACH) of each: what is below goes with it.  A line   *)
(* for each mount of a stack means a call for each.                        *)
Detached(placed, dirs) ==
  LET gone == {i \in DOMAIN placed : \E d \in dirs :
                 /\ Inside(placed[i], OldRoot \o d)
                 /\ \E j \in DOMAIN placed : placed[j] = OldRoot \o d}
  IN [i \in DOMAIN placed \ gone |-> placed[i]]

SystemDirs == {<<"dev">>, <<"proc">>, <<"sys">>, <<"var", "volatile">>}

(* No mount covers another, the root excepted.                             *)
NothingHidden(table) ==
  \A i, j \in DOMAIN table :
    i < j /\ table[j].dir # Root => ~Inside(table[i].dir, table[j].dir)

(* Nothing but the old root itself is below /oldroot.                      *)
OldRootFree(placed) == \A i \in DOMAIN placed : ~Below(placed[i], OldRoot)
==============================================================================
