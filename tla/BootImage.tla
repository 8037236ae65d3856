------------------------------ MODULE BootImage ------------------------------
(***************************************************************************)
(* generate_boot_image(): packs the kernel and the device tree of the new  *)
(* root file system into an Android boot image.  Both are read before the  *)
(* old image is removed; a write that fails removes the new one.           *)
(***************************************************************************)
EXTENDS Integers

VARIABLES
  bootimg,   (* the file: "absent", "old", "part" or "new"                 *)
  bpc,       (* "idle", "load", "remove", "create", "write", "end"         *)
  bwritten,  (* parts written: header, kernel, ramdisk, device tree        *)
  bresult    (* "none", "ok", "failed"                                     *)

bootVars == <<bootimg, bpc, bwritten, bresult>>

Parts == 4

BootInit ==
  /\ bootimg \in {"absent", "old"} /\ bpc = "idle" /\ bwritten = 0
  /\ bresult = "none"

BGoto(l) == bpc' = l /\ UNCHANGED bresult
BReturn(r) == bpc' = "end" /\ bresult' = r

StartBootImage == bpc = "idle" /\ BGoto("load") /\ UNCHANGED <<bootimg, bwritten>>

(* load_file() of both, and the hash over them.                            *)
LoadFiles == bpc = "load" /\ BGoto("remove") /\ UNCHANGED <<bootimg, bwritten>>

LoadFails == bpc = "load" /\ BReturn("failed") /\ UNCHANGED <<bootimg, bwritten>>

RemoveFails ==
  /\ bpc = "remove" /\ bootimg # "absent"
  /\ BReturn("failed")
  /\ UNCHANGED <<bootimg, bwritten>>

RemoveOld ==
  /\ bpc = "remove"
  /\ bootimg' = "absent"
  /\ BGoto("create")
  /\ UNCHANGED bwritten

CreateNew ==
  /\ bpc = "create"
  /\ \/ bootimg' = "part" /\ BGoto("write")
     \/ BReturn("failed") /\ UNCHANGED bootimg
  /\ UNCHANGED bwritten

(* write() and write_padding() of a part.                                  *)
WritePart ==
  /\ bpc = "write" /\ bwritten < Parts
  /\ bwritten' = bwritten + 1
  /\ BGoto("write")
  /\ UNCHANGED bootimg

WriteFailsUnlinks ==
  /\ bpc = "write" /\ bwritten < Parts
  /\ bootimg' = "absent"
  /\ BReturn("failed")
  /\ UNCHANGED bwritten

WriteDone ==
  /\ bpc = "write" /\ bwritten = Parts
  /\ bootimg' = "new"
  /\ BReturn("ok")
  /\ UNCHANGED bwritten

BootStep ==
  \/ LoadFiles \/ LoadFails \/ RemoveFails \/ RemoveOld \/ CreateNew
  \/ WritePart \/ WriteFailsUnlinks \/ WriteDone
==============================================================================
