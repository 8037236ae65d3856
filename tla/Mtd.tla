--------------------------------- MODULE Mtd ---------------------------------
(***************************************************************************)
(* One MTD NAND partition as ofgwrite's flashing code sees it through      *)
(* lib/libmtd.c: EbCnt eraseblocks of PagesPerEb pages (min_io_size units) *)
(* each.  The content of a page is abstracted to what the callers can tell *)
(* apart: erased, the i-th page of the image being flashed (i > 0), or     *)
(* something else (old data, a half-programmed page, a failed erase).      *)
(*                                                                         *)
(* The operators give the SET of device contents an operation may leave    *)
(* behind; the callers' actions choose one of them with \E.                *)
(***************************************************************************)
EXTENDS Integers

CONSTANTS
  EbCnt,        (* mtd.eb_cnt                            *)
  PagesPerEb    (* mtd.eb_size / mtd.min_io_size         *)

ASSUME EbCntAssumption == EbCnt \in Nat \ {0}
ASSUME PagesPerEbAssumption == PagesPerEb \in Nat \ {0}

Blocks == 0 .. EbCnt - 1
Pages  == 0 .. PagesPerEb - 1

Erased  == 0
Garbage == -1

(* A page holds one of the first n image pages, nothing, or garbage.       *)
Content(n) == -1 .. n

ErasedBlock  == [p \in Pages |-> Erased]
GarbageBlock == [p \in Pages |-> Garbage]

(***************************************************************************)
(* mtd_valid_erase_block(): every libmtd call refuses an eraseblock number *)
(* outside the device with EINVAL.                                         *)
(***************************************************************************)
ValidEb(eb) == eb \in Blocks

(***************************************************************************)
(* mtd_write() of one page holding x.  NAND programming only clears bits,  *)
(* so a page that was not erased ends up with neither content.  A failing  *)
(* write leaves the page as it was or half programmed.                     *)
(***************************************************************************)
Programmed(block, p, x) ==
  [block EXCEPT ![p] = IF @ = Erased THEN x ELSE Garbage]

FailedWrite(block, p) == {block, [block EXCEPT ![p] = Garbage]}

(***************************************************************************)
(* mtd_erase() of one block; a failing erase leaves the block as it was or *)
(* unreadable.                                                             *)
(***************************************************************************)
FailedErase(block) == {block, GarbageBlock}
==============================================================================
