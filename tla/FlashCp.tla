------------------------------- MODULE FlashCp -------------------------------
(***************************************************************************)
(* flashcp_main() (flashcp.c) as ofgwrite runs it on NOR flash: "flashcp   *)
(* -v file dev", or "-vr" for the rootfs.  -v erases one block at a time.  *)
(* The transfer unit (BUFSIZE, 10 KiB) is taken to be a page of Mtd.  In   *)
(* the code it need not divide the block, and a unit may reach into the    *)
(* next one: all blocks of the image are erased before the first write.    *)
(* The loop that would verify the flash is commented out in the source.    *)
(***************************************************************************)
EXTENDS Mtd

VARIABLES
  dev,         (* the partition, see NandWrite; NOR has no bad blocks      *)
  ofg_imglen,  (* filestat.st_size, rounded up to pages                    *)
  cpc,         (* "idle", "open", "erase", "write", "done", "rebooted"     *)
  ceb,         (* blocks erased                                            *)
  written,     (* pages written                                            *)
  reboots,     (* FLAG_REBOOT                                              *)
  cresult      (* return value, 0 is success                               *)

copyVars == <<cpc, ceb, written, reboots, cresult>>

CopyCall(r) ==
  /\ cpc = "idle"
  /\ cpc' = "open"
  /\ ceb' = 0 /\ written' = 0
  /\ reboots' = r
  /\ UNCHANGED <<dev, ofg_imglen, cresult>>

CopyReturns(r) ==
  /\ cpc' = "done"
  /\ cresult' = r
  /\ UNCHANGED reboots

CopyFits == ofg_imglen <= EbCnt * PagesPerEb

(* "erase enough blocks so that we can write the file".                    *)
BlocksToErase == (ofg_imglen + PagesPerEb - 1) \div PagesPerEb

CopyOpen ==
  /\ cpc = "open"
  /\ \/ CopyFits /\ cpc' = "erase" /\ UNCHANGED <<reboots, cresult>>
     \/ CopyReturns(-1)
  /\ UNCHANGED <<dev, ofg_imglen, ceb, written>>

(* Mutant: a block too many is erased.                                     *)
CopyEraseTooMuch ==
  /\ cpc = "erase"
  /\ ceb < BlocksToErase
  /\ dev' = [b \in Blocks |-> IF b \in {ceb, ceb + 1} THEN ErasedBlock ELSE dev[b]]
  /\ ceb' = ceb + 1
  /\ UNCHANGED <<ofg_imglen, cpc, written, reboots, cresult>>

CopyErase ==
  /\ cpc = "erase"
  /\ ceb < BlocksToErase
  /\ dev' = [dev EXCEPT ![ceb] = ErasedBlock]
  /\ ceb' = ceb + 1
  /\ UNCHANGED <<ofg_imglen, cpc, written, reboots, cresult>>

CopyEraseFails ==
  /\ cpc = "erase"
  /\ ceb < BlocksToErase
  /\ \E block \in FailedErase(dev[ceb]) : dev' = [dev EXCEPT ![ceb] = block]
  /\ CopyReturns(-1)
  /\ UNCHANGED <<ofg_imglen, ceb, written>>

CopyErased ==
  /\ cpc = "erase"
  /\ ceb = BlocksToErase
  /\ cpc' = "write"
  /\ UNCHANGED <<dev, ofg_imglen, ceb, written, reboots, cresult>>

(* The device is written from its start, as the file descriptor moves.     *)
CopyEb == written \div PagesPerEb
CopyPg == written % PagesPerEb

CopyWrite ==
  /\ cpc = "write"
  /\ written < ofg_imglen
  /\ dev' = [dev EXCEPT ![CopyEb] = Programmed(@, CopyPg, written + 1)]
  /\ written' = written + 1
  /\ UNCHANGED <<ofg_imglen, cpc, ceb, reboots, cresult>>

(* A read error of the file, a write error or a short write.               *)
CopyWriteFails ==
  /\ cpc = "write"
  /\ written < ofg_imglen
  /\ \E block \in FailedWrite(dev[CopyEb], CopyPg) :
       dev' = [dev EXCEPT ![CopyEb] = block]
  /\ CopyReturns(-1)
  /\ UNCHANGED <<ofg_imglen, ceb, written>>

(* reboot() does not come back, unless it is refused: then 0 is returned.  *)
CopyDone ==
  /\ cpc = "write"
  /\ written = ofg_imglen
  /\ \/ CopyReturns(0)
     \/ reboots /\ cpc' = "rebooted" /\ UNCHANGED <<reboots, cresult>>
  /\ UNCHANGED <<dev, ofg_imglen, ceb, written>>

CopyStep ==
  \/ CopyOpen \/ CopyErase \/ CopyEraseFails \/ CopyErased
  \/ CopyWrite \/ CopyWriteFails \/ CopyDone
==============================================================================
