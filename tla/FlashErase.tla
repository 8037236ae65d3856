------------------------------ MODULE FlashErase ------------------------------
(***************************************************************************)
(* flash_erase_main() (flash_erase.c) on a NAND partition, as ofgwrite     *)
(* runs it: "flash_erase [-j] dev 0 0", the whole device, with the program *)
(* still running afterwards.  jffs2 and noskipbad are static variables of  *)
(* the file: no call resets them.  The options -N, -u and -q are never     *)
(* given by ofgwrite (noskipbad is still set by the code itself).          *)
(***************************************************************************)
EXTENDS Mtd

CONSTANT JffsTypes      (* MTD types JFFS2 can live on                     *)

VARIABLES
  dev, bad,     (* the partition, see NandWrite                            *)
  mtype,        (* mtd.type: "nand" or "mlc"                               *)
  marker,       (* blocks with a JFFS2 cleanmarker in the OOB area         *)
  jffs2,        (* static int jffs2                                        *)
  noskipbad,    (* static int noskipbad                                    *)
  epc,          (* "idle", "prepare", "loop", "cleanmarker", "done"        *)
  eeb,          (* eb, the block of the loop                               *)
  eresult,      (* return value, 0 is success                              *)
  complained    (* an "MTD ... failure" message was printed by this call   *)

callVars  == <<epc, eeb, eresult, complained>>
statics   == <<jffs2, noskipbad>>
eraseVars == <<marker, mtype, statics, callVars>>

(* The call parses its options into the static variables.                  *)
SetOption(old, given) == old \/ given

EraseCall(j) ==
  /\ epc = "idle"
  /\ jffs2' = SetOption(jffs2, j)
  /\ epc' = "prepare"
  /\ eeb' = 0
  /\ complained' = FALSE
  /\ UNCHANGED <<dev, bad, marker, mtype, noskipbad, eresult>>

EraseReturns(r) == epc' = "done" /\ eresult' = r

(* libmtd_open(), open(), mtd_get_dev_info(), the OOB layout queries of a  *)
(* JFFS2 format; each may fail.                                            *)
EraseRefused ==
  /\ epc = "prepare"
  /\ EraseReturns(-1)
  /\ UNCHANGED <<dev, bad, marker, mtype, statics, eeb, complained>>

ErasePrepared ==
  /\ epc = "prepare"
  /\ jffs2 => mtype \in JffsTypes
  /\ epc' = "loop"
  /\ UNCHANGED <<dev, bad, marker, mtype, statics, eeb, eresult, complained>>

(* Mutant: the last block is left out.                                     *)
InLoopShort == eeb < EbCnt - 1

InLoop == eeb < EbCnt

SkipBad ==
  /\ epc = "loop" /\ InLoop
  /\ ~noskipbad
  /\ eeb \in bad
  /\ eeb' = eeb + 1
  /\ UNCHANGED <<dev, bad, marker, mtype, statics, epc, eresult, complained>>

(* mtd_is_bad() < 0: EOPNOTSUPP also sets noskipbad before the return.     *)
EraseBadCheckFails ==
  /\ epc = "loop" /\ InLoop
  /\ ~noskipbad
  /\ noskipbad' \in BOOLEAN
  /\ EraseReturns(-1)
  /\ UNCHANGED <<dev, bad, marker, mtype, jffs2, eeb, complained>>

EraseOk ==
  /\ epc = "loop" /\ InLoop
  /\ eeb \notin bad
  /\ dev' = [dev EXCEPT ![eeb] = ErasedBlock]
  /\ marker' = marker \ {eeb}
  /\ IF jffs2 THEN epc' = "cleanmarker" /\ eeb' = eeb
              ELSE epc' = "loop" /\ eeb' = eeb + 1
  /\ UNCHANGED <<bad, mtype, statics, eresult, complained>>

(* The failure is printed and the loop continues with the next block.  The *)
(* kernel refuses to erase a block that is marked bad.                     *)
EraseFailure ==
  /\ epc = "loop" /\ InLoop
  /\ noskipbad \/ eeb \notin bad
  /\ IF eeb \in bad THEN UNCHANGED dev
     ELSE \E block \in FailedErase(dev[eeb]) : dev' = [dev EXCEPT ![eeb] = block]
  /\ eeb' = eeb + 1
  /\ complained' = TRUE
  /\ UNCHANGED <<bad, marker, mtype, statics, epc, eresult>>

(* Mutant: a block without a cleanmarker is tried again.                   *)
CleanmarkerRetries ==
  /\ epc = "cleanmarker"
  /\ \/ marker' = marker \union {eeb} /\ eeb' = eeb + 1 /\ UNCHANGED complained
     \/ complained' = TRUE /\ UNCHANGED <<marker, eeb>>
  /\ epc' = "loop"
  /\ UNCHANGED <<dev, bad, mtype, statics, eresult>>

(* mtd_write_oob(); a failure is printed and ignored.                      *)
Cleanmarker ==
  /\ epc = "cleanmarker"
  /\ \/ marker' = marker \union {eeb} /\ UNCHANGED complained
     \/ complained' = TRUE /\ UNCHANGED marker
  /\ eeb' = eeb + 1
  /\ epc' = "loop"
  /\ UNCHANGED <<dev, bad, mtype, statics, eresult>>

EraseDone ==
  /\ epc = "loop" /\ ~InLoop
  /\ EraseReturns(0)
  /\ UNCHANGED <<dev, bad, marker, mtype, statics, eeb, complained>>

EraseStep ==
  \/ EraseRefused \/ ErasePrepared \/ SkipBad \/ EraseBadCheckFails
  \/ EraseOk \/ EraseFailure \/ Cleanmarker \/ EraseDone
==============================================================================
