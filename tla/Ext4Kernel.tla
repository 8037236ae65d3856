----------------------------- MODULE Ext4Kernel -----------------------------
(***************************************************************************)
(* flash_ext4_kernel(): copies the kernel file to a block device through a *)
(* stdio stream, in pieces of 512 bytes.  The stream keeps up to BufUnits  *)
(* pieces and writes them when there is no room for the next, or in        *)
(* fclose(), whose result is not looked at.                                *)
(***************************************************************************)
EXTENDS Integers

CONSTANTS KernelUnits,  (* length of the kernel file in pieces            *)
          BufUnits      (* stdio's buffer                                  *)

ASSUME Ext4KernelAssumption == KernelUnits \in Nat /\ BufUnits \in Nat \ {0}

VARIABLES
  kdev,      (* how many pieces of the new kernel the device holds         *)
  kread,     (* pieces read                                                *)
  kbuf,      (* pieces in the stream's buffer                              *)
  kresult    (* "idle", "running", "closing", "ok", "failed"               *)

kernelVars == <<kdev, kread, kbuf, kresult>>

KernelInit == kdev = 0 /\ kread = 0 /\ kbuf = 0 /\ kresult = "idle"

StartKernel ==
  /\ kresult = "idle" /\ kresult' = "running"
  /\ UNCHANGED <<kdev, kread, kbuf>>

(* The kernel file or the device cannot be opened.                         *)
KernelOpenFails ==
  /\ kresult = "running" /\ kread = 0
  /\ kresult' = "failed"
  /\ UNCHANGED <<kdev, kread, kbuf>>

(* fread() and fwrite() of a piece; the buffer is flushed when it is full. *)
CopyPiece ==
  /\ kresult = "running" /\ kread < KernelUnits
  /\ kread' = kread + 1
  /\ IF kbuf < BufUnits THEN kbuf' = kbuf + 1 /\ UNCHANGED kdev
     ELSE kdev' = kdev + kbuf /\ kbuf' = 1
  /\ UNCHANGED kresult

(* Some of the buffer is written when the device fails.                    *)
LosesBuffer == kdev' \in kdev .. kdev + kbuf - 1 /\ kbuf' = 0

(* Mutant: the result of fwrite() is not looked at.                        *)
FlushErrorIgnored ==
  /\ kresult = "running" /\ kread < KernelUnits /\ kbuf = BufUnits
  /\ LosesBuffer
  /\ UNCHANGED <<kread, kresult>>

FlushFails ==
  /\ kresult = "running" /\ kread < KernelUnits /\ kbuf = BufUnits
  /\ LosesBuffer
  /\ kresult' = "failed"
  /\ UNCHANGED kread

(* The error return closes the device, which writes what is buffered.      *)
KernelReadFails ==
  /\ kresult = "running" /\ kread < KernelUnits
  /\ kdev' \in kdev .. kdev + kbuf /\ kbuf' = 0
  /\ kresult' = "failed"
  /\ UNCHANGED kread

KernelEof ==
  /\ kresult = "running" /\ kread = KernelUnits
  /\ kresult' = "closing"
  /\ UNCHANGED <<kdev, kread, kbuf>>

(* fclose() flushes the rest, or fails to: 1 is returned either way.       *)
CloseKernel ==
  /\ kresult = "closing"
  /\ kdev' \in kdev .. kdev + kbuf /\ kbuf' = 0
  /\ kresult' = "ok"
  /\ UNCHANGED kread

KernelStep ==
  \/ KernelOpenFails \/ CopyPiece \/ FlushFails \/ KernelReadFails
  \/ KernelEof \/ CloseKernel
==============================================================================
