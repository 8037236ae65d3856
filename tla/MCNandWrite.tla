----------------------------- MODULE MCNandWrite -----------------------------
(* The instance of NandWrite that TLC checks, see MCNandWrite.cfg.         *)
EXTENDS NandWriteImpl
==============================================================================
