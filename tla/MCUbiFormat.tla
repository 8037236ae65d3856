----------------------------- MODULE MCUbiFormat -----------------------------
(* The instance of UbiFormat that TLC checks: blocks that are empty, hold  *)
(* something else, or have been erased twice.                              *)
EXTENDS UbiFormat

MCInitialEcs == {EbEmpty, EbAlien, 2}
==============================================================================
