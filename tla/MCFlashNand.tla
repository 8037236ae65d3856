----------------------------- MODULE MCFlashNand -----------------------------
(* The instance of FlashNand that TLC checks, see MCFlashNand*.cfg.        *)
EXTENDS FlashNand
==============================================================================
