------------------------------ MODULE ImageStore ------------------------------
(***************************************************************************)
(* What the callers of a flash writer rely on.  An image of n pages is     *)
(* copied to storage that may lose at most one eraseblock of it at a time. *)
(* "stored" is what a reader of the storage finds: it starts with exactly  *)
(* the first "stored" pages of the image.  "outcome" is what the writer    *)
(* reports in the end; a report of "complete" is never wrong.              *)
(***************************************************************************)
EXTENDS Integers

CONSTANTS
  MaxLen,    (* bound on the image length                             *)
  Block      (* how many stored pages a failing block may take along  *)

VARIABLES len, stored, outcome

storeVars == <<len, stored, outcome>>

StoreInit ==
  /\ len \in 0 .. MaxLen
  /\ stored = 0
  /\ outcome = "running"

(* One more page of the image becomes readable.                            *)
StorePage ==
  /\ outcome = "running"
  /\ stored < len
  /\ stored' = stored + 1
  /\ UNCHANGED <<len, outcome>>

(* A block fails: what had been stored in it is gone.                      *)
LoseBlock ==
  /\ outcome = "running"
  /\ \E k \in 1 .. Block : k <= stored /\ stored' = stored - k
  /\ UNCHANGED <<len, outcome>>

Complete ==
  /\ outcome = "running"
  /\ stored = len
  /\ outcome' = "complete"
  /\ UNCHANGED <<len, stored>>

(* The writer gives up; pages of the block in progress may go with it.     *)
GiveUp ==
  /\ outcome = "running"
  /\ stored < len \/ len = 0
  /\ \E k \in 0 .. Block : k <= stored /\ stored' = stored - k
  /\ outcome' = "incomplete"
  /\ UNCHANGED len

StoreNext == StorePage \/ LoseBlock \/ Complete \/ GiveUp

StoreSafety == StoreInit /\ [][StoreNext]_storeVars

StoreSpec ==
  /\ StoreSafety
  /\ WF_storeVars(Complete \/ GiveUp \/ StorePage)
==============================================================================
