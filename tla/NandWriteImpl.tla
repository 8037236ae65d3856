---------------------------- MODULE NandWriteImpl ----------------------------
(***************************************************************************)
(* nandwrite_main() implements ImageStore.  The refinement mapping reads   *)
(* the flash the way its users do, block by block without the bad ones; it *)
(* takes nothing from the function's own bookkeeping but the warning.      *)
(***************************************************************************)
EXTENDS NandWrite, FiniteSets

Good == Blocks \ bad

(* The n-th good block of the partition.                                   *)
NthGood(n) ==
  CHOOSE b \in Good : Cardinality({c \in Good : c <= b}) = n

(* What a reader that skips bad blocks gets.                               *)
ReadBack ==
  [i \in 1 .. Cardinality(Good) * PagesPerEb |->
     dev[NthGood((i - 1) \div PagesPerEb + 1)][(i - 1) % PagesPerEb]]

Reads(pages, n) == \A i \in 1 .. n : i \in DOMAIN pages /\ pages[i] = i

(* How many pages of the image it finds before the first that is not.      *)
StoredPages ==
  LET pages == ReadBack
  IN CHOOSE n \in 0 .. ofg_imglen :
       Reads(pages, n) /\ (n < ofg_imglen => ~Reads(pages, n + 1))

Outcome ==
  IF pc # "done" THEN "running"
  ELSE IF warned \/ result = -1 THEN "incomplete" ELSE "complete"

Store == INSTANCE ImageStore
           WITH MaxLen <- MaxImgPages, Block <- PagesPerEb, len <- ofg_imglen,
                stored <- StoredPages, outcome <- Outcome

(* The flash always starts with a prefix of the image, loses at most one   *)
(* block of it per failure, and a return without warning means that the    *)
(* whole image can be read back.                                           *)
ImplementsImageStore == Store!StoreSpec
==============================================================================
