------------------------- MODULE NandWriteImplProofs -------------------------
(***************************************************************************)
(* Proofs about what a reader that skips the bad blocks finds after        *)
(* nandwrite_main(), for every device and image size.                      *)
(***************************************************************************)
EXTENDS NandWriteImpl, NandWriteProofs, FiniteSetTheorems, FunctionTheorems

(* The good blocks in front of b, and the pages that a reader finds there. *)
Rank(g, b) == Cardinality({c \in g : c < b})
Base(g, b) == Rank(g, b) * PagesPerEb

(* The set of the good blocks is finite, and so is the part before a block.*)
LEMMA FiniteBlocks ==
  ASSUME NEW g \in SUBSET Blocks
  PROVE  /\ IsFiniteSet(g) /\ Cardinality(g) \in Nat
         /\ \A b : IsFiniteSet({c \in g : c < b}) /\ Rank(g, b) \in Nat
<1>1. IsFiniteSet(Blocks)
  BY FS_Interval, EbCntAssumption DEF Blocks
<1>2. IsFiniteSet(g)
  BY <1>1, FS_Subset
<1>3. \A b : IsFiniteSet({c \in g : c < b})
  <2> TAKE b
  <2>1. {c \in g : c < b} \subseteq g
    OBVIOUS
  <2> QED
    BY <1>2, <2>1, FS_Subset
<1> QED
  BY <1>2, <1>3, FS_CardinalityType DEF Rank

(* A good block adds itself to those in front of the next block.           *)
LEMMA RankStep ==
  ASSUME NEW g \in SUBSET Blocks, NEW b \in Int
  PROVE  Rank(g, b + 1) = IF b \in g THEN Rank(g, b) + 1 ELSE Rank(g, b)
<1>1. IsFiniteSet({c \in g : c < b})
  BY FiniteBlocks
<1>2. \A c \in g : c \in Int /\ (c < b + 1 <=> c < b \/ c = b)
  BY EbCntAssumption DEF Blocks
<1>3. CASE b \in g
  <2>1. {c \in g : c < b + 1} = {c \in g : c < b} \cup {b}
    BY <1>2, <1>3
  <2>2. b \notin {c \in g : c < b}
    OBVIOUS
  <2> QED
    BY <1>1, <1>3, <2>1, <2>2, FS_AddElement DEF Rank
<1>4. CASE b \notin g
  <2>1. {c \in g : c < b + 1} = {c \in g : c < b}
    BY <1>2, <1>4
  <2> QED
    BY <1>4, <2>1 DEF Rank
<1> QED
  BY <1>3, <1>4

(* A later block has no fewer blocks in front of it.                       *)
LEMMA RankMonotone ==
  ASSUME NEW g \in SUBSET Blocks, NEW b \in Int, NEW c \in Int, b <= c
  PROVE  Rank(g, b) <= Rank(g, c)
<1>0. \A x \in g : x \in Int
  BY EbCntAssumption DEF Blocks
<1>1. {x \in g : x < b} \subseteq {x \in g : x < c}
  BY <1>0
<1> QED
  BY <1>1, FiniteBlocks, FS_Subset DEF Rank

(* The device has no more good blocks than those in front of its end.      *)
LEMMA RankBound ==
  ASSUME NEW g \in SUBSET Blocks, NEW b
  PROVE  Rank(g, b) <= Cardinality(g)
<1>1. {x \in g : x < b} \subseteq g
  OBVIOUS
<1> QED
  BY <1>1, FiniteBlocks, FS_Subset DEF Rank

(* Good blocks have different ranks, all below the number of them.         *)
LEMMA RankStrict ==
  ASSUME NEW g \in SUBSET Blocks, NEW b \in g, NEW c \in Int, b < c
  PROVE  Rank(g, b) + 1 <= Rank(g, c)
<1>1. b \in Int /\ b + 1 <= c
  BY DEF Blocks
<1>2. Rank(g, b + 1) = Rank(g, b) + 1
  BY <1>1, RankStep
<1> QED
  BY <1>1, <1>2, RankMonotone

(* The last good block leaves room for its own pages.                      *)
LEMMA RankBelow ==
  ASSUME NEW g \in SUBSET Blocks, NEW b \in g
  PROVE  Rank(g, b) + 1 <= Cardinality(g)
<1>1. b \in Int
  BY DEF Blocks
<1>2. Rank(g, b + 1) = Rank(g, b) + 1
  BY <1>1, RankStep
<1> QED
  BY <1>2, RankBound

(* The products with the pages of a block, made linear.                    *)
LEMMA Times ==
  ASSUME NEW m \in Nat, NEW n \in Nat, NEW k \in Nat
  PROVE  /\ m * k \in Nat
         /\ (m + 1) * k = m * k + k
         /\ m <= n => m * k <= n * k
<1>1. m * k \in Nat /\ (m + 1) * k = m * k + k
  OBVIOUS
<1>2. ASSUME m <= n PROVE m * k <= n * k
  <2>1. n - m \in Nat /\ n * k = m * k + (n - m) * k
    BY <1>2
  <2>2. (n - m) * k \in Nat
    BY <2>1
  <2> QED
    BY <1>1, <2>1, <2>2
<1> QED
  BY <1>1, <1>2

(* Division by the pages of a block, and back.                             *)
LEMMA Divide ==
  ASSUME NEW i \in Nat, NEW k \in Nat \ {0}
  PROVE  /\ i \div k \in Nat /\ i % k \in Nat /\ i % k < k
         /\ i = (i \div k) * k + (i % k)
OBVIOUS

(* There is only one way to divide.                                        *)
LEMMA Split ==
  ASSUME NEW q \in Nat, NEW k \in Nat \ {0}, NEW r \in Nat, r < k
  PROVE  (q * k + r) \div k = q /\ (q * k + r) % k = r
OBVIOUS

(* The pages in front of a block, block by block.                          *)
LEMMA BaseStep ==
  ASSUME NEW g \in SUBSET Blocks, NEW b \in Int
  PROVE  /\ Base(g, b) \in Nat
         /\ Base(g, b + 1) = IF b \in g THEN Base(g, b) + PagesPerEb ELSE Base(g, b)
<1>1. Rank(g, b) \in Nat
  BY FiniteBlocks
<1> QED
  BY <1>1, RankStep, Times, PagesPerEbAssumption DEF Base

(* The pages of a good block come before those of any later block.         *)
LEMMA BaseStrict ==
  ASSUME NEW g \in SUBSET Blocks, NEW b \in g, NEW c \in Int, b < c
  PROVE  Base(g, b) + PagesPerEb <= Base(g, c)
<1>1. Rank(g, b) \in Nat /\ Rank(g, c) \in Nat /\ Rank(g, b) + 1 <= Rank(g, c)
  BY RankStrict, FiniteBlocks
<1>2. (Rank(g, b) + 1) * PagesPerEb = Rank(g, b) * PagesPerEb + PagesPerEb
  BY <1>1, Times, PagesPerEbAssumption
<1>3. (Rank(g, b) + 1) * PagesPerEb <= Rank(g, c) * PagesPerEb
  BY <1>1, Times, PagesPerEbAssumption
<1> QED
  BY <1>2, <1>3 DEF Base

(* A later block has no fewer pages in front of it.                        *)
LEMMA BaseMonotone ==
  ASSUME NEW g \in SUBSET Blocks, NEW b \in Int, NEW c \in Int, b <= c
  PROVE  Base(g, b) <= Base(g, c)
<1>1. Rank(g, b) \in Nat /\ Rank(g, c) \in Nat /\ Rank(g, b) <= Rank(g, c)
  BY RankMonotone, FiniteBlocks
<1> QED
  BY <1>1, Times, PagesPerEbAssumption DEF Base

(* The pages of a good block are pages of the device.                      *)
LEMMA BaseBelow ==
  ASSUME NEW g \in SUBSET Blocks, NEW b \in g
  PROVE  Base(g, b) + PagesPerEb <= Cardinality(g) * PagesPerEb
<1>1. /\ Rank(g, b) \in Nat /\ Cardinality(g) \in Nat
      /\ Rank(g, b) + 1 <= Cardinality(g)
  BY RankBelow, FiniteBlocks
<1>2. (Rank(g, b) + 1) * PagesPerEb = Rank(g, b) * PagesPerEb + PagesPerEb
  BY <1>1, Times, PagesPerEbAssumption
<1>3. (Rank(g, b) + 1) * PagesPerEb <= Cardinality(g) * PagesPerEb
  BY <1>1, Times, PagesPerEbAssumption
<1> QED
  BY <1>2, <1>3 DEF Base

------------------------------------------------------------------------------
(* The reader finds page p of a good block behind the pages of the good    *)
(* blocks in front of it.                                                  *)
PageNo(b, p) == Base(Good, b) + p + 1

(* The set that NthGood counts.                                            *)
LEMMA UpTo ==
  ASSUME NEW b \in Good
  PROVE  Cardinality({c \in Good : c <= b}) = Rank(Good, b) + 1
<1>1. Good \in SUBSET Blocks /\ Good \subseteq Int
  BY EbCntAssumption DEF Good, Blocks
<1>2. {c \in Good : c <= b} = {c \in Good : c < b + 1}
  <2>1. \A c \in Good : c <= b <=> c < b + 1
    BY <1>1
  <2> QED
    BY <2>1
<1>3. Rank(Good, b + 1) = Rank(Good, b) + 1
  BY <1>1, RankStep
<1> QED
  BY <1>2, <1>3 DEF Rank

(* No two good blocks have the same rank.                                  *)
LEMMA RankInjective ==
  ASSUME NEW b \in Good, NEW c \in Good, Rank(Good, b) = Rank(Good, c)
  PROVE  b = c
<1>1. Good \in SUBSET Blocks /\ b \in Int /\ c \in Int
  BY EbCntAssumption DEF Good, Blocks
<1>2. Rank(Good, b) \in Nat /\ Rank(Good, c) \in Nat
  BY <1>1, FiniteBlocks
<1>3. b < c => FALSE
  BY <1>1, <1>2, RankStrict
<1>4. c < b => FALSE
  BY <1>1, <1>2, RankStrict
<1> QED
  BY <1>1, <1>3, <1>4

(* The good block with r good blocks in front of it is the (r + 1)-th.     *)
LEMMA NthOfRank ==
  ASSUME NEW b \in Good
  PROVE  NthGood(Rank(Good, b) + 1) = b
<1>1. Good \in SUBSET Blocks
  BY DEF Good
<1>2. \A c \in Good : Rank(Good, c) \in Nat
  BY <1>1, FiniteBlocks
<1>3. \A c \in Good :
        Cardinality({d \in Good : d <= c}) = Rank(Good, b) + 1 <=> c = b
  BY <1>2, UpTo, RankInjective
<1> QED
  BY <1>3 DEF NthGood

(* There is an n-th good block for every n up to their number: the ranks   *)
(* are different and there are as many of them.                            *)
LEMMA NthExists ==
  ASSUME NEW n \in 1 .. Cardinality(Good)
  PROVE  NthGood(n) \in Good /\ Rank(Good, NthGood(n)) + 1 = n
<1> DEFINE N == 1 .. Cardinality(Good)
           f == [b \in Good |-> Rank(Good, b) + 1]
<1>1. Good \in SUBSET Blocks
  BY DEF Good
<1>2. IsFiniteSet(Good) /\ Cardinality(Good) \in Nat
  BY <1>1, FiniteBlocks
<1>3. IsFiniteSet(N) /\ Cardinality(N) = Cardinality(Good)
  BY <1>2, FS_Interval
<1>4. \A b \in Good : Rank(Good, b) \in Nat /\ Rank(Good, b) + 1 \in N
  <2> TAKE b \in Good
  <2>1. Rank(Good, b) \in Nat
    BY <1>1, FiniteBlocks
  <2>2. Rank(Good, b) + 1 <= Cardinality(Good)
    BY <1>1, RankBelow
  <2> QED
    BY <1>2, <2>1, <2>2
<1>5. f \in [Good -> N]
  BY <1>4
<1>6. \A b, c \in Good : f[b] = f[c] => b = c
  BY <1>4, RankInjective
<1>7. f \in Injection(Good, N)
  BY <1>5, <1>6 DEF Injection, IsInjective
<1>8. f \in Surjection(Good, N)
  BY <1>2, <1>3, <1>7, FS_Injection
<1>9. PICK b \in Good : f[b] = n
  BY <1>8 DEF Surjection
<1>10. Rank(Good, b) + 1 = n
  BY <1>9
<1>11. NthGood(n) = b
  BY <1>10, NthOfRank
<1> QED
  BY <1>10, <1>11

(* What is read at the place of a page is the page.                        *)
LEMMA ReadAt ==
  ASSUME NEW b \in Good, NEW p \in Pages
  PROVE  /\ PageNo(b, p) \in DOMAIN ReadBack
         /\ ReadBack[PageNo(b, p)] = dev[b][p]
<1> DEFINE r == Rank(Good, b)
<1>1. Good \in SUBSET Blocks /\ b \in Int
  BY EbCntAssumption DEF Good, Blocks
<1>2. r \in Nat /\ Base(Good, b) \in Nat /\ Base(Good, b) = r * PagesPerEb
  BY <1>1, FiniteBlocks, BaseStep DEF Base
<1>3. p \in Nat /\ p < PagesPerEb /\ PagesPerEb \in Nat \ {0}
  BY PagesPerEbAssumption DEF Pages
<1>4. Base(Good, b) + PagesPerEb <= Cardinality(Good) * PagesPerEb
  BY <1>1, BaseBelow
<1>5. Cardinality(Good) * PagesPerEb \in Nat
  BY <1>1, <1>3, FiniteBlocks, Times
<1>6. PageNo(b, p) \in 1 .. Cardinality(Good) * PagesPerEb
  BY <1>2, <1>3, <1>4, <1>5 DEF PageNo
<1>7. (PageNo(b, p) - 1) \div PagesPerEb = r /\ (PageNo(b, p) - 1) % PagesPerEb = p
  <2>1. PageNo(b, p) - 1 = r * PagesPerEb + p
    BY <1>2, <1>3 DEF PageNo
  <2>2. r \in Nat
    BY <1>2
  <2> HIDE DEF r
  <2>3. (r * PagesPerEb + p) \div PagesPerEb = r /\ (r * PagesPerEb + p) % PagesPerEb = p
    BY <1>3, <2>2, Split
  <2> QED
    BY <2>1, <2>3
<1> QED
  BY <1>6, <1>7, NthOfRank DEF ReadBack

(* Whatever is read is a page of a good block.                             *)
LEMMA ReadFrom ==
  ASSUME NEW i \in DOMAIN ReadBack
  PROVE  \E b \in Good, p \in Pages : i = PageNo(b, p)
<1> DEFINE q == (i - 1) \div PagesPerEb
           b == NthGood(q + 1)
           p == (i - 1) % PagesPerEb
<1>1. Good \in SUBSET Blocks
  BY DEF Good
<1>2. Cardinality(Good) \in Nat /\ PagesPerEb \in Nat \ {0}
  BY <1>1, FiniteBlocks, PagesPerEbAssumption
<1>3. i \in Nat /\ 1 <= i /\ i <= Cardinality(Good) * PagesPerEb
  BY <1>2, Times DEF ReadBack
<1>4. q \in Nat /\ p \in Nat /\ p < PagesPerEb /\ i - 1 = q * PagesPerEb + p
  <2>1. i - 1 \in Nat
    BY <1>3
  <2> QED
    BY <1>2, <2>1, Divide
<1>5. q + 1 \in 1 .. Cardinality(Good)
  <2>1. CASE Cardinality(Good) <= q
    <3>1. Cardinality(Good) * PagesPerEb <= q * PagesPerEb
      BY <1>2, <1>4, <2>1, Times
    <3> QED
      BY <1>2, <1>3, <1>4, <3>1, Times
  <2> QED
    BY <1>2, <1>4, <2>1
<1>6. b \in Good /\ Rank(Good, b) + 1 = q + 1
  BY <1>5, NthExists
<1>7. Rank(Good, b) = q
  <2>1. Rank(Good, b) \in Nat
    BY <1>1, FiniteBlocks
  <2> QED
    BY <1>4, <1>6, <2>1
<1>8. i = PageNo(b, p)
  BY <1>3, <1>4, <1>7 DEF PageNo, Base
<1> QED
  BY <1>4, <1>6, <1>8, PagesPerEbAssumption DEF Pages

------------------------------------------------------------------------------
(* PagesInOrder and NoPageLost in numbers: a stored page is where the      *)
(* reader looks for it, and what is stored ends at the position of the     *)
(* loop.                                                                   *)
Numbered ==
  \A b \in Blocks, p \in Pages : Stored(b, p) => dev[b][p] = PageNo(b, p)

StoredUpTo ==
  pc # "done" => PagesStored = Base(Good, eb) + (IF blockstart = eb THEN writebuf ELSE 0)

NumberInv == Numbered /\ StoredUpTo

(* A block that turns bad does not count for the blocks in front of it.    *)
LEMMA BaseWithout ==
  ASSUME NEW g \in SUBSET Blocks, NEW e \in Int, NEW b \in Int, b <= e
  PROVE  Base(g \ {e}, b) = Base(g, b)
<1>1. \A c \in g : c < b => c # e
  BY EbCntAssumption DEF Blocks
<1>2. {c \in g \ {e} : c < b} = {c \in g : c < b}
  BY <1>1
<1> QED
  BY <1>2 DEF Base, Rank

(* A step that stores nothing and stays at its place keeps the numbers.    *)
SamePlace ==
  /\ UNCHANGED <<dev, bad, eb, blockstart>>
  /\ writebuf' = writebuf /\ PagesStored' = PagesStored

(* Such a step moves neither a page nor what the reader counts.            *)
LEMMA SamePlaceKeepsNumbers ==
  ASSUME NumberInv, SamePlace, pc # "done"
  PROVE  NumberInv'
BY DEF SamePlace, NumberInv, Numbered, StoredUpTo, Stored, PageNo, Base, Rank, Good

(* Every page is programmed at its number: a rewind takes back the pages   *)
(* of one block, and a block that is skipped has no number.                *)
LEMMA NumberNext == IInv /\ NumberInv /\ [Next]_vars => NumberInv'
<1> SUFFICES ASSUME IInv, NumberInv, [Next]_vars PROVE NumberInv'
  OBVIOUS
<1>0. Good \in SUBSET Blocks /\ eb \in Int /\ Base(Good, eb) \in Nat
  BY BaseStep DEF Good, IInv, TypeInv, TypeOK
<1> USE EbCntAssumption, PagesPerEbAssumption, MaxImgPagesAssumption
<1> USE DEF IInv, TypeInv, TypeOK, InStep, NotStarted, Running, Recovering, Pages, Blocks,
            CloseAll, devVars, imgVars, posVars, bufVars, outVars
<1>1. CASE OpenFails \/ Open \/ LoopExit \/ ReadEnds \/ Replay \/ MarkFails
  <2>1. SamePlace /\ pc # "done"
    BY <1>1 DEF SamePlace, PagesStored, OpenFails, Open, LoopExit, ReadEnds, Replay,
                MarkFails, InBody
  <2> QED
    BY <2>1, SamePlaceKeepsNumbers
<1>2. CASE ReadPage
  <2>1. SamePlace /\ pc # "done"
    BY <1>2 DEF SamePlace, PagesStored, ReadPage, InBody, NeedRead
  <2> QED
    BY <2>1, SamePlaceKeepsNumbers
<1>3. CASE NewBlock \/ BadCheckFails
  <2>1. /\ pc \in {"outer", "inner"} /\ blockstart # eb /\ blockstart' = eb /\ writebuf' = 0
        /\ UNCHANGED <<dev, bad>> /\ StartBuffer /\ UNCHANGED <<imglen, ofg_imglen>>
    BY <1>3 DEF NewBlock, BadCheckFails, InBody, StartBuffer
  <2>2. PagesStored' = PagesStored
    <3>1. CASE writebuf = -1
      BY <2>1, <3>1 DEF StartBuffer, PagesStored
    <3>2. CASE writebuf = 0
      BY <2>1, <3>2 DEF StartBuffer, PagesStored
    <3>3. CASE writebuf = filebuf_len /\ writebuf # 0 /\ writebuf # -1
      BY <2>1, <3>3 DEF StartBuffer, PagesStored
    <3> QED
      BY <2>1, <3>1, <3>2, <3>3
  <2>3. PagesStored = Base(Good, eb)
    BY <1>0, <2>1 DEF NumberInv, StoredUpTo
  <2>4. \/ eb' = eb
        \/ pc' # "done" /\ eb \in Blocks /\ eb \in bad /\ eb' = eb + 1
    BY <1>3 DEF NewBlock, BadCheckFails, SkipBlock, ValidEb
  <2>5. Good' = Good
    BY <2>1 DEF Good
  <2>6. ASSUME NEW b \in Blocks, NEW p \in Pages, Stored(b, p)' PROVE Stored(b, p)
    BY <2>1, <2>4, <2>6 DEF Stored
  <2>7. Numbered'
    BY <2>1, <2>5, <2>6 DEF NumberInv, Numbered, PageNo
  <2>8. eb' # eb => Base(Good, eb') = Base(Good, eb)
    BY <1>0, <2>4, BaseStep DEF Good
  <2>9. StoredUpTo'
    BY <1>0, <2>1, <2>2, <2>3, <2>4, <2>5, <2>8 DEF StoredUpTo
  <2> QED
    BY <2>7, <2>9 DEF NumberInv
<1>4. CASE WritePage
  <2>1. /\ pc = "write" /\ eb \in Good /\ blockstart = eb /\ pg = writebuf
        /\ pg \in Pages /\ dev[eb][pg] = Erased /\ writebuf < filebuf_len
    BY <1>4 DEF WritePage, DataInv, AheadErased, Good
  <2>2. PagesStored = Base(Good, eb) + writebuf
    BY <2>1 DEF NumberInv, StoredUpTo
  <2>3. filebuf[writebuf] = PageNo(eb, pg)
    <3>1. filebuf[writebuf] = ofg_imglen - imglen - filebuf_len + writebuf + 1
      BY <2>1 DEF DataInv, BufferContinuesImage
    <3>2. PagesStored = ofg_imglen - imglen - filebuf_len + writebuf
      BY <2>1 DEF PagesStored
    <3> QED
      BY <1>0, <2>1, <2>2, <3>1, <3>2 DEF PageNo
  <2>4. /\ dev'[eb][pg] = PageNo(eb, pg)
        /\ \A b \in Blocks, p \in Pages : b # eb \/ p # pg => dev'[b][p] = dev[b][p]
    BY <1>4, <2>1, <2>3 DEF WritePage, Programmed
  <2>5. /\ bad' = bad /\ Good' = Good /\ blockstart' = blockstart
        /\ writebuf' = writebuf + 1 /\ Advance /\ pc' = "outer"
        /\ UNCHANGED <<imglen, ofg_imglen, filebuf_len>>
    BY <1>4 DEF WritePage, Good
  <2>6. ASSUME NEW b \in Blocks, NEW p \in Pages, Stored(b, p)'
        PROVE  Stored(b, p) \/ (b = eb /\ p = pg)
    BY <2>1, <2>5, <2>6 DEF Stored, Advance
  <2>7. Numbered'
    BY <2>4, <2>5, <2>6 DEF NumberInv, Numbered, PageNo
  <2>8. PagesStored' = PagesStored + 1
    BY <2>1, <2>5 DEF PagesStored
  <2>9. StoredUpTo'
    <3>1. CASE pg + 1 = PagesPerEb
      <4>1. Base(Good, eb + 1) = Base(Good, eb) + PagesPerEb
        BY <1>0, <2>1, BaseStep
      <4>2. eb' = eb + 1 /\ blockstart' # eb'
        BY <2>1, <2>5, <3>1 DEF Advance
      <4> QED
        BY <1>0, <2>1, <2>2, <2>5, <2>8, <3>1, <4>1, <4>2 DEF StoredUpTo
    <3>2. CASE pg + 1 # PagesPerEb
      <4>1. eb' = eb
        BY <2>5, <3>2 DEF Advance
      <4> QED
        BY <1>0, <2>1, <2>2, <2>5, <2>8, <4>1 DEF StoredUpTo
    <3> QED
      BY <3>1, <3>2
  <2> QED
    BY <2>7, <2>9 DEF NumberInv
<1>5. CASE WriteEIO \/ WriteFails
  <2>1. /\ pc = "write" /\ eb \in Good /\ blockstart = eb /\ pg = writebuf
        /\ pg \in Pages /\ writebuf < filebuf_len
    BY <1>5 DEF WriteEIO, WriteFails, Good
  <2>2. \A b \in Blocks, p \in Pages : b # eb \/ p # pg => dev'[b][p] = dev[b][p]
    BY <1>5, <2>1, OtherPagesKept DEF WriteEIO, WriteFails
  <2>3. /\ bad' = bad /\ Good' = Good /\ blockstart' = blockstart /\ eb' = eb
        /\ writebuf' = 0 \/ (writebuf' = writebuf /\ pc' = "done")
        /\ UNCHANGED <<imglen, ofg_imglen, filebuf_len>>
    BY <1>5 DEF WriteEIO, WriteFails, Rewind, Good
  <2>4. ASSUME NEW b \in Blocks, NEW p \in Pages, Stored(b, p)'
        PROVE  Stored(b, p) /\ (b # eb \/ p # pg)
    BY <2>1, <2>3, <2>4 DEF Stored
  <2>5. Numbered'
    BY <2>2, <2>3, <2>4 DEF NumberInv, Numbered, PageNo
  <2>6. PagesStored = Base(Good, eb) + writebuf
    BY <2>1 DEF NumberInv, StoredUpTo
  <2>7. StoredUpTo'
    <3>1. CASE pc' = "done"
      BY <3>1 DEF StoredUpTo
    <3>2. CASE writebuf' = 0
      <4>1. ofg_imglen - imglen - filebuf_len = Base(Good, eb)
        <5>1. /\ ofg_imglen \in Int /\ imglen \in Int /\ filebuf_len \in Int
              /\ writebuf \in Nat
          BY <2>1
        <5>2. PagesStored = ofg_imglen - imglen - filebuf_len + writebuf
          BY <5>1 DEF PagesStored
        <5>3. Base(Good, eb) \in Int
          BY <1>0
        <5>4. ofg_imglen - imglen - filebuf_len + writebuf = Base(Good, eb) + writebuf
          BY <2>6, <5>2
        <5> QED
          BY <5>1, <5>3, <5>4
      <4>2. PagesStored' = Base(Good, eb)
        BY <2>3, <3>2, <4>1 DEF PagesStored
      <4> QED
        BY <1>0, <2>1, <2>3, <3>2, <4>2 DEF StoredUpTo
    <3> QED
      BY <2>3, <3>1, <3>2
  <2> QED
    BY <2>5, <2>7 DEF NumberInv
<1>6. CASE EraseBlock \/ EraseFails
  <2>1. pc = "erase" /\ eb \in Blocks /\ blockstart = eb /\ writebuf = 0
    BY <1>6 DEF EraseBlock, EraseFails
  <2>2. \A b \in Blocks : b # eb => dev'[b] = dev[b]
    BY <1>6, <2>1 DEF EraseBlock, EraseFails
  <2>3. /\ bad' = bad /\ Good' = Good /\ blockstart' = blockstart /\ eb' = eb
        /\ writebuf' = writebuf /\ UNCHANGED <<imglen, ofg_imglen, filebuf_len>>
    BY <1>6 DEF EraseBlock, EraseFails, Good
  <2>4. ASSUME NEW b \in Blocks, NEW p \in Pages, Stored(b, p)'
        PROVE  Stored(b, p) /\ b # eb
    BY <2>1, <2>3, <2>4 DEF Stored
  <2>5. Numbered'
    BY <2>2, <2>3, <2>4 DEF NumberInv, Numbered, PageNo
  <2>6. StoredUpTo'
    BY <2>1, <2>3 DEF NumberInv, StoredUpTo, PagesStored
  <2> QED
    BY <2>5, <2>6 DEF NumberInv
<1>7. CASE MarkBad
  <2>1. pc = "mark" /\ eb \in Blocks /\ blockstart = eb /\ writebuf = 0
    BY <1>7 DEF MarkBad
  <2>2. /\ Good' = Good \ {eb} /\ eb' = eb + 1 /\ blockstart' = eb
        /\ UNCHANGED <<dev, bufVars, ofg_imglen>> /\ bad' = bad \union {eb}
    BY <1>7 DEF MarkBad, SkipBlock, Good
  <2>3. ASSUME NEW b \in Blocks, NEW p \in Pages, Stored(b, p)'
        PROVE  Stored(b, p) /\ b < eb
    BY <2>1, <2>2, <2>3 DEF Stored
  <2>4. \A b \in Blocks : b <= eb => Base(Good', b) = Base(Good, b)
    BY <1>0, <2>2, BaseWithout
  <2>5. Numbered'
    <3> SUFFICES ASSUME NEW b \in Blocks, NEW p \in Pages, Stored(b, p)'
                 PROVE  dev'[b][p] = Base(Good', b) + p + 1
      BY DEF Numbered, PageNo
    <3>1. Stored(b, p) /\ b <= eb
      BY <1>0, <2>3
    <3>2. dev[b][p] = Base(Good, b) + p + 1
      BY <3>1 DEF NumberInv, Numbered, PageNo
    <3> QED
      BY <2>2, <2>4, <3>1, <3>2
  <2>6. Base(Good', eb') = Base(Good, eb)
    <3>1. Good' \in SUBSET Blocks /\ eb \notin Good'
      BY <1>0, <2>2
    <3>2. Base(Good', eb + 1) = Base(Good', eb)
      BY <1>0, <3>1, BaseStep
    <3>3. Base(Good', eb) = Base(Good, eb)
      BY <1>0, <2>1, <2>4
    <3>4. eb' = eb + 1
      BY <2>2
    <3> QED
      BY <3>2, <3>3, <3>4
  <2>7. PagesStored = Base(Good, eb) /\ PagesStored' = PagesStored
    BY <1>0, <2>1, <2>2 DEF NumberInv, StoredUpTo, PagesStored
  <2>8. StoredUpTo'
    BY <1>0, <2>1, <2>2, <2>6, <2>7 DEF StoredUpTo
  <2> QED
    BY <2>5, <2>8 DEF NumberInv
<1>8. CASE UNCHANGED vars
  BY <1>8 DEF vars, NumberInv, Numbered, StoredUpTo, PagesStored, Stored, PageNo, Good
<1> QED
  BY <1>1, <1>2, <1>3, <1>4, <1>5, <1>6, <1>7, <1>8 DEF Next, Returned

------------------------------------------------------------------------------
(* Where the pages that the reader takes for the image end: in front of    *)
(* the block in progress, or at the position in it unless its pages have   *)
(* gone (a block that failed, before it is marked bad).                    *)
Intact == eb \in Good /\ \A p \in 0 .. pg - 1 : dev[eb][p] = PageNo(eb, p)

Kept == Base(Good, eb) + (IF Intact THEN pg ELSE 0)

NoPage(x) == x \in {Erased, Garbage}

EndInv ==
  /\ Base(Good, eb) + pg <= ofg_imglen
  /\ eb \in Good =>
       /\ Intact \/ \A p \in Pages : p < pg => NoPage(dev[eb][p])
       /\ \A p \in Pages : p >= pg => NoPage(dev[eb][p])

(* While no block has failed, the pages read are those stored.             *)
LEMMA KeptStored ==
  IInv /\ NumberInv /\ (Running \/ pc = "open") => EndInv /\ Kept = PagesStored
<1> SUFFICES ASSUME IInv, NumberInv, Running \/ pc = "open"
             PROVE  EndInv /\ Kept = PagesStored
  OBVIOUS
<1>0. /\ eb \in Int /\ Base(Good, eb) \in Nat
      /\ ofg_imglen \in Nat /\ imglen \in Nat /\ filebuf_len \in Nat /\ writebuf \in Int
      /\ imglen <= ofg_imglen
  BY BaseStep, EbCntAssumption, PagesPerEbAssumption, MaxImgPagesAssumption
     DEF Good, IInv, TypeInv, TypeOK
<1> USE EbCntAssumption, PagesPerEbAssumption, MaxImgPagesAssumption
<1> USE DEF IInv, TypeInv, TypeOK, InStep, NotStarted, Running, Recovering, Pages, Blocks
<1>1. /\ pc # "done" /\ ~Recovering
      /\ blockstart = eb => pg = writebuf /\ eb \in Good
      /\ blockstart # eb => pg = 0
  BY DEF Good
<1>2. PagesStored = Base(Good, eb) + pg
  BY <1>0, <1>1 DEF NumberInv, StoredUpTo
<1>3. PagesStored <= ofg_imglen
  BY <1>0 DEF PagesStored
<1>4. eb \in Good => Intact
  <2> SUFFICES ASSUME eb \in Good, NEW p \in 0 .. pg - 1
               PROVE  dev[eb][p] = PageNo(eb, p)
    BY DEF Intact
  <2>1. blockstart = eb /\ p \in Pages /\ p < writebuf /\ eb \in Blocks /\ eb \notin bad
    BY <1>1 DEF Good
  <2>2. Stored(eb, p)
    BY <2>1 DEF Stored
  <2> QED
    BY <2>1, <2>2 DEF NumberInv, Numbered
<1>5. eb \in Good => \A p \in Pages : p >= pg => NoPage(dev[eb][p])
  BY <1>1 DEF DataInv, AheadErased, NoPage, Good
<1>6. Kept = PagesStored
  <2>1. CASE Intact
    BY <1>2, <2>1 DEF Kept
  <2>2. CASE ~Intact
    <3>1. pg = 0
      BY <1>1, <1>4, <2>2
    <3> QED
      BY <1>2, <2>2, <3>1 DEF Kept
  <2> QED
    BY <2>1, <2>2
<1>7. Base(Good, eb) + pg <= ofg_imglen
  BY <1>2, <1>3
<1> QED
  BY <1>4, <1>5, <1>6, <1>7 DEF EndInv

(* While a block fails, something is left to write.                        *)
LEMMA KeptRecovering ==
  IInv /\ NumberInv /\ Recovering => /\ Base(Good, eb) + pg < ofg_imglen
                                    /\ eb \in Good /\ pc # "done"
<1> SUFFICES ASSUME IInv, NumberInv, Recovering
             PROVE  Base(Good, eb) + pg < ofg_imglen /\ eb \in Good /\ pc # "done"
  OBVIOUS
<1> USE EbCntAssumption, PagesPerEbAssumption, MaxImgPagesAssumption
<1>1. /\ pc # "done" /\ blockstart = eb /\ writebuf = 0 /\ pg < filebuf_len
      /\ eb \in Good /\ filebuf_len <= ofg_imglen - imglen
      /\ pg \in Nat /\ filebuf_len \in Nat /\ imglen \in Nat /\ ofg_imglen \in Nat
  BY DEF IInv, TypeInv, TypeOK, InStep, Recovering, Good, Pages, Blocks
<1>2. Base(Good, eb) \in Nat /\ eb \in Int
  BY <1>1, BaseStep DEF Good, Blocks
<1>3. PagesStored = Base(Good, eb)
  BY <1>1, <1>2 DEF NumberInv, StoredUpTo
<1>4. PagesStored = ofg_imglen - imglen - filebuf_len
  BY <1>1 DEF PagesStored
<1>5. Base(Good, eb) = ofg_imglen - imglen - filebuf_len
  BY <1>3, <1>4
<1> QED
  BY <1>1, <1>2, <1>5

(* A prefix that the image does not continue is the one StoredPages takes. *)
LEMMA PrefixUnique ==
  ASSUME NEW pages, NEW l \in Nat, NEW n \in 0 .. l,
         Reads(pages, n), n < l => ~Reads(pages, n + 1)
  PROVE  n = CHOOSE m \in 0 .. l : Reads(pages, m) /\ (m < l => ~Reads(pages, m + 1))
<1>1. ASSUME NEW m \in 0 .. l, Reads(pages, m), m < l => ~Reads(pages, m + 1)
      PROVE  m = n
  <2>1. ASSUME n < m PROVE FALSE
    BY <1>1, <2>1 DEF Reads
  <2>2. ASSUME m < n PROVE FALSE
    BY <1>1, <2>2 DEF Reads
  <2> QED
    BY <2>1, <2>2
<1> QED
  BY <1>1

(* The reader finds exactly the first Kept pages of the image.             *)
LEMMA KeptRead == IInv /\ NumberInv /\ EndInv => StoredPages = Kept /\ Reads(ReadBack, Kept)
<1> SUFFICES ASSUME IInv, NumberInv, EndInv PROVE StoredPages = Kept /\ Reads(ReadBack, Kept)
  OBVIOUS
<1> USE EbCntAssumption, PagesPerEbAssumption, MaxImgPagesAssumption
<1> DEFINE e == Base(Good, eb)
<1>1. /\ Good \in SUBSET Blocks /\ eb \in Int /\ pg \in Nat /\ pg < PagesPerEb
      /\ e \in Nat /\ ofg_imglen \in Nat /\ e + pg <= ofg_imglen
  <2>1. Good \in SUBSET Blocks
    BY DEF Good
  <2>2. eb \in Int /\ pg \in Nat /\ pg < PagesPerEb /\ ofg_imglen \in Nat
    BY DEF IInv, TypeInv, TypeOK, Pages
  <2>3. e \in Nat
    BY <2>1, <2>2, BaseStep
  <2> QED
    BY <2>1, <2>2, <2>3 DEF EndInv
<1>2. \A b \in Good : b \in Int /\ Base(Good, b) \in Nat
  BY <1>1, BaseStep DEF Blocks
<1>3. \A b \in Good : b < eb => Base(Good, b) + PagesPerEb <= e
  BY <1>1, BaseStrict
<1>4. \A b \in Good : eb < b => e <= Base(Good, b)
                             /\ (eb \in Good => e + PagesPerEb <= Base(Good, b))
  BY <1>1, <1>2, BaseStrict, BaseMonotone
<1>5. \A b \in Good, p \in Pages : b < eb => dev[b][p] = PageNo(b, p)
  BY <1>1 DEF NumberInv, Numbered, Stored, Good
<1>6. \A b \in Good, p \in Pages : eb < b => dev[b][p] = Erased
  BY <1>1 DEF IInv, DataInv, AheadErased, ErasedBlock, Good
<1>7. Kept \in Nat /\ Kept <= ofg_imglen /\ (eb \notin Good => Kept = e)
      /\ (Kept # e => Intact /\ Kept = e + pg) /\ e <= Kept /\ Kept <= e + pg
  BY <1>1 DEF Kept, Intact
<1>8. \A p \in Pages : p \in Nat /\ p < PagesPerEb
  BY DEF Pages
<1>9. Kept <= Cardinality(Good) * PagesPerEb /\ Cardinality(Good) * PagesPerEb \in Nat
  <2>1. Rank(Good, eb) \in Nat /\ Cardinality(Good) \in Nat /\ Rank(Good, eb) <= Cardinality(Good)
    BY <1>1, FiniteBlocks, RankBound
  <2>2. e <= Cardinality(Good) * PagesPerEb /\ Cardinality(Good) * PagesPerEb \in Nat
    BY <2>1, Times DEF Base
  <2>3. eb \in Good => e + PagesPerEb <= Cardinality(Good) * PagesPerEb
    BY <1>1, BaseBelow
  <2> QED
    BY <1>1, <1>7, <2>2, <2>3
<1> HIDE DEF e
<1>10. Reads(ReadBack, Kept)
  <2> SUFFICES ASSUME NEW i \in 1 .. Kept PROVE i \in DOMAIN ReadBack /\ ReadBack[i] = i
    BY DEF Reads
  <2>1. i \in DOMAIN ReadBack
    BY <1>7, <1>9 DEF ReadBack
  <2>2. PICK b \in Good, p \in Pages : i = PageNo(b, p)
    BY <2>1, ReadFrom
  <2>3. ReadBack[i] = dev[b][p]
    BY <2>2, ReadAt
  <2>4. i = Base(Good, b) + p + 1 /\ b \in Int /\ Base(Good, b) \in Nat /\ p \in Nat
    BY <1>2, <1>8, <2>2 DEF PageNo
  <2>5. ~(eb < b)
    BY <1>1, <1>4, <1>7, <2>4
  <2>6. CASE b = eb
    <3>1. Kept = e + pg /\ Intact /\ p < pg
      BY <1>1, <1>7, <2>4, <2>6 DEF e
    <3> QED
      <4>1. p \in 0 .. pg - 1
        BY <1>1, <2>4, <3>1
      <4>2. dev[eb][p] = PageNo(eb, p)
        BY <3>1, <4>1 DEF Intact
      <4> QED
        BY <2>1, <2>2, <2>3, <2>6, <4>2
  <2>7. CASE b < eb
    BY <1>5, <2>1, <2>2, <2>3, <2>7
  <2> QED
    BY <1>1, <2>4, <2>5, <2>6, <2>7
<1>11. ~Reads(ReadBack, Kept + 1)
  <2> SUFFICES ASSUME Reads(ReadBack, Kept + 1) PROVE FALSE
    OBVIOUS
  <2> DEFINE i == Kept + 1
  <2>1. i \in DOMAIN ReadBack /\ ReadBack[i] = i /\ i \in Nat /\ i >= 1
    BY <1>7 DEF Reads
  <2>2. PICK b \in Good, p \in Pages : i = PageNo(b, p)
    BY <2>1, ReadFrom
  <2>3. dev[b][p] = i
    BY <2>1, <2>2, ReadAt
  <2>4. i = Base(Good, b) + p + 1 /\ b \in Int /\ Base(Good, b) \in Nat /\ p \in Nat
        /\ p < PagesPerEb
    BY <1>2, <1>8, <2>2 DEF PageNo
  <2>5. ~(b < eb)
    BY <1>1, <1>3, <1>7, <2>4
  <2>6. ~(eb < b)
    BY <1>6, <2>1, <2>3 DEF Erased
  <2>7. b = eb /\ e = Base(Good, b)
    BY <1>1, <2>4, <2>5, <2>6 DEF e
  <2>8. p = Kept - e
    BY <1>1, <1>7, <2>4, <2>7
  <2>9. ~NoPage(dev[eb][p])
    BY <2>1, <2>3, <2>7 DEF NoPage, Erased, Garbage
  <2>10. Intact /\ p < pg
    <3>1. p < pg
      BY <1>1, <2>2, <2>4, <2>7, <2>9 DEF EndInv
    <3> QED
      BY <2>2, <2>7, <2>9, <3>1 DEF EndInv
  <2>11. Kept = e + pg
    BY <2>7, <2>10 DEF Kept
  <2> QED
    BY <1>1, <2>8, <2>10, <2>11
<1> QED
  BY <1>1, <1>7, <1>10, <1>11, PrefixUnique DEF StoredPages

(* A step that touches neither the flash nor the position keeps the end.   *)
EndStays == UNCHANGED <<dev, bad, eb, pg, ofg_imglen>>

(* What the reader finds is then the same.                                 *)
LEMMA EndStaysKept ==
  ASSUME EndStays
  PROVE  Kept' = Kept /\ (EndInv => EndInv')
BY DEF EndStays, Kept, EndInv, Intact, PageNo, Good

(* The pages of the failing block, when the write fails, is erased or is   *)
(* given up: they stay, but for the one at the position, or go together.   *)
BlockFails ==
  /\ UNCHANGED <<bad, eb, pg, ofg_imglen>> /\ eb \in Good
  /\ \/ \A p \in Pages : dev'[eb][p] = dev[eb][p] \/ (p >= pg /\ NoPage(dev'[eb][p]))
     \/ \A p \in Pages : NoPage(dev'[eb][p])

(* Either way the end stays or goes back to the start of the block.        *)
LEMMA BlockFailsKept ==
  ASSUME IInv, EndInv, BlockFails
  PROVE  /\ EndInv'
         /\ Kept' = Kept \/ (Kept' = Base(Good, eb) /\ Kept = Kept' + pg /\ pg > 0)
         /\ (\A p \in Pages : p < pg => dev'[eb][p] = dev[eb][p]) => Kept' = Kept
<1>1. /\ pg \in Pages /\ pg \in Nat /\ eb \in Int /\ Base(Good, eb) \in Nat
      /\ \A p \in 0 .. pg - 1 : p \in Pages /\ p < pg
      /\ \A p \in Pages : p < pg => p \in 0 .. pg - 1
  BY EbCntAssumption, PagesPerEbAssumption, BaseStep
     DEF IInv, TypeInv, TypeOK, Pages, Good
<1>2. /\ Good' = Good /\ eb' = eb /\ pg' = pg /\ ofg_imglen' = ofg_imglen /\ eb \in Good
      /\ \A p : PageNo(eb, p)' = PageNo(eb, p)
  BY DEF BlockFails, Good, PageNo
<1>3. ASSUME NEW p \in Pages PROVE ~NoPage(PageNo(eb, p))
  BY <1>1, PagesPerEbAssumption DEF PageNo, NoPage, Erased, Garbage, Pages
<1>4. CASE \A p \in Pages : p < pg => dev'[eb][p] = dev[eb][p]
  <2>1. Intact' <=> Intact
    BY <1>1, <1>2, <1>4 DEF Intact
  <2>2. Kept' = Kept
    BY <1>2, <2>1 DEF Kept
  <2>3. \A p \in Pages : p >= pg => NoPage(dev'[eb][p])
    BY <1>2 DEF BlockFails, EndInv
  <2>4. EndInv'
    BY <1>2, <1>4, <2>1, <2>3 DEF EndInv
  <2> QED
    BY <2>2, <2>4
<1>5. CASE ~(\A p \in Pages : p < pg => dev'[eb][p] = dev[eb][p])
  <2>1. \A p \in Pages : NoPage(dev'[eb][p])
    BY <1>1, <1>5 DEF BlockFails
  <2>2. pg > 0
    BY <1>1, <1>5
  <2>3. ~Intact'
    BY <1>1, <1>2, <1>3, <2>1, <2>2 DEF Intact
  <2>4. Kept' = Base(Good, eb)
    BY <1>1, <1>2, <2>3 DEF Kept
  <2>5. Kept = Kept' \/ Kept = Kept' + pg
    BY <1>1, <2>4 DEF Kept
  <2>6. EndInv'
    BY <1>2, <2>1 DEF EndInv
  <2> QED
    BY <1>5, <2>2, <2>4, <2>5, <2>6
<1> QED
  BY <1>4, <1>5

(* The steps of ImageStore, for the pages that the reader finds.           *)
Goes == Outcome = "running" /\ ofg_imglen' = ofg_imglen
KeepsRunning == Goes /\ Outcome' = "running"

KeptStep ==
  \/ KeepsRunning /\ Kept' = Kept
  \/ KeepsRunning /\ Kept < ofg_imglen /\ Kept' = Kept + 1
  \/ KeepsRunning /\ \E k \in 1 .. PagesPerEb : k <= Kept /\ Kept' = Kept - k
  \/ Goes /\ Outcome' = "complete" /\ Kept = ofg_imglen /\ Kept' = Kept
  \/ /\ Goes /\ Outcome' = "incomplete" /\ (Kept < ofg_imglen \/ ofg_imglen = 0)
     /\ \E k \in 0 .. PagesPerEb : k <= Kept /\ Kept' = Kept - k

(* What the reader finds is a number of pages of the image.                *)
LEMMA KeptBounds ==
  IInv /\ EndInv => /\ Kept \in Nat /\ Kept <= ofg_imglen /\ ofg_imglen \in Nat
                    /\ Base(Good, eb) \in Nat /\ pg \in 0 .. PagesPerEb - 1
<1> SUFFICES ASSUME IInv, EndInv
             PROVE  /\ Kept \in Nat /\ Kept <= ofg_imglen /\ ofg_imglen \in Nat
                    /\ Base(Good, eb) \in Nat /\ pg \in 0 .. PagesPerEb - 1
  OBVIOUS
<1>1. /\ ofg_imglen \in Nat /\ pg \in 0 .. PagesPerEb - 1 /\ eb \in Int
      /\ Good \in SUBSET Blocks
  BY EbCntAssumption, PagesPerEbAssumption, MaxImgPagesAssumption
     DEF IInv, TypeInv, TypeOK, Pages, Good
<1>2. Base(Good, eb) \in Nat
  BY <1>1, BaseStep
<1> QED
  BY <1>1, <1>2, PagesPerEbAssumption DEF Kept, EndInv

(* A part of n pages is all of them, or some are missing.                  *)
LEMMA PartOrWhole ==
  ASSUME NEW n \in Nat, NEW k \in Nat, k <= n
  PROVE  /\ ~(n > 0) \/ k < n => k < n \/ n = 0
         /\ ~(n > 0 /\ k < n) => k = n
         /\ k = 0 => k < n \/ n = 0
         /\ k = k - 0 /\ 0 <= k /\ 0 \in 0 .. n
OBVIOUS

(* A return with an honest warning reports what the reader finds.          *)
LEMMA ReturnStep ==
  ASSUME IInv, EndInv, WarnInv', pc # "done", pc' = "done", result' \in {-1, 0},
         ofg_imglen' = ofg_imglen, Kept' = Kept, Kept = PagesStored',
         warned' \in BOOLEAN, result' = -1 => Kept = 0
  PROVE  KeptStep
<1>1. /\ Kept \in Nat /\ Kept <= ofg_imglen /\ ofg_imglen \in Nat
      /\ PagesPerEb \in Nat /\ Kept' = Kept - 0
  BY KeptBounds, PagesPerEbAssumption
<1>2. Goes /\ Outcome' = IF warned' \/ result' = -1 THEN "incomplete" ELSE "complete"
  BY DEF Goes, Outcome
<1>5. result' = 0 /\ ofg_imglen' > 0 => (warned' <=> PagesStored' < ofg_imglen')
  BY DEF WarnInv, WarnedIffIncomplete
<1>6. result' = 0 /\ ofg_imglen > 0 => (warned' <=> Kept < ofg_imglen)
  BY <1>5
<1>7. /\ ~(ofg_imglen > 0) \/ Kept < ofg_imglen => Kept < ofg_imglen \/ ofg_imglen = 0
      /\ ~(ofg_imglen > 0 /\ Kept < ofg_imglen) => Kept = ofg_imglen
      /\ Kept = 0 => Kept < ofg_imglen \/ ofg_imglen = 0
      /\ 0 <= Kept /\ 0 \in 0 .. PagesPerEb
  <2>1. Kept \in Nat /\ Kept <= ofg_imglen /\ ofg_imglen \in Nat
    BY <1>1
  <2>2. \A n \in Nat : 0 \in 0 .. n /\ 0 <= n
    BY SMT
  <2> QED
    BY <1>1, <2>1, <2>2, PartOrWhole, Zenon
<1>3. CASE warned' \/ result' = -1
  <2>1. Kept < ofg_imglen \/ ofg_imglen = 0
    <3>1. result' = 0 \/ Kept = 0
      OBVIOUS
    <3>2. result' = 0 => ~(ofg_imglen > 0) \/ Kept < ofg_imglen
      <4>1. result' = 0 => result' # -1
        OBVIOUS
      <4> QED
        BY <1>3, <1>6, <4>1, Zenon
    <3> QED
      BY <1>1, <1>7, <3>1, <3>2, Zenon
  <2>2. Outcome' = "incomplete"
    BY <1>2, <1>3
  <2>3. 0 \in 0 .. PagesPerEb /\ 0 <= Kept /\ Kept' = Kept - 0
    BY <1>1, <1>7, PartOrWhole, Zenon
  <2>4. \E k \in 0 .. PagesPerEb : k <= Kept /\ Kept' = Kept - k
    BY <2>3, Zenon
  <2> QED
    BY <1>2, <2>1, <2>2, <2>4 DEF KeptStep
<1>4. CASE ~(warned' \/ result' = -1)
  <2>1. Kept = ofg_imglen
    <3>1. ~(ofg_imglen > 0 /\ Kept < ofg_imglen)
      <4>1. result' # -1 => result' = 0
        OBVIOUS
      <4> QED
        BY <1>4, <1>6, <4>1, Zenon
    <3> QED
      BY <1>7, <3>1, Zenon
  <2> QED
    BY <1>2, <1>4, <2>1 DEF KeptStep
<1> QED
  BY <1>3, <1>4

(* The buffer starts again only when all of it has been written.           *)
LEMMA StartBufferStored ==
  ASSUME IInv, pc # "done", blockstart # eb, StartBuffer, imglen' = imglen,
         ofg_imglen' = ofg_imglen
  PROVE  PagesStored' = PagesStored
<1>1. /\ writebuf \in {-1, 0, filebuf_len} /\ filebuf_len \in Nat
      /\ imglen \in Nat /\ ofg_imglen \in Nat /\ (writebuf = -1 => imglen = ofg_imglen)
  BY PagesPerEbAssumption, MaxImgPagesAssumption
     DEF IInv, TypeInv, TypeOK, InStep, NotStarted
<1>2. CASE writebuf = 0
  BY <1>2 DEF StartBuffer, PagesStored
<1>3. CASE writebuf # 0
  BY <1>1, <1>3 DEF StartBuffer, PagesStored
<1> QED
  BY <1>2, <1>3

(* An error that ends the recovery is warned about.                        *)
LEMMA IncompleteExit ==
  ASSUME CloseAll(TRUE)
  PROVE  Outcome' = "incomplete"
BY DEF CloseAll, Outcome

(* Every step of nandwrite_main() is one of ImageStore or changes nothing  *)
(* that its callers can see.                                               *)
LEMMA StoreStep ==
  IInv /\ IInv' /\ NumberInv /\ NumberInv' /\ WarnInv' /\ EndInv /\ Next
    => EndInv' /\ (KeptStep \/ UNCHANGED vars)
<1> SUFFICES ASSUME IInv, IInv', NumberInv, NumberInv', WarnInv', EndInv, Next
             PROVE  EndInv' /\ (KeptStep \/ UNCHANGED vars)
  OBVIOUS
<1>0. (IInv /\ NumberInv /\ (Running \/ pc = "open") => EndInv /\ Kept = PagesStored)'
  BY KeptStored, PTL
<1>1. /\ Kept \in Nat /\ Kept <= ofg_imglen /\ ofg_imglen \in Nat
      /\ Base(Good, eb) \in Nat /\ pg \in 0 .. PagesPerEb - 1 /\ PagesPerEb \in Nat
  BY KeptBounds, PagesPerEbAssumption
<1>2. (Running \/ pc = "open") => Kept = PagesStored
  BY KeptStored
<1>3. warned' \in BOOLEAN /\ result' \in {-1, 0}
  BY DEF IInv, TypeInv, TypeOK
<1> USE DEF devVars, imgVars, posVars, bufVars, outVars
<1>4. CASE OpenFails \/ (Open /\ pc' = "done")
  <2>1. /\ pc = "open" /\ pc' = "done" /\ EndStays /\ PagesStored' = PagesStored
        /\ writebuf = -1
    BY <1>4 DEF OpenFails, Open, EndStays, PagesStored, IInv, TypeInv, InStep
  <2>2. Kept = 0 /\ Kept = PagesStored'
    BY <1>2, <2>1 DEF PagesStored
  <2> QED
    BY <1>3, <2>1, <2>2, EndStaysKept, ReturnStep DEF EndStays
<1>5. CASE Open /\ pc' # "done"
  <2>1. pc = "open" /\ pc' = "outer" /\ EndStays
    BY <1>5 DEF Open, CloseAll, EndStays
  <2> QED
    BY <2>1, EndStaysKept DEF KeptStep, KeepsRunning, Goes, Outcome, EndStays
<1>6. CASE LoopExit \/ ReadEnds
  <2>1. /\ Running /\ pc # "done" /\ pc' = "done" /\ EndStays /\ PagesStored' = PagesStored
        /\ result' = 0
    BY <1>6 DEF LoopExit, ReadEnds, InBody, CloseAll, EndStays, PagesStored, Running
  <2> QED
    BY <1>2, <1>3, <2>1, EndStaysKept, ReturnStep DEF EndStays
<1>7. CASE NewBlock
  <2>1. /\ Running /\ pc # "done" /\ pc' = "inner" /\ Running' /\ ofg_imglen' = ofg_imglen
        /\ blockstart # eb /\ StartBuffer /\ imglen' = imglen
    BY <1>7 DEF NewBlock, InBody, Running
  <2>2. PagesStored' = PagesStored
    BY <2>1, StartBufferStored
  <2> QED
    BY <1>0, <1>2, <2>1, <2>2 DEF KeptStep, KeepsRunning, Goes, Outcome
<1>8. CASE BadCheckFails
  <2>1. /\ Running /\ pc # "done" /\ pc' = "done" /\ EndStays /\ result' = 0
        /\ blockstart # eb /\ StartBuffer /\ imglen' = imglen /\ ofg_imglen' = ofg_imglen
    BY <1>8 DEF BadCheckFails, InBody, Running, EndStays
  <2>2. PagesStored' = PagesStored
    BY <2>1, StartBufferStored
  <2> QED
    BY <1>2, <1>3, <2>1, <2>2, EndStaysKept, ReturnStep DEF EndStays
<1>9. CASE ReadPage \/ Replay
  <2>1. /\ Running /\ pc # "done" /\ pc' = "write" /\ EndStays
    BY <1>9 DEF ReadPage, Replay, InBody, Running, EndStays
  <2> QED
    BY <2>1, EndStaysKept DEF KeptStep, KeepsRunning, Goes, Outcome, EndStays
<1>10. CASE WritePage
  <2>1. /\ pc = "write" /\ Running /\ pc' = "outer" /\ Running' /\ writebuf \in 0 .. PagesPerEb
        /\ writebuf' = writebuf + 1 /\ UNCHANGED <<imglen, filebuf_len, ofg_imglen>>
        /\ imglen \in Nat /\ filebuf_len \in Nat
    BY <1>10, PagesPerEbAssumption, MaxImgPagesAssumption
       DEF WritePage, Running, IInv, TypeInv, TypeOK, InStep, Pages
  <2>2. PagesStored' = PagesStored + 1
    BY <1>1, <2>1 DEF PagesStored
  <2>3. EndInv' /\ Kept' = Kept + 1
    BY <1>0, <1>2, <2>1, <2>2
  <2>4. Kept' <= ofg_imglen'
    <3>1. (IInv /\ EndInv => Kept <= ofg_imglen)'
      BY KeptBounds, PTL
    <3> QED
      BY <2>3, <3>1
  <2>5. Kept < ofg_imglen
    BY <1>1, <2>1, <2>3, <2>4
  <2> QED
    BY <2>1, <2>3, <2>5 DEF KeptStep, KeepsRunning, Goes, Outcome
<1>11. CASE WriteEIO \/ WriteFails
  <2>0. pc = "write" /\ Running /\ UNCHANGED <<bad, eb, pg, ofg_imglen>>
    BY <1>11 DEF WriteEIO, WriteFails, Running
  <2>1. /\ pc = "write" /\ Running /\ eb \in Good /\ UNCHANGED <<bad, eb, pg, ofg_imglen>>
        /\ eb \in Blocks /\ pg \in Pages
    BY <2>0, EbCntAssumption DEF Running, IInv, TypeInv, TypeOK, InStep, Good, Blocks
  <2>2. \A p \in Pages : p # pg => dev'[eb][p] = dev[eb][p]
    BY <1>11, <2>1, OtherPagesKept DEF WriteEIO, WriteFails, IInv, TypeInv, TypeOK
  <2>3. NoPage(dev[eb][pg])
    BY <1>1, <2>1 DEF EndInv
  <2>4. NoPage(dev'[eb][pg])
    BY <1>11, <2>1, <2>3
       DEF WriteEIO, WriteFails, FailedWrite, NoPage, IInv, TypeInv, TypeOK
  <2>5. BlockFails
    BY <1>1, <2>1, <2>2, <2>4 DEF BlockFails
  <2>6. EndInv' /\ Kept' = Kept
    BY <1>1, <2>2, <2>5, BlockFailsKept
  <2>7. CASE WriteEIO
    BY <2>1, <2>6, <2>7 DEF WriteEIO, KeptStep, KeepsRunning, Goes, Outcome
  <2>8. CASE WriteFails
    <3>1. pc' = "done" /\ PagesStored' = PagesStored /\ result' = 0
      BY <2>8 DEF WriteFails, CloseAll, PagesStored
    <3> QED
      BY <1>2, <1>3, <2>1, <2>6, <3>1, ReturnStep
  <2> QED
    BY <1>11, <2>6, <2>7, <2>8
<1>12. CASE EraseBlock \/ EraseFails
  <2>0. pc = "erase" /\ Recovering /\ UNCHANGED <<bad, eb, pg, ofg_imglen>>
    BY <1>12 DEF EraseBlock, EraseFails, Recovering
  <2>1. /\ pc = "erase" /\ Recovering /\ UNCHANGED <<bad, eb, pg, ofg_imglen>>
        /\ blockstart = eb /\ eb \in Blocks
    BY <2>0, EbCntAssumption DEF Recovering, IInv, TypeInv, TypeOK, InStep, Blocks
  <2>2. Base(Good, eb) + pg < ofg_imglen /\ eb \in Good
    BY <2>1, KeptRecovering
  <2>3. PICK block \in {ErasedBlock, GarbageBlock, dev[eb]} :
          dev' = [dev EXCEPT ![eb] = block]
    BY <1>12, <2>1 DEF EraseBlock, EraseFails, FailedErase
  <2>4. dev'[eb] = block
    BY <2>1, <2>3 DEF IInv, TypeInv, TypeOK
  <2>5. BlockFails
    BY <2>1, <2>2, <2>4 DEF BlockFails, NoPage, ErasedBlock, GarbageBlock
  <2>6. /\ EndInv'
        /\ Kept' = Kept \/ (Kept' = Base(Good, eb) /\ Kept = Kept' + pg /\ pg > 0)
    BY <2>5, BlockFailsKept
  <2>7. \/ Kept' = Kept - 0 /\ Kept' = Kept
        \/ pg \in 1 .. PagesPerEb /\ pg <= Kept /\ Kept' = Kept - pg
    BY <1>1, <2>6
  <2>8. Kept < ofg_imglen
    BY <1>1, <2>2 DEF Kept
  <2>9. CASE EraseBlock
    BY <2>1, <2>6, <2>7, <2>9 DEF EraseBlock, KeptStep, KeepsRunning, Goes, Outcome
  <2>10. CASE EraseFails
    <3>1. Goes /\ Outcome' = "incomplete"
      BY <2>1, <2>10, IncompleteExit DEF EraseFails, Goes, Outcome
    <3>2. \E k \in 0 .. PagesPerEb : k <= Kept /\ Kept' = Kept - k
      BY <1>1, <2>7
    <3> QED
      BY <2>6, <2>8, <3>1, <3>2 DEF KeptStep
  <2> QED
    BY <1>12, <2>9, <2>10
<1>13. CASE MarkBad
  <2>1. /\ pc = "mark" /\ Recovering /\ pc' = "outer" /\ Running' /\ pg' = 0
        /\ blockstart = eb /\ blockstart' = eb /\ eb' = eb + 1 /\ writebuf = 0
        /\ UNCHANGED <<ofg_imglen, imglen, filebuf_len, writebuf>>
    BY <1>13 DEF MarkBad, SkipBlock, Recovering, Running, IInv, TypeInv, TypeOK, InStep
  <2>2. PagesStored' = Base(Good, eb)
    BY <1>1, <2>1 DEF PagesStored, NumberInv, StoredUpTo
  <2>3. EndInv' /\ Kept' = Base(Good, eb)
    BY <1>0, <2>1, <2>2
  <2>4. \/ Kept' = Kept
        \/ pg \in 1 .. PagesPerEb /\ pg <= Kept /\ Kept' = Kept - pg
    BY <1>1, <2>3 DEF Kept
  <2> QED
    BY <2>1, <2>3, <2>4 DEF KeptStep, KeepsRunning, Goes, Outcome
<1>14. CASE MarkFails
  <2>1. /\ pc = "mark" /\ Recovering /\ EndStays
    BY <1>14 DEF MarkFails, Recovering, EndStays
  <2>2. Kept < ofg_imglen
    BY <1>1, <2>1, KeptRecovering DEF Kept
  <2>3. EndInv' /\ Kept' = Kept - 0
    BY <1>1, <2>1, EndStaysKept
  <2>4. Goes /\ Outcome' = "incomplete"
    BY <1>14, <2>1, IncompleteExit DEF MarkFails, Goes, Outcome, EndStays
  <2> QED
    BY <1>1, <2>2, <2>3, <2>4 DEF KeptStep
<1>15. CASE UNCHANGED vars
  BY <1>15 DEF vars, EndInv, Intact, PageNo, Good
<1> QED
  BY <1>4, <1>5, <1>6, <1>7, <1>8, <1>9, <1>10, <1>11, <1>12, <1>13, <1>14, <1>15
     DEF Next, Returned

------------------------------------------------------------------------------
StoreInv == IInv /\ NumberInv /\ WarnInv /\ EndInv

(* A partition with good blocks erased and an empty buffer, as nandwrite   *)
(* finds it, has it.                                                       *)
LEMMA StoreFresh ==
  ASSUME TypeInv, pc = "open", \A b \in Good : dev[b] = ErasedBlock
  PROVE  StoreInv
<1> USE EbCntAssumption, PagesPerEbAssumption, MaxImgPagesAssumption
<1>1. /\ writebuf = -1 /\ NotStarted /\ eb = 0 /\ pg = 0 /\ blockstart = -1
      /\ filebuf_len = 0 /\ PagesStored = 0
  BY DEF TypeInv, InStep, NotStarted, PagesStored
<1>2. \A b, p : ~(b \in Blocks /\ Stored(b, p))
  BY <1>1 DEF Stored, Blocks
<1>3. BufferContinuesImage /\ BufferMirrorsBlock
  BY <1>1 DEF BufferContinuesImage, BufferMirrorsBlock
<1>4. AheadErased
  BY <1>1 DEF AheadErased, Good, ErasedBlock
<1>5. PagesInOrder /\ NoPageLost
  BY <1>1, <1>2 DEF PagesInOrder, NoPageLost
<1>6. IInv
  BY <1>3, <1>4, <1>5 DEF IInv, DataInv
<1>7. Base(Good, 0) = 0
  <2>1. \A c \in Good : ~(c < 0)
    BY DEF Good, Blocks
  <2>2. {c \in Good : c < 0} = {}
    BY <2>1
  <2> QED
    BY <2>2, FS_EmptySet DEF Base, Rank
<1>8. NumberInv
  BY <1>1, <1>2, <1>7 DEF NumberInv, Numbered, StoredUpTo
<1>9. WarnInv
  BY DEF WarnInv, SomethingLeft, WarnedIffIncomplete
<1> QED
  BY <1>6, <1>8, <1>9, KeptStored DEF StoreInv

(* Every step keeps it.                                                    *)
LEMMA StoreNext == StoreInv /\ [Next]_vars => StoreInv'
<1> SUFFICES ASSUME StoreInv, [Next]_vars PROVE StoreInv'
  OBVIOUS
<1>1. IInv'
  BY TypeNext, BufferNext, AheadNext, OrderNext DEF StoreInv, IInv, DataInv
<1>2. NumberInv' /\ WarnInv'
  BY <1>1, NumberNext, WarnNext DEF StoreInv
<1>3. CASE Next
  BY <1>1, <1>2, <1>3, StoreStep DEF StoreInv
<1>4. CASE UNCHANGED vars
  BY <1>1, <1>2, <1>4
     DEF StoreInv, vars, devVars, imgVars, posVars, EndInv, Intact, PageNo, Good
<1> QED
  BY <1>3, <1>4

(* All of it holds together, in every state of nandwrite_main().           *)
THEOREM StoreInvariance == Spec => []StoreInv
<1>1. Init => StoreInv
  BY TypeInit, StoreFresh DEF Init, Good
<1> QED
  BY <1>1, StoreNext, PTL DEF Spec

(* What can be read back is exactly the first Kept pages of the image.     *)
LEMMA StoredPagesKept == StoreInv => StoredPages = Kept /\ Reads(ReadBack, Kept)
BY KeptRead DEF StoreInv

(* nandwrite_main() implements the safety part of ImageStore: a reader that*)
(* skips bad blocks always finds a prefix of the image, which a failing    *)
(* block shortens by no more than a block, and which is all of the image   *)
(* when no warning is printed.                                             *)
THEOREM ImplementsSafely == Spec => Store!StoreSafety
<1>1. Init /\ StoreInv => Store!StoreInit
  <2> SUFFICES ASSUME Init, StoreInv PROVE Store!StoreInit
    OBVIOUS
  <2>1. Kept = PagesStored /\ PagesStored = 0
    BY KeptStored DEF StoreInv, Init, PagesStored
  <2>2. StoredPages = 0
    BY <2>1, StoredPagesKept
  <2> QED
    BY <2>2 DEF Init, Outcome, Store!StoreInit
<1>2. StoreInv /\ StoreInv' /\ [Next]_vars /\ StoredPages = Kept /\ (StoredPages = Kept)'
        => [Store!StoreNext]_(Store!storeVars)
  <2> SUFFICES ASSUME StoreInv, StoreInv', [Next]_vars,
                      StoredPages = Kept, StoredPages' = Kept'
               PROVE  Store!StoreNext \/ UNCHANGED Store!storeVars
    OBVIOUS
  <2>1. KeptStep \/ UNCHANGED vars
    BY StoreStep DEF StoreInv
  <2>2. CASE KeptStep
    BY <2>2 DEF KeptStep, KeepsRunning, Goes, Store!StoreNext, Store!storeVars,
                Store!StorePage, Store!LoseBlock, Store!Complete, Store!GiveUp
  <2>3. CASE UNCHANGED vars
    BY <2>3 DEF vars, devVars, imgVars, posVars, bufVars, outVars, Store!storeVars,
                Outcome, Kept, Intact, PageNo, Good
  <2> QED
    BY <2>1, <2>2, <2>3
<1> QED
  BY <1>1, <1>2, StoreInvariance, StoredPagesKept, PTL DEF Spec, Store!StoreSafety
==============================================================================
