--------------------------- MODULE UbiFormatProofs ---------------------------
(***************************************************************************)
(* Proofs about ubiformat_main(): for every device, image and number of    *)
(* failing blocks, the image is written once and in order, spare blocks    *)
(* suffice, and a success leaves a formatted device whose wear is kept.    *)
(***************************************************************************)
EXTENDS UbiFormat, FiniteSetTheorems, TLAPS

(* Before the loop over the blocks, and in it.                             *)
Preparing == \/ pc \in {"scan", "alien", "counters", "offsets", "open"}
             \/ question \in {"alien", "counters", "offsets"}
InLoop == pc \in {"loop", "read", "write", "torture", "mark"} \/ question = "markbad"

(* The types that TypeOK leaves open.                                      *)
EbInfo == [ec : Nat \union {EbEmpty, EbAlien, EbCorrupted}, img : Nat]

TypeInv ==
  /\ flash \in [Blocks -> EbInfo]
  /\ si_ec \in [Blocks -> Int] /\ mean_ec \in Nat /\ args_ec \in Nat
  /\ img_ebs \in Nat /\ prev_bb \in -1 .. EbCnt - 1
  /\ phase \in {"flash", "format"}

(***************************************************************************)
(* Where the loop stands: nothing happens before it, what the scan knows   *)
(* of bad blocks stays true in it, and a block that is to be marked bad is *)
(* not yet.                                                                *)
(***************************************************************************)
LoopInv ==
  /\ Preparing => /\ eb = 0 /\ phase = "flash" /\ rd = 0 /\ written_ebs = 0
                  /\ ~skip_data_read
                  /\ marked = {} /\ prev_bb = -1 /\ consecutive_bad_blocks = 1
  /\ question = "markbad" => eb \in Good
  /\ phase = "flash" => eb <= EbCnt
  /\ pc # "done" => result = 0
  /\ pc = "done" /\ result = 0 => phase = "format" /\ eb >= EbCnt

BadKnown ==
  pc \notin {"scan", "done"} =>
    \A b \in Blocks : si_ec[b] = EbBad <=> b \in bad

(* The block in buf is the next one of the image, once and only once.      *)
BufferInv ==
  phase = "flash" /\ pc # "done" =>
    /\ IF skip_data_read \/ pc \in {"write", "torture"}
         THEN rd = written_ebs + 1 /\ buf = rd
         ELSE rd = written_ebs
    /\ pc \in {"write", "torture"} => ~skip_data_read

ImageInv ==
  /\ \A b \in Blocks : b >= eb => flash[b].img = 0
  /\ ImageOnce

(* What the loop has passed is formatted.                                  *)
FormatInv ==
  \A b \in Good : b < eb =>
    /\ flash[b].ec >= 0
    /\ ~override_ec /\ si_ec[b] >= 0 => flash[b].ec > si_ec[b]

(* Every good block that flash_image() has passed holds a block of the     *)
(* image.                                                                  *)
Passed == {b \in Good : b < eb}

CountInv ==
  /\ pc # "scan" /\ result = 0 => si_good = Cardinality(Good) + Cardinality(marked)
  /\ result = 0 =>
       IF phase = "flash" THEN written_ebs = Cardinality(Passed)
       ELSE \/ written_ebs = img_ebs
            \/ eb >= EbCnt /\ written_ebs = Cardinality(Good)

(* consecutive_bad_check() has counted the last run of marked blocks.      *)
RunInv ==
  /\ IF prev_bb = -1 THEN marked = {} ELSE prev_bb \in marked
  /\ \A b \in marked : b <= prev_bb
  /\ pc # "done" => prev_bb < eb
  /\ pc # "done" /\ prev_bb # -1 => consecutive_bad_blocks < MaxConsecutive
  /\ \A b \in Blocks : b .. prev_bb \subseteq marked =>
       prev_bb - b + 1 <= consecutive_bad_blocks
  /\ result = 0 =>
       \A b \in Blocks : ~(b .. b + MaxConsecutive - 1 \subseteq marked)

IInv == /\ TypeOK /\ TypeInv /\ LoopInv /\ BadKnown /\ BufferInv
        /\ ImageInv /\ FormatInv /\ CountInv /\ RunInv

(* An eraseblock's header says a counter, empty, alien or corrupted, never *)
(* EB_BAD, which is only the scan's word for a block marked bad.           *)
LEMMA EbFacts ==
  ASSUME TypeInv, NEW b \in Blocks
  PROVE  /\ flash[b].ec \in Int /\ flash[b].ec # EbBad
         /\ flash[b].img \in Nat
BY DEF TypeInv, EbInfo, EbEmpty, EbAlien, EbCorrupted, EbBad

(* What the blocks carry depends on the image part of each only.           *)
LEMMA SameImages ==
  ASSUME NEW f, NEW g, NEW S, \A b \in S : f[b].img = g[b].img
  PROVE  {f[b].img : b \in S} = {g[b].img : b \in S}
OBVIOUS

(* The blocks of the device can be counted.                                *)
LEMMA Finite ==
  ASSUME bad \subseteq Blocks, marked \subseteq bad
  PROVE  /\ IsFiniteSet(Good) /\ Cardinality(Good) \in 0 .. EbCnt
         /\ IsFiniteSet(marked) /\ Cardinality(marked) \in Nat
<1> USE UbiEbCntAssumption
<1>1. IsFiniteSet(Blocks) /\ Cardinality(Blocks) = EbCnt
  BY FS_Interval DEF Blocks
<1>2. IsFiniteSet(Good) /\ Cardinality(Good) <= EbCnt
  BY <1>1, FS_Subset DEF Good
<1>3. IsFiniteSet(marked)
  BY <1>1, FS_Subset
<1> QED
  BY <1>2, <1>3, FS_CardinalityType

(* What writing a block, or only its header, does to the flash.            *)
LEMMA HeaderWritten ==
  ASSUME IInv, WriteImageBlock \/ WriteEcHeader
  PROVE  /\ eb \in Good /\ eb \in Blocks /\ eb' = eb + 1 /\ NewEc(eb) \in Nat
         /\ flash' \in [Blocks -> EbInfo] /\ flash'[eb].ec = NewEc(eb)
         /\ \A b \in Blocks : b # eb => flash'[b] = flash[b]
         /\ WriteEcHeader => flash'[eb].img = 0
         /\ UNCHANGED <<bad, marked, scanVars, argVars, fileVars, badVars, result, question>>
<1>1. eb \in Good /\ eb \in Blocks /\ buf \in Nat
  BY DEF IInv, TypeOK, Good, Blocks, WriteImageBlock, WriteEcHeader
<1>2. /\ flash \in [Blocks -> EbInfo] /\ si_ec[eb] \in Int /\ mean_ec \in Nat /\ args_ec \in Nat
  BY <1>1 DEF IInv, TypeInv
<1>3. NewEc(eb) \in Nat
  BY <1>2 DEF NewEc
<1>4. \E i \in Nat : /\ flash' = [flash EXCEPT ![eb] = Block(NewEc(eb), i)]
                     /\ WriteEcHeader => i = 0
  BY <1>1 DEF WriteImageBlock, WriteEcHeader
<1>5. PICK i \in Nat : /\ flash' = [flash EXCEPT ![eb] = Block(NewEc(eb), i)]
                       /\ WriteEcHeader => i = 0
  BY <1>4
<1>6. Block(NewEc(eb), i) \in EbInfo
  BY <1>3 DEF Block, EbInfo
<1>7. flash' \in [Blocks -> EbInfo] /\ flash'[eb] = Block(NewEc(eb), i)
      /\ \A b \in Blocks : b # eb => flash'[b] = flash[b]
  BY <1>1, <1>2, <1>5, <1>6
<1>8. flash'[eb].ec = NewEc(eb) /\ flash'[eb].img = i
  BY <1>7 DEF Block
<1>9. /\ eb' = eb + 1
      /\ UNCHANGED <<bad, marked, scanVars, argVars, fileVars, badVars, result, question>>
  BY DEF WriteImageBlock, WriteEcHeader, StartFormat
<1> QED
  BY <1>1, <1>3, <1>5, <1>7, <1>8, <1>9

(* The types of flash, si_ec and of the counters to write are kept.        *)
LEMMA DataNext == IInv /\ [Next]_vars => TypeInv'
<1> SUFFICES ASSUME IInv, [Next]_vars PROVE TypeInv'
  OBVIOUS
<1> USE UbiEbCntAssumption, MaxConsecutiveAssumption
<1> USE DEF IInv, TypeOK, TypeInv, EbInfo, Preparing, InLoop, Blocks, EbBad,
            EbAlien, EbEmpty, EbCorrupted, Block, Return, Ask, Good, vars,
            devVars, scanVars, argVars, fileVars, badVars
<1>1. CASE Scan
  <2>1. si_ec' \in [Blocks -> Int]
    BY <1>1 DEF Scan
  <2>2. mean_ec' \in Nat
    <3> DEFINE ec == si_ec'
    <3>1. mean_ec' \in Means(ec) /\ ec \in [Blocks -> Int]
      BY <1>1, <2>1 DEF Scan
    <3> HIDE DEF ec
    <3>2. CASE Counted(ec) = {}
      BY <3>1, <3>2 DEF Means
    <3>3. CASE Counted(ec) # {}
      <4>0. mean_ec' \in UNION {ec[b] .. ec[c] : b, c \in Counted(ec)}
        BY <3>1, <3>3 DEF Means
      <4>1. PICK b \in Counted(ec), c \in Counted(ec) : mean_ec' \in ec[b] .. ec[c]
        <5> DEFINE C == Counted(ec)
        <5> DEFINE ranges == {ec[b] .. ec[c] : b, c \in C}
        <5>0. mean_ec' \in UNION ranges
          BY <4>0
        <5> HIDE DEF C, ranges
        <5>1. PICK S \in ranges : mean_ec' \in S
          BY <5>0
        <5>2. \E b, c \in C : S = ec[b] .. ec[c]
          BY <5>1 DEF ranges
        <5> QED
          BY <5>1, <5>2 DEF C
      <4>2. ec[b] \in Nat /\ ec[c] \in Nat
        BY <3>1 DEF Counted
      <4> QED
        BY <4>1, <4>2
    <3> QED
      BY <3>2, <3>3
  <2> QED
    BY <1>1, <2>1, <2>2 DEF Scan
<1>2. CASE AnswerYes
  BY <1>2 DEF AnswerYes, OverrideEc
<1>3. CASE EraseOk
  BY <1>3 DEF EraseOk, ToErase, AtBlock
<1>4. CASE EraseEIO
  BY <1>4 DEF EraseEIO, ToErase, AtBlock, HalfDone
<1>5. CASE EraseFails
  BY <1>5 DEF EraseFails, ToErase, AtBlock, HalfDone
<1>6. CASE WriteImageBlock \/ WriteEcHeader
  <2>1. /\ flash' \in [Blocks -> EbInfo]
        /\ UNCHANGED <<si_ec, mean_ec, args_ec, img_ebs, prev_bb>>
    BY <1>6, HeaderWritten
  <2>2. phase' \in {"flash", "format"}
    BY <1>6 DEF WriteImageBlock, StartFormat, WriteEcHeader
  <2> QED
    BY <2>1, <2>2
<1>7. CASE OutOfBlocks
  BY <1>7 DEF OutOfBlocks, StartFormat
<1>9. CASE WriteEIO
  BY <1>9 DEF WriteEIO, HalfDone
<1>10. CASE WriteFails
  BY <1>10 DEF WriteFails, HalfDone
<1>11. CASE Torture
  BY <1>11 DEF Torture, TortureError, KeepBuffer
<1>12. CASE MarkBad
  BY <1>12 DEF MarkBad, CountConsecutive, Previous
<1>13. CASE UNCHANGED <<flash, si_ec, mean_ec, args_ec, img_ebs, prev_bb, phase>>
  BY <1>13
<1>14. QED
  BY <1>1, <1>2, <1>3, <1>4, <1>5, <1>6, <1>7, <1>9, <1>10, <1>11,
     <1>12, <1>13
     DEF Next, Returned, ScanFails, TooFewBlocks, OpenFails, DivisionTraps, AlienCheck,
         CounterCheck, OffsetsCheck, OpenImage, Prompt, AnswerUnknown,
         AnswerNo, SkipBad, ReadBlock, ReadFails, MarkFails, FormatDone,
         AtBlock, ToErase

(* Nothing is read, written or marked before the loop; a question about    *)
(* marking comes from a good block; result is 0 until the program returns. *)
LEMMA LoopNext == IInv /\ [Next]_vars => LoopInv'
<1> SUFFICES ASSUME IInv, [Next]_vars PROVE LoopInv'
  OBVIOUS
<1> USE UbiEbCntAssumption, MaxConsecutiveAssumption
<1> USE DEF IInv, TypeOK, LoopInv, BadKnown, Preparing, InLoop, EbBad,
            Blocks, Block, Return, Ask, Good, vars, devVars, scanVars,
            argVars, fileVars, badVars
<1>1. CASE ScanFails \/ TooFewBlocks \/ OpenFails \/ DivisionTraps
  BY <1>1 DEF ScanFails, TooFewBlocks, OpenFails, DivisionTraps, Trapped
<1>2. CASE Scan
  BY <1>2 DEF Scan, Means, Counted
<1>3. CASE AlienCheck \/ CounterCheck \/ OffsetsCheck
  <2>1. CASE AlienCheck
    BY <2>1 DEF AlienCheck
  <2>2. CASE CounterCheck
    BY <2>2 DEF CounterCheck
  <2>3. CASE OffsetsCheck
    BY <2>3 DEF OffsetsCheck
  <2> QED
    BY <1>3, <2>1, <2>2, <2>3
<1>4. CASE OpenImage
  BY <1>4 DEF OpenImage
<1>5. CASE Prompt \/ AnswerUnknown
  <2>1. CASE Prompt
    BY <2>1 DEF Prompt
  <2>2. CASE AnswerUnknown
    BY <2>2 DEF AnswerUnknown
  <2> QED
    BY <1>5, <2>1, <2>2
<1>6. CASE AnswerNo
  BY <1>6 DEF AnswerNo
<1>7. CASE AnswerYes
  BY <1>7 DEF AnswerYes, OverrideEc
<1>8. CASE SkipBad
  BY <1>8 DEF SkipBad, AtBlock
<1>9. CASE EraseOk
  BY <1>9 DEF EraseOk, ToErase, AtBlock
<1>10. CASE EraseEIO
  BY <1>10 DEF EraseEIO, ToErase, AtBlock, HalfDone
<1>11. CASE EraseFails
  BY <1>11 DEF EraseFails, ToErase, AtBlock, HalfDone
<1>12. CASE ReadBlock
  BY <1>12 DEF ReadBlock
<1>13. CASE ReadFails
  BY <1>13 DEF ReadFails
<1>14. CASE WriteImageBlock
  BY <1>14 DEF WriteImageBlock, ImageDone, StartFormat, NewEc
<1>15. CASE OutOfBlocks
  BY <1>15 DEF OutOfBlocks, StartFormat
<1>16. CASE WriteEcHeader
  BY <1>16 DEF WriteEcHeader, NewEc
<1>17. CASE WriteEIO
  BY <1>17 DEF WriteEIO, HalfDone
<1>18. CASE WriteFails
  BY <1>18 DEF WriteFails, HalfDone
<1>19. CASE Torture
  BY <1>19 DEF Torture, TortureError, KeepBuffer
<1>20. CASE MarkBad
  BY <1>20 DEF MarkBad, CountConsecutive, Previous
<1>21. CASE MarkFails
  BY <1>21 DEF MarkFails
<1>22. CASE FormatDone
  BY <1>22 DEF FormatDone
<1>23. CASE UNCHANGED vars
  BY <1>23
<1>24. QED
  BY <1>1, <1>2, <1>3, <1>4, <1>5, <1>6, <1>7, <1>8, <1>9, <1>10, <1>11,
     <1>12, <1>13, <1>14, <1>15, <1>16, <1>17, <1>18, <1>19, <1>20, <1>21,
     <1>22, <1>23
     DEF Next, Returned

(* After the scan, si->ec says EB_BAD of exactly the blocks marked bad.    *)
LEMMA BadKnownNext == IInv /\ [Next]_vars => BadKnown'
<1> SUFFICES ASSUME IInv, [Next]_vars PROVE BadKnown'
  OBVIOUS
<1> USE UbiEbCntAssumption, MaxConsecutiveAssumption
<1> USE DEF IInv, TypeOK, TypeInv, BadKnown, Preparing, InLoop, Blocks,
            EbBad, EbAlien, EbEmpty, EbCorrupted, Block, Return, Ask, Good,
            vars, devVars, scanVars, argVars, fileVars, badVars
<1>1. CASE Scan
  <2>1. \A b \in Blocks : flash[b].ec # EbBad
    BY EbFacts
  <2>2. /\ si_ec' = [b \in Blocks |-> IF b \in bad THEN EbBad ELSE flash[b].ec]
        /\ UNCHANGED bad
    BY <1>1 DEF Scan
  <2> QED
    BY <2>1, <2>2
<1>2. CASE MarkBad
  BY <1>2 DEF MarkBad, CountConsecutive, Previous
<1>3. CASE ScanFails
  BY <1>3 DEF ScanFails
<1>4. CASE UNCHANGED vars
  BY <1>4
<1>5. CASE pc \notin {"scan", "done"} /\ UNCHANGED <<si_ec, bad>>
  BY <1>5
<1>6. QED
  BY <1>1, <1>2, <1>3, <1>4, <1>5
     DEF Next, Returned, ScanFails, TooFewBlocks, OpenFails, DivisionTraps, AlienCheck,
         CounterCheck, OffsetsCheck, OpenImage, Prompt, AnswerUnknown,
         AnswerNo, AnswerYes, SkipBad, EraseOk, EraseEIO, EraseFails,
         ReadBlock, ReadFails, WriteImageBlock, OutOfBlocks, WriteEcHeader,
         WriteEIO, WriteFails, Torture, MarkFails, FormatDone, AtBlock,
         ToErase

(* The block in buf is the next of the image until it is written: a failed *)
(* write keeps it and sets skip_data_read, and ReadBlock reads on only     *)
(* without it.                                                             *)
LEMMA BufferNext == IInv /\ [Next]_vars => BufferInv'
<1> SUFFICES ASSUME IInv, [Next]_vars PROVE BufferInv'
  OBVIOUS
<1> USE UbiEbCntAssumption, MaxConsecutiveAssumption
<1> USE DEF IInv, TypeOK, LoopInv, BufferInv, Preparing, InLoop, Block,
            Return, Ask, Good, vars, devVars, scanVars, argVars, fileVars,
            badVars
<1>1. CASE ScanFails \/ TooFewBlocks \/ OpenFails \/ DivisionTraps
  BY <1>1 DEF ScanFails, TooFewBlocks, OpenFails, DivisionTraps, Trapped
<1>2. CASE Scan
  BY <1>2 DEF Scan, Means, Counted
<1>3. CASE AlienCheck \/ CounterCheck \/ OffsetsCheck
  BY <1>3 DEF AlienCheck, CounterCheck, OffsetsCheck
<1>4. CASE OpenImage
  BY <1>4 DEF OpenImage
<1>5. CASE Prompt \/ AnswerUnknown
  BY <1>5 DEF Prompt, AnswerUnknown
<1>6. CASE AnswerNo
  BY <1>6 DEF AnswerNo
<1>7. CASE AnswerYes
  BY <1>7 DEF AnswerYes, OverrideEc
<1>8. CASE SkipBad
  BY <1>8 DEF SkipBad, AtBlock
<1>9. CASE EraseOk
  BY <1>9 DEF EraseOk, ToErase, AtBlock
<1>10. CASE EraseEIO
  BY <1>10 DEF EraseEIO, ToErase, AtBlock, HalfDone
<1>11. CASE EraseFails
  BY <1>11 DEF EraseFails, ToErase, AtBlock, HalfDone
<1>12. CASE ReadBlock
  BY <1>12 DEF ReadBlock
<1>13. CASE ReadFails
  BY <1>13 DEF ReadFails
<1>14. CASE WriteImageBlock
  BY <1>14 DEF WriteImageBlock, ImageDone, StartFormat, NewEc
<1>15. CASE OutOfBlocks
  BY <1>15 DEF OutOfBlocks, StartFormat
<1>16. CASE WriteEcHeader
  BY <1>16 DEF WriteEcHeader, NewEc
<1>17. CASE WriteEIO
  BY <1>17 DEF WriteEIO, HalfDone
<1>18. CASE WriteFails
  BY <1>18 DEF WriteFails, HalfDone
<1>19. CASE Torture
  BY <1>19 DEF Torture, TortureError, KeepBuffer
<1>20. CASE MarkBad
  BY <1>20 DEF MarkBad, CountConsecutive, Previous
<1>21. CASE MarkFails
  BY <1>21 DEF MarkFails
<1>22. CASE FormatDone
  BY <1>22 DEF FormatDone
<1>23. CASE UNCHANGED vars
  BY <1>23
<1>24. QED
  BY <1>1, <1>2, <1>3, <1>4, <1>5, <1>6, <1>7, <1>8, <1>9, <1>10, <1>11,
     <1>12, <1>13, <1>14, <1>15, <1>16, <1>17, <1>18, <1>19, <1>20, <1>21,
     <1>22, <1>23
     DEF Next, Returned

(* A step that changes no block of the image keeps it.                     *)
LEMMA ImagesKept ==
  ASSUME ImageInv, TypeOK, \A b \in Blocks : flash'[b].img = flash[b].img,
         UNCHANGED <<bad, written_ebs>>, eb' \in Int, eb <= eb'
  PROVE  ImageInv'
<1>1. Good \subseteq Blocks /\ \A b \in Blocks : b \in Int
  BY UbiEbCntAssumption DEF Good, Blocks
<1>2. eb \in Int /\ Good' = Good
  BY UbiEbCntAssumption DEF TypeOK, Good
<1>3. \A b \in Good : flash'[b].img = flash[b].img
  BY <1>1
<1>4. {flash'[b].img : b \in Good} = {flash[b].img : b \in Good}
  BY <1>3, SameImages
<1>5. \A b \in Blocks : b >= eb' => flash'[b].img = 0
  BY <1>1, <1>2 DEF ImageInv
<1>6. ImageOnce'
  BY <1>2, <1>3, <1>4 DEF ImageInv, ImageOnce
<1> QED
  BY <1>5, <1>6 DEF ImageInv

(* The image part of the flash: only WriteImageBlock adds to it, at a      *)
(* block above all those written; an erased or failed block leaves it, and *)
(* MarkBad takes away a block that carries nothing.                        *)
LEMMA ImageNext == IInv /\ [Next]_vars => ImageInv'
<1> SUFFICES ASSUME IInv, [Next]_vars PROVE ImageInv'
  OBVIOUS
<1> USE UbiEbCntAssumption, MaxConsecutiveAssumption
<1> USE DEF IInv, TypeOK, TypeInv, LoopInv, BufferInv, ImageInv, ImageOnce,
            EbInfo, Preparing, InLoop, Blocks, EbBad, EbAlien, EbEmpty,
            EbCorrupted, Block, Return, Ask, Good, vars, devVars, scanVars,
            argVars, fileVars, badVars
<1>1. CASE SkipBad
  BY <1>1 DEF SkipBad, AtBlock
<1>2. CASE EraseOk
  <2>1. \A b \in Blocks : flash'[b].img = flash[b].img
    BY <1>2 DEF EraseOk, ToErase, AtBlock
  <2>2. UNCHANGED <<bad, eb, written_ebs>>
    BY <1>2 DEF EraseOk
  <2>3. {flash'[b].img : b \in Good} = {flash[b].img : b \in Good}
    <3>1. \A b \in Good : flash'[b].img = flash[b].img
      BY <2>1
    <3> HIDE DEF Good, IInv, TypeOK, TypeInv, LoopInv, BufferInv, ImageInv, Blocks
    <3> QED
      BY <3>1, SameImages
  <2>4. Good' = Good
    BY <2>2
  <2> HIDE DEF Good
  <2> QED
    BY <2>1, <2>2, <2>3, <2>4 DEF Good
<1>3. CASE EraseEIO
  BY <1>3 DEF EraseEIO, ToErase, AtBlock, HalfDone
<1>4. CASE EraseFails
  BY <1>4 DEF EraseFails, ToErase, AtBlock, HalfDone
<1>5. CASE WriteImageBlock
  <2> DEFINE n == written_ebs + 1
  <2>1. eb \in Good /\ eb \in Blocks /\ buf = n /\ written_ebs \in Nat
    BY <1>5 DEF WriteImageBlock
  <2>2. /\ flash'[eb].img = n
        /\ \A b \in Blocks \ {eb} : flash'[b].img = flash[b].img
    BY <1>5, <2>1 DEF WriteImageBlock
  <2>3. written_ebs' = n /\ eb' = eb + 1 /\ Good' = Good
    BY <1>5 DEF WriteImageBlock, StartFormat
  <2>4. \A b \in Blocks : b >= eb' => flash'[b].img = 0
    BY <2>1, <2>2, <2>3
  <2>a. {flash[b].img : b \in Good} \ {0} = 1 .. written_ebs
    OBVIOUS
  <2>b. \A b, c \in Good : b < c /\ flash[b].img # 0 /\ flash[c].img # 0
          => flash[b].img < flash[c].img
    OBVIOUS
  <2>6. \A b \in Blocks : b >= eb => flash[b].img = 0
    OBVIOUS
  <2>c. Good \subseteq Int /\ Good \subseteq Blocks /\ eb \in Int
    OBVIOUS
  <2> HIDE DEF IInv, TypeOK, TypeInv, LoopInv, BufferInv, ImageInv, Good, Blocks
  <2>5. \A b \in Good : flash[b].img \in 0 .. written_ebs
    <3> TAKE b \in Good
    <3>1. flash[b].img = 0 \/ flash[b].img \in 1 .. written_ebs
      BY <2>a
    <3> QED
      BY <2>1, <3>1
  <2>7. {flash'[b].img : b \in Good} \ {0} = 1 .. n
    <3>1. ASSUME NEW i \in 1 .. n PROVE i \in {flash'[b].img : b \in Good} \ {0}
      <4>1. CASE i = n
        BY <2>1, <2>2, <4>1
      <4>2. CASE i \in 1 .. written_ebs
        <5>1. PICK b \in Good : flash[b].img = i
          BY <2>a, <4>2
        <5> QED
          BY <2>1, <2>2, <2>6, <2>c, <4>2, <5>1
      <4> QED
        BY <2>1, <3>1, <4>1, <4>2
    <3>2. ASSUME NEW b \in Good, flash'[b].img # 0 PROVE flash'[b].img \in 1 .. n
      BY <2>1, <2>2, <2>5, <2>c, <3>2
    <3> QED
      BY <3>1, <3>2
  <2>8. ASSUME NEW b \in Good, NEW c \in Good, b < c,
               flash'[b].img # 0, flash'[c].img # 0
        PROVE  flash'[b].img < flash'[c].img
    <3>1. CASE c = eb
      BY <2>1, <2>2, <2>5, <2>6, <2>8, <2>c, <3>1
    <3>2. CASE c # eb
      BY <2>1, <2>2, <2>6, <2>8, <2>b, <2>c, <3>2
    <3> QED
      BY <3>1, <3>2
  <2> QED
    BY <2>3, <2>4, <2>7, <2>8 DEF ImageInv
<1>6. CASE OutOfBlocks
  BY <1>6 DEF OutOfBlocks, StartFormat
<1>7. CASE WriteEcHeader
  <2>1. /\ eb \in Blocks /\ eb' = eb + 1 /\ flash'[eb].img = 0 /\ bad' = bad
        /\ \A b \in Blocks : b # eb => flash'[b] = flash[b]
    BY <1>7, HeaderWritten DEF IInv
  <2>2. eb \in Int /\ written_ebs' = written_ebs
    BY <1>7 DEF WriteEcHeader
  <2> HIDE DEF IInv, TypeOK, TypeInv, LoopInv, BufferInv, ImageInv, Good, Blocks
  <2>3. ImageInv /\ TypeOK /\ flash[eb].img = 0
    <3>1. ImageInv /\ TypeOK
      BY DEF IInv
    <3>2. \A b \in Blocks : b >= eb => flash[b].img = 0
      BY <3>1 DEF ImageInv
    <3> QED
      BY <2>1, <2>2, <3>1, <3>2
  <2>4. \A b \in Blocks : flash'[b].img = flash[b].img
    BY <2>1, <2>3
  <2> QED
    BY <2>1, <2>2, <2>3, <2>4, ImagesKept
<1>8. CASE WriteEIO
  <2>1. /\ eb \in Blocks /\ eb' = eb /\ UNCHANGED <<bad, written_ebs>>
        /\ \E block \in HalfDone(eb) : flash' = [flash EXCEPT ![eb] = block]
    BY <1>8 DEF WriteEIO
  <2> HIDE DEF IInv, TypeOK, TypeInv, LoopInv, BufferInv, ImageInv, Good, Blocks, EbInfo
  <2>2. eb \in Int /\ ImageInv /\ TypeOK /\ flash[eb].img = 0 /\ flash \in [Blocks -> EbInfo]
    <3>1. ImageInv /\ TypeOK /\ flash \in [Blocks -> EbInfo] /\ eb \in Int
      BY DEF IInv, TypeInv, TypeOK
    <3>2. \A b \in Blocks : b >= eb => flash[b].img = 0
      BY <3>1 DEF ImageInv
    <3> QED
      BY <2>1, <3>1, <3>2
  <2>3. \A block \in HalfDone(eb) : block.img = 0
    BY <2>2 DEF HalfDone, Block
  <2>4. \A b \in Blocks : flash'[b].img = flash[b].img
    BY <2>1, <2>2, <2>3
  <2> QED
    BY <2>1, <2>2, <2>4, ImagesKept
<1>9. CASE WriteFails
  BY <1>9 DEF WriteFails, HalfDone
<1>10. CASE Torture
  BY <1>10 DEF Torture, TortureError, KeepBuffer
<1>11. CASE MarkBad
  <2>1. eb \in Good /\ flash[eb].img = 0
    BY <1>11 DEF MarkBad
  <2>2. /\ UNCHANGED <<flash, written_ebs>>
        /\ Good' = Good \ {eb} /\ eb' \in {eb, eb + 1}
    BY <1>11 DEF MarkBad
  <2>3. {flash[b].img : b \in Good \ {eb}} \ {0} = {flash[b].img : b \in Good} \ {0}
    BY <2>1
  <2>4. \A b \in Blocks : b >= eb' => flash[b].img = 0
    BY <2>1, <2>2
  <2> HIDE DEF Good
  <2> QED
    BY <2>1, <2>2, <2>3, <2>4
<1>12. CASE UNCHANGED <<flash, bad, eb, written_ebs>>
  BY <1>12
<1>13. QED
  BY <1>1, <1>2, <1>3, <1>4, <1>5, <1>6, <1>7, <1>8, <1>9, <1>10, <1>11,
     <1>12
     DEF Next, Returned, ScanFails, TooFewBlocks, OpenFails, DivisionTraps, Scan,
         AlienCheck, CounterCheck, OffsetsCheck, OpenImage, Prompt,
         AnswerUnknown, AnswerNo, AnswerYes, ReadBlock, ReadFails,
         MarkFails, FormatDone

(* What the loop has passed has a header, with a higher counter than       *)
(* scanned unless overridden.                                              *)
LEMMA FormatNext == IInv /\ [Next]_vars => FormatInv'
<1> SUFFICES ASSUME IInv, [Next]_vars PROVE FormatInv'
  OBVIOUS
<1> USE UbiEbCntAssumption, MaxConsecutiveAssumption
<1> USE DEF IInv, TypeOK, TypeInv, LoopInv, BadKnown, FormatInv, EbInfo,
            Preparing, InLoop, Blocks, EbBad, EbAlien, EbEmpty, EbCorrupted,
            Block, Return, Ask, Good, vars, devVars, scanVars, argVars,
            fileVars, badVars
<1>1. CASE Scan
  BY <1>1 DEF Scan, Means, Counted
<1>2. CASE AnswerYes
  BY <1>2 DEF AnswerYes, OverrideEc
<1>3. CASE SkipBad
  <2>1. /\ UNCHANGED <<flash, bad, override_ec, si_ec>> /\ eb' = eb + 1 /\ eb \in Nat
        /\ \A b \in Good : b \in Nat /\ b # eb
    BY <1>3 DEF SkipBad, AtBlock
  <2>2. \A b \in Good : b < eb' => b < eb
    BY <2>1
  <2>3. FormatInv /\ Good' = Good
    BY <2>1
  <2> HIDE DEF Good, IInv
  <2> QED
    BY <2>1, <2>2, <2>3 DEF FormatInv
<1>4. CASE EraseOk
  BY <1>4 DEF EraseOk, ToErase, AtBlock
<1>5. CASE EraseEIO
  BY <1>5 DEF EraseEIO, ToErase, AtBlock, HalfDone
<1>6. CASE EraseFails
  BY <1>6 DEF EraseFails, ToErase, AtBlock, HalfDone
<1>7. CASE WriteImageBlock \/ WriteEcHeader
  <2>1. /\ eb \in Blocks /\ eb' = eb + 1 /\ flash'[eb].ec = NewEc(eb) /\ NewEc(eb) \in Nat
        /\ \A b \in Blocks : b # eb => flash'[b] = flash[b]
        /\ UNCHANGED <<bad, override_ec, si_ec>>
    BY <1>7, HeaderWritten
  <2>2. \A b \in Good : b \in Blocks /\ (b < eb' => b < eb \/ b = eb)
    BY <2>1
  <2>3. ~override_ec /\ si_ec[eb] >= 0 => NewEc(eb) > si_ec[eb]
    BY <2>1 DEF NewEc
  <2>4. FormatInv /\ Good' = Good
    BY <2>1
  <2>5. \A b \in Good : b < eb => b # eb
    BY <2>1
  <2> HIDE DEF Good, IInv, Blocks
  <2> QED
    BY <2>1, <2>2, <2>3, <2>4, <2>5 DEF FormatInv
<1>8. CASE OutOfBlocks
  BY <1>8 DEF OutOfBlocks, StartFormat
<1>10. CASE WriteEIO
  BY <1>10 DEF WriteEIO, HalfDone
<1>11. CASE WriteFails
  BY <1>11 DEF WriteFails, HalfDone
<1>12. CASE Torture
  BY <1>12 DEF Torture, TortureError, KeepBuffer
<1>13. CASE MarkBad
  BY <1>13 DEF MarkBad, CountConsecutive, Previous
<1>14. CASE UNCHANGED <<flash, bad, eb, si_ec, override_ec>>
  BY <1>14
<1>15. QED
  BY <1>1, <1>2, <1>3, <1>4, <1>5, <1>6, <1>7, <1>8, <1>10, <1>11,
     <1>12, <1>13, <1>14
     DEF Next, Returned, ScanFails, TooFewBlocks, OpenFails, DivisionTraps, AlienCheck,
         CounterCheck, OffsetsCheck, OpenImage, Prompt, AnswerUnknown,
         AnswerNo, ReadBlock, ReadFails, MarkFails, FormatDone

(* TypeOK is kept by every step.                                           *)
LEMMA TypeNext == IInv /\ [Next]_vars => TypeOK'
<1> SUFFICES ASSUME IInv, [Next]_vars PROVE TypeOK'
  OBVIOUS
<1> USE UbiEbCntAssumption, MaxConsecutiveAssumption
<1> USE DEF IInv, TypeOK, TypeInv, LoopInv, BufferInv, EbInfo, Preparing,
            InLoop, Blocks, EbBad, EbAlien, EbEmpty, EbCorrupted, Block,
            Return, Ask, Good, vars, devVars, scanVars, argVars, fileVars,
            badVars
<1>1. CASE ScanFails
  BY <1>1 DEF ScanFails
<1>2. CASE TooFewBlocks
  BY <1>2 DEF TooFewBlocks
<1>3. CASE OpenFails \/ DivisionTraps
  BY <1>3 DEF OpenFails, DivisionTraps, Trapped
<1>4. CASE Scan
  <2>1. si_good' \in 0 .. EbCnt
    <3>1. si_good' = Cardinality(Good)
      BY <1>4 DEF Scan
    <3> QED
      BY <3>1, Finite
  <2> QED
    BY <1>4, <2>1 DEF Scan
<1>5. CASE AlienCheck
  BY <1>5 DEF AlienCheck
<1>6. CASE CounterCheck
  BY <1>6 DEF CounterCheck
<1>7. CASE OffsetsCheck
  BY <1>7 DEF OffsetsCheck
<1>8. CASE OpenImage
  BY <1>8 DEF OpenImage
<1>9. CASE Prompt
  BY <1>9 DEF Prompt
<1>10. CASE AnswerUnknown
  BY <1>10 DEF AnswerUnknown
<1>11. CASE AnswerNo
  BY <1>11 DEF AnswerNo
<1>12. CASE AnswerYes
  BY <1>12 DEF AnswerYes, OverrideEc
<1>13. CASE SkipBad
  BY <1>13 DEF SkipBad, AtBlock
<1>14. CASE EraseOk
  <2>1. \A b \in Blocks : flash'[b].ec \in Int /\ flash'[b].img \in 0 .. img_ebs
    BY <1>14 DEF EraseOk, ToErase, AtBlock
  <2>2. eb \in Good
    BY <1>14 DEF EraseOk, ToErase, AtBlock, BadKnown
  <2> QED
    BY <1>14, <2>1, <2>2 DEF EraseOk, ToErase, AtBlock
<1>15. CASE EraseEIO
  BY <1>15 DEF EraseEIO, ToErase, AtBlock, HalfDone
<1>16. CASE EraseFails
  BY <1>16 DEF EraseFails, ToErase, AtBlock, HalfDone
<1>17. CASE ReadBlock
  <2>1. rd' \in 0 .. img_ebs /\ buf' \in 0 .. rd' /\ rd' >= rd
    BY <1>17 DEF ReadBlock
  <2> QED
    BY <1>17, <2>1 DEF ReadBlock
<1>18. CASE ReadFails
  BY <1>18 DEF ReadFails
<1>19. CASE WriteImageBlock
  <2>1. eb \in Blocks /\ eb' = eb + 1
    BY <1>19 DEF WriteImageBlock, StartFormat
  <2>2. flash' = [flash EXCEPT ![eb] = Block(NewEc(eb), buf)] /\ NewEc(eb) \in Int
    BY <1>19, <2>1 DEF WriteImageBlock, NewEc
  <2>3. buf \in 0 .. img_ebs
    OBVIOUS
  <2>4. \A b \in Blocks : flash'[b].ec \in Int /\ flash'[b].img \in 0 .. img_ebs
    BY <2>1, <2>2, <2>3
  <2>5. written_ebs' \in 0 .. rd
    BY <1>19 DEF WriteImageBlock
  <2> QED
    BY <1>19, <2>1, <2>4, <2>5 DEF WriteImageBlock
<1>20. CASE OutOfBlocks
  BY <1>20 DEF OutOfBlocks, StartFormat
<1>21. CASE WriteEcHeader
  <2>1. /\ eb \in Good /\ eb \in Blocks /\ eb' = eb + 1 /\ flash'[eb].ec \in Nat
        /\ flash'[eb].img = 0
        /\ \A b \in Blocks : b # eb => flash'[b] = flash[b]
        /\ UNCHANGED <<bad, marked, scanVars, argVars, fileVars, badVars, result, question>>
    BY <1>21, HeaderWritten
  <2>2. pc' = "loop" /\ written_ebs' = written_ebs /\ pc = "write"
    BY <1>21 DEF WriteEcHeader
  <2>3. \A b \in Blocks : flash'[b].ec \in Int /\ flash'[b].img \in 0 .. img_ebs
    <3>1. /\ img_ebs \in Nat
          /\ \A b \in Blocks : flash[b].ec \in Int /\ flash[b].img \in 0 .. img_ebs
      OBVIOUS
    <3> HIDE DEF IInv, TypeOK, TypeInv, LoopInv, Good, Blocks
    <3> QED
      BY <2>1, <3>1
  <2>4. eb' \in 0 .. EbCnt + 1
    BY <2>1
  <2> QED
    BY <2>1, <2>2, <2>3, <2>4
<1>22. CASE WriteEIO
  BY <1>22 DEF WriteEIO, HalfDone
<1>23. CASE WriteFails
  BY <1>23 DEF WriteFails, HalfDone
<1>24. CASE Torture
  BY <1>24 DEF Torture, TortureError, KeepBuffer
<1>25. CASE MarkBad
  <2>1. eb \in Blocks /\ eb' \in {eb, eb + 1}
    BY <1>25 DEF MarkBad
  <2>2. consecutive_bad_blocks' \in 1 .. MaxConsecutive
    BY <1>25, <2>1 DEF MarkBad, CountConsecutive, Previous, RunInv
  <2> QED
    BY <1>25, <2>1, <2>2 DEF MarkBad
<1>26. CASE MarkFails
  BY <1>26 DEF MarkFails
<1>27. CASE FormatDone
  BY <1>27 DEF FormatDone
<1>28. CASE UNCHANGED vars
  BY <1>28
<1>29. QED
  BY <1>1, <1>2, <1>3, <1>4, <1>5, <1>6, <1>7, <1>8, <1>9, <1>10, <1>11,
     <1>12, <1>13, <1>14, <1>15, <1>16, <1>17, <1>18, <1>19, <1>20, <1>21,
     <1>22, <1>23, <1>24, <1>25, <1>26, <1>27, <1>28
     DEF Next, Returned

(* consecutive_bad_check(): a block marked right behind prev_bb adds to    *)
(* the count, any other starts a run of its own.                           *)
LEMMA RunNext == IInv /\ [Next]_vars => RunInv'
<1> SUFFICES ASSUME IInv, [Next]_vars PROVE RunInv'
  OBVIOUS
<1> USE UbiEbCntAssumption, MaxConsecutiveAssumption
<1> USE DEF IInv, TypeOK, TypeInv, LoopInv, RunInv, Preparing, InLoop,
            Blocks, Block, Return, Ask, Good, vars, devVars, scanVars,
            argVars, fileVars, badVars
<1>1. CASE MarkBad
  <2> DEFINE n == consecutive_bad_blocks
  <2>1. /\ eb \in Blocks /\ eb \notin marked /\ marked' = marked \union {eb}
        /\ prev_bb' = eb /\ prev_bb < eb /\ prev_bb \in Int
        /\ n \in Nat \ {0} /\ pc # "done"
    BY <1>1 DEF MarkBad, CountConsecutive
  <2>2. n' = IF eb = prev_bb + 1 /\ prev_bb # -1 THEN n + 1 ELSE 1
    BY <1>1, <2>1 DEF MarkBad, CountConsecutive, Previous
  <2>3. ASSUME NEW b \in Blocks, b .. eb \subseteq marked'
        PROVE  eb - b + 1 <= n'
    <3>1. CASE b >= eb
      BY <2>1, <2>2, <3>1
    <3>2. CASE b < eb
      <4>1. eb - 1 \in marked /\ b .. eb - 1 \subseteq marked
        BY <2>1, <2>3, <3>2
      <4>2. prev_bb = eb - 1 /\ prev_bb # -1
        BY <2>1, <4>1
      <4>3. prev_bb - b + 1 <= n
        BY <4>1, <4>2
      <4> QED
        BY <2>1, <2>2, <4>2, <4>3
    <3> QED
      BY <2>1, <3>1, <3>2
  <2>4. /\ result' = 0 => n' < MaxConsecutive
        /\ pc' # "done" => eb < eb' /\ n' < MaxConsecutive
    BY <1>1, <2>1, <2>2 DEF MarkBad
  <2>5. \A b \in marked' : b <= eb /\ b \in Int
    BY <2>1
  <2>b. \A b \in Blocks : ~(b .. b + MaxConsecutive - 1 \subseteq marked)
    BY <2>1
  <2>c. MaxConsecutive \in Nat \ {0} /\ n' \in Nat /\ \A b \in Blocks : b \in Nat
    BY <2>1, <2>2
  <2> HIDE DEF IInv, TypeOK, TypeInv, LoopInv, RunInv, Blocks
  <2>6. ASSUME result' = 0, NEW b \in Blocks,
               b .. b + MaxConsecutive - 1 \subseteq marked'
        PROVE  FALSE
    <3> DEFINE last == b + MaxConsecutive - 1
    <3>1. last \in marked' /\ last \in Int /\ last >= b /\ last <= eb
      <4>1. last \in b .. last /\ last \in Int /\ last >= b
        BY <2>c, <2>6
      <4> QED
        BY <2>5, <2>6, <4>1
    <3>2. CASE last = eb
      <4>1. eb - b + 1 <= n' /\ b .. eb \subseteq marked'
        BY <2>3, <2>6, <3>2
      <4> QED
        BY <2>1, <2>4, <2>6, <2>c, <3>2, <4>1
    <3>3. CASE last < eb
      <4>1. eb \notin b .. last
        BY <2>1, <2>c, <3>1, <3>3
      <4> QED
        BY <2>1, <2>6, <2>b, <4>1
    <3> QED
      BY <2>1, <2>c, <3>1, <3>2, <3>3
  <2> QED
    <3>1. prev_bb' # -1 /\ prev_bb' \in marked' /\ (\A b \in marked' : b <= prev_bb')
      BY <2>1, <2>5, <2>c
    <3>2. \A b \in Blocks : b .. prev_bb' \subseteq marked' => prev_bb' - b + 1 <= n'
      BY <2>1, <2>3
    <3>3. result' = 0 => \A b \in Blocks : ~(b .. b + MaxConsecutive - 1 \subseteq marked')
      BY <2>6
    <3> QED
      BY <2>1, <2>4, <3>1, <3>2, <3>3 DEF RunInv
<1>2. CASE MarkFails
  BY <1>2 DEF MarkFails
<1>b. pc # "done" => result = 0
  OBVIOUS
<1>3. CASE /\ UNCHANGED <<marked, prev_bb, consecutive_bad_blocks>>
           /\ eb' \in Nat /\ eb' >= eb /\ (pc = "done" => UNCHANGED vars)
  <2>1. \A b : b .. prev_bb' = b .. prev_bb
    BY <1>3
  <2>2. pc' # "done" => pc # "done" /\ prev_bb < eb'
    BY <1>3
  <2>3. result' = 0 => result = 0
    BY <1>3, <1>b
  <2> HIDE DEF IInv, TypeOK, TypeInv, LoopInv
  <2> QED
    BY <1>3, <2>1, <2>2, <2>3 DEF IInv
<1>a. eb \in Nat /\ \A b \in Good : b + 1 > b
  OBVIOUS
<1> HIDE DEF IInv, TypeOK, TypeInv, LoopInv, RunInv, Blocks
<1>4. QED
  BY <1>a, <1>1, <1>2, <1>3
     DEF Next, Returned, ScanFails, TooFewBlocks, OpenFails, DivisionTraps, Scan,
         AlienCheck, CounterCheck, OffsetsCheck, OpenImage, Prompt,
         AnswerUnknown, AnswerNo, AnswerYes, SkipBad, EraseOk, EraseEIO,
         EraseFails, ReadBlock, ReadFails, WriteImageBlock, OutOfBlocks,
         WriteEcHeader, WriteEIO, WriteFails, Torture, FormatDone, AtBlock,
         ToErase, StartFormat

(* The good blocks scanned are those still good and those marked since;    *)
(* flash_image() has filled every good block it passed.                    *)
LEMMA CountNext == IInv /\ [Next]_vars => CountInv'
<1> SUFFICES ASSUME IInv, [Next]_vars PROVE CountInv'
  OBVIOUS
<1> USE UbiEbCntAssumption DEF Return, Ask, vars, devVars, scanVars, argVars,
        fileVars, badVars
<1>a. /\ bad \subseteq Blocks /\ marked \subseteq bad
      /\ eb \in Nat /\ EbCnt \in Nat /\ si_good \in Nat
      /\ rd \in 0 .. img_ebs /\ written_ebs \in 0 .. rd /\ img_ebs \in Nat
      /\ pc \in {"read", "write", "torture", "mark"} => eb \in Good
  BY DEF IInv, TypeOK, TypeInv
<1>b. pc # "done" => result = 0
  BY DEF IInv, LoopInv
<1>c. \A b \in Blocks : b \in Nat /\ b < EbCnt
  BY DEF Blocks
<1>d. CountInv /\ IsFiniteSet(Good) /\ IsFiniteSet(marked)
  BY <1>a, Finite DEF IInv
<1>1. CASE Scan
  <2>1. marked = {} /\ eb = 0 /\ phase = "flash" /\ written_ebs = 0
    BY <1>1 DEF IInv, LoopInv, Preparing, Scan
  <2>2. Good' = Good /\ Passed' = {} /\ Cardinality({}) = 0
    BY <1>1, <2>1, <1>c, FS_EmptySet DEF Scan, Good, Passed
  <2>3. Cardinality(Good) \in Nat
    BY <1>d, FS_CardinalityType
  <2> QED
    BY <1>1, <2>1, <2>2, <2>3 DEF Scan, CountInv, Good
<1>2. CASE SkipBad
  <2>1. eb \in Blocks /\ eb \in bad
    BY <1>2, <1>a DEF SkipBad, AtBlock, IInv, BadKnown, Blocks
  <2>2. Passed' = Passed /\ Good' = Good
    <3>1. Good' = Good /\ eb' = eb + 1 /\ eb \notin Good
      BY <1>2, <2>1 DEF SkipBad, Good
    <3>2. \A b \in Good : b < eb' <=> b < eb
      BY <1>a, <1>c, <3>1 DEF Good
    <3> QED
      BY <3>1, <3>2 DEF Passed
  <2> QED
    BY <1>2, <1>d, <2>1, <2>2, <1>a, <1>c DEF SkipBad, CountInv
<1>3. CASE WriteImageBlock
  <2>1. eb \in Good /\ eb \in Blocks /\ written_ebs + 1 <= img_ebs
    BY <1>3, <1>a DEF WriteImageBlock, IInv, BufferInv, Good
  <2>2. Passed' = Passed \union {eb} /\ eb \notin Passed /\ Good' = Good
    <3>1. Good' = Good /\ eb' = eb + 1
      BY <1>3 DEF WriteImageBlock, StartFormat, Good
    <3>2. \A b \in Good : b < eb' <=> b < eb \/ b = eb
      BY <1>a, <1>c, <3>1 DEF Good
    <3>3. eb \notin Passed
      BY <1>a DEF Passed
    <3>4. Passed' = Passed \union {eb}
      BY <2>1, <3>1, <3>2 DEF Passed
    <3> QED
      BY <3>1, <3>3, <3>4
  <2>3. IsFiniteSet(Passed)
    BY <1>d, FS_Subset DEF Passed
  <2>4. Cardinality(Passed') = Cardinality(Passed) + 1
    BY <2>2, <2>3, FS_AddElement
  <2>5. written_ebs = Cardinality(Passed)
    BY <1>3, <1>b, <1>d DEF WriteImageBlock, CountInv
  <2> QED
    BY <1>3, <1>a, <1>d, <2>1, <2>2, <2>4, <2>5
       DEF WriteImageBlock, ImageDone, StartFormat, CountInv
<1>4. CASE OutOfBlocks
  <2>1. Passed = Good
    BY <1>4, <1>c DEF OutOfBlocks, Passed, Good
  <2>2. Good' = Good
    BY <1>4 DEF OutOfBlocks, Good
  <2> QED
    BY <1>4, <1>a, <1>b, <1>d, <2>1, <2>2 DEF OutOfBlocks, StartFormat, CountInv
<1>5. CASE WriteEcHeader
  <2>1. eb \in Good /\ eb < EbCnt
    BY <1>5, <1>a, <1>c DEF WriteEcHeader, Good
  <2>2. Good' = Good
    BY <1>5 DEF WriteEcHeader, Good
  <2> QED
    BY <1>5, <1>a, <1>b, <1>d, <2>1, <2>2 DEF WriteEcHeader, CountInv
<1>6. CASE MarkBad
  <2>1. eb \in Good /\ eb \notin marked /\ eb < EbCnt /\ eb \in Blocks
    BY <1>6, <1>a, <1>c DEF MarkBad, Good
  <2>2. Good' = Good \ {eb} /\ marked' = marked \union {eb}
    BY <1>6 DEF MarkBad, Good
  <2>3. /\ Cardinality(Good') = Cardinality(Good) - 1
        /\ Cardinality(marked') = Cardinality(marked) + 1
    BY <1>d, <2>1, <2>2, FS_RemoveElement, FS_AddElement
  <2>4. Cardinality(Good) \in Nat /\ Cardinality(marked) \in Nat
    BY <1>d, FS_CardinalityType
  <2>5. result' = 0 => Passed' = Passed
    <3>1. ASSUME result' = 0 PROVE eb' = eb + 1
      BY <1>6, <3>1 DEF MarkBad
    <3>2. ASSUME eb' = eb + 1 PROVE \A b \in Good \ {eb} : b < eb' <=> b < eb
      BY <1>a, <1>c, <3>2 DEF Good
    <3>3. eb \notin Passed
      BY <1>a DEF Passed
    <3> QED
      BY <2>2, <3>1, <3>2, <3>3 DEF Passed
  <2>6. pc # "scan" /\ result = 0 /\ UNCHANGED <<si_good, phase, written_ebs, img_ebs>>
    BY <1>6, <1>b DEF MarkBad
  <2> QED
    BY <1>a, <1>d, <2>1, <2>3, <2>4, <2>5, <2>6 DEF CountInv
<1>7. CASE result' # 0
  BY <1>7 DEF CountInv
<1>8. CASE /\ UNCHANGED <<si_good, bad, marked, eb, phase, written_ebs, img_ebs>>
           /\ result = 0 /\ pc # "scan"
  <2>1. Good' = Good /\ Passed' = Passed
    BY <1>8 DEF Good, Passed
  <2> QED
    BY <1>8, <1>d, <2>1 DEF CountInv
<1>9. CASE UNCHANGED vars
  <2>1. Good' = Good /\ Passed' = Passed
    BY <1>9 DEF Good, Passed
  <2> QED
    BY <1>9, <1>d, <2>1 DEF CountInv
<1>10. QED
  BY <1>b, <1>1, <1>2, <1>3, <1>4, <1>5, <1>6, <1>7, <1>8, <1>9
     DEF Next, Returned, ScanFails, TooFewBlocks, OpenFails, DivisionTraps, Trapped,
         AlienCheck, CounterCheck, OffsetsCheck, OpenImage, Prompt,
         AnswerUnknown, AnswerNo, AnswerYes, EraseOk, EraseEIO,
         EraseFails, ReadBlock, ReadFails, WriteEIO, WriteFails, Torture,
         MarkFails, FormatDone, AtBlock, ToErase, TortureError

(* The program starts in IInv.                                             *)
LEMMA InitInv == Init => IInv
<1> SUFFICES ASSUME Init PROVE IInv
  OBVIOUS
<1> USE UbiEbCntAssumption, MaxImgEbsAssumption, MaxConsecutiveAssumption,
        InitialEcsAssumption DEF Init, Blocks, Good
<1>1. \A b \in Blocks : flash[b] \in EbInfo /\ flash[b].img = 0
  BY DEF Block, EbInfo, EbEmpty, EbAlien, EbCorrupted
<1>2. TypeInv
  BY <1>1 DEF TypeInv
<1>3. TypeOK
  BY <1>1, <1>2, EbFacts DEF TypeOK
<1>4. LoopInv /\ BadKnown /\ BufferInv
  BY DEF LoopInv, Preparing, BadKnown, BufferInv
<1>5. ImageInv
  <2>1. {flash[b].img : b \in Good} \ {0} = {}
    BY <1>1
  <2> QED
    BY <1>1, <2>1 DEF ImageInv, ImageOnce
<1>6. FormatInv
  BY DEF FormatInv
<1>7. CountInv
  <2>1. Passed = {} /\ Cardinality({}) = 0
    BY FS_EmptySet DEF Passed
  <2> QED
    BY <2>1 DEF CountInv
<1>8. RunInv
  BY DEF RunInv
<1> QED
  BY <1>2, <1>3, <1>4, <1>5, <1>6, <1>7, <1>8 DEF IInv

(* IInv is an inductive invariant of ubiformat_main().                     *)
THEOREM Inductive == Spec => []IInv
<1>1. IInv /\ [Next]_vars => IInv'
  BY TypeNext, DataNext, LoopNext, BadKnownNext, BufferNext, ImageNext,
     FormatNext, CountNext, RunNext DEF IInv
<1> QED
  BY <1>1, InitInv, PTL DEF Spec

(* TypeOK: blocks, counters and the buffer stay in their ranges; the loop  *)
(* never writes, tortures or marks a block that is bad.                    *)
THEOREM TypeCorrect == Spec => []TypeOK
<1>1. IInv => TypeOK
  BY DEF IInv
<1> QED
  BY <1>1, Inductive, PTL

(* However many blocks fail to be erased or written, the good blocks hold  *)
(* the blocks of the image, each once and in order.                        *)
THEOREM WrittenOnce == Spec => []ImageOnce
<1>1. IInv => ImageOnce
  BY DEF IInv, ImageInv
<1> QED
  BY <1>1, Inductive, PTL

(* A success while enough blocks stayed good means the whole image.        *)
THEOREM WholeImage == Spec => []SpareBlocksSuffice
<1>1. IInv => SpareBlocksSuffice
  <2> SUFFICES ASSUME IInv, pc = "done", result = 0,
                      Cardinality(marked) <= si_good - img_ebs
               PROVE  written_ebs = img_ebs
    BY DEF SpareBlocksSuffice
  <2>1. Cardinality(Good) \in Nat /\ Cardinality(marked) \in Nat
    BY Finite DEF IInv, TypeOK
  <2>2. si_good = Cardinality(Good) + Cardinality(marked)
    BY DEF IInv, CountInv
  <2>3. written_ebs = img_ebs \/ written_ebs = Cardinality(Good)
    BY DEF IInv, CountInv, LoopInv
  <2>4. written_ebs <= img_ebs /\ written_ebs \in Nat /\ img_ebs \in Nat
    BY DEF IInv, TypeOK, TypeInv
  <2> QED
    BY <2>1, <2>2, <2>3, <2>4
<1> QED
  BY <1>1, Inductive, PTL

(* A success leaves a valid EC header in every good block.                 *)
THEOREM Formatted == Spec => []AllFormatted
<1>1. IInv => AllFormatted
  BY UbiEbCntAssumption
     DEF IInv, FormatInv, LoopInv, AllFormatted, Good, Blocks, TypeOK
<1> QED
  BY <1>1, Inductive, PTL

(* Unless the user agreed to an override, a success has raised the erase   *)
(* counter of every good block that had one.                               *)
THEOREM WearRaised == Spec => []WearKept
<1>1. IInv => WearKept
  BY UbiEbCntAssumption
     DEF IInv, FormatInv, LoopInv, WearKept, Good, Blocks, TypeOK
<1> QED
  BY <1>1, Inductive, PTL

(* There is no success after MAX_CONSECUTIVE_BAD_BLOCKS adjacent blocks    *)
(* have turned bad.                                                        *)
THEOREM BadRunFails == Spec => []StopsAtBadRun
<1>1. IInv => StopsAtBadRun
  BY DEF IInv, RunInv, StopsAtBadRun
<1> QED
  BY <1>1, Inductive, PTL
==============================================================================
