------------------------------ MODULE UbiFormat ------------------------------
(***************************************************************************)
(* ubiformat_main() (ubiformat.c, libscan.c) as ofgwrite runs it:          *)
(* "ubiformat dev -f image -D".  It scans the erase counters (EC) of the   *)
(* partition, writes the image block by block to the good blocks (phase    *)
(* "flash", flash_image()) and writes an EC header to every block behind   *)
(* the image (phase "format", format()).  Blocks that fail with EIO are    *)
(* tortured and marked bad.  No option -y: every doubt is a question on    *)
(* stdin.                                                                  *)
(*                                                                         *)
(* An eraseblock is abstracted to what its EC header says and which block  *)
(* of the image it carries (0: none).                                      *)
(***************************************************************************)
EXTENDS Integers, FiniteSets

CONSTANTS
  EbCnt,             (* mtd.eb_cnt                                         *)
  MaxImgEbs,         (* bound on the image length, in eraseblocks          *)
  MaxConsecutive,    (* MAX_CONSECUTIVE_BAD_BLOCKS                         *)
  InitialEcs,        (* what the EC headers may say before                 *)
  Stdins             (* "user" answers questions, "eof" is at its end      *)

ASSUME UbiEbCntAssumption == EbCnt \in Nat \ {0}
ASSUME MaxImgEbsAssumption == MaxImgEbs \in Nat
ASSUME MaxConsecutiveAssumption == MaxConsecutive \in Nat \ {0}

(* si->ec[] without a valid counter: EB_EMPTY, EB_ALIEN (EB_CORRUPTED is   *)
(* treated the same but for one question), EB_BAD.                         *)
EbEmpty == -1
EbAlien == -2
EbCorrupted == -3
EbBad   == -4

ASSUME InitialEcsAssumption == InitialEcs \subseteq Nat \union {EbEmpty, EbAlien, EbCorrupted}
ASSUME StdinsAssumption == Stdins \subseteq {"user", "eof"}

VARIABLES
  flash,         (* flash[b] = [ec, img]                                    *)
  bad,           (* blocks marked bad in the device                         *)
  marked,        (* those marked by this run                                *)
  si_ec,         (* si->ec                                                  *)
  si_good,       (* si->good_cnt                                            *)
  mean_ec,       (* si->mean_ec                                             *)
  override_ec,   (* args.override_ec                                        *)
  args_ec,       (* args.ec                                                 *)
  stdin,         (* what stdin is                                           *)
  pc, question,  (* where the program is, and what it asks                  *)
  phase,         (* "flash" or "format"                                     *)
  img_ebs, rd,   (* image length; blocks of it read so far                  *)
  eb, buf, skip_data_read, written_ebs,
  consecutive_bad_blocks, prev_bb,
  result

devVars  == <<flash, bad, marked>>
scanVars == <<si_ec, si_good, mean_ec>>
argVars  == <<override_ec, args_ec, stdin, img_ebs>>
fileVars == <<rd, buf, skip_data_read>>
badVars  == <<consecutive_bad_blocks, prev_bb>>
vars == <<devVars, scanVars, argVars, pc, question, phase, fileVars, eb,
          written_ebs, badVars, result>>

Blocks == 0 .. EbCnt - 1
Block(e, i) == [ec |-> e, img |-> i]

Init ==
  /\ bad \in SUBSET Blocks
  /\ flash \in [Blocks -> {Block(e, 0) : e \in InitialEcs}]
  /\ \A b \in bad : flash[b] = Block(EbAlien, 0)
  /\ marked = {}
  /\ si_ec = [b \in Blocks |-> 0] /\ si_good = 0 /\ mean_ec = 0
  /\ override_ec = FALSE /\ args_ec = 0
  /\ stdin \in Stdins
  /\ pc = "scan" /\ question = "none" /\ phase = "flash"
  /\ img_ebs \in 0 .. MaxImgEbs
  /\ rd = 0 /\ buf = 0 /\ skip_data_read = FALSE
  /\ eb = 0 /\ written_ebs = 0
  /\ consecutive_bad_blocks = 1 /\ prev_bb = -1
  /\ result = 0

Return(r) == pc' = "done" /\ result' = r

(* Anything before and in the scan that fails: libmtd, the device, a bad   *)
(* block check, a read, an erase counter beyond EC_MAX.                    *)
ScanFails ==
  /\ pc = "scan"
  /\ Return(-1)
  /\ UNCHANGED <<devVars, scanVars, argVars, question, phase, fileVars, eb,
                 written_ebs, badVars>>

Counted(ec) == {b \in Blocks : ec[b] >= 0}

(* Of the mean, a quotient of sums rounded down, what matters is where it  *)
(* lies: between two of the counters.                                      *)
Means(ec) ==
  IF Counted(ec) = {} THEN {0}
  ELSE UNION {ec[b] .. ec[c] : b, c \in Counted(ec)}

Scan ==
  /\ pc = "scan"
  /\ si_ec' = [b \in Blocks |-> IF b \in bad THEN EbBad ELSE flash[b].ec]
  /\ si_good' = Cardinality(Blocks \ bad)
  /\ mean_ec' \in Means(si_ec')
  /\ pc' = "alien"
  /\ UNCHANGED <<devVars, argVars, question, phase, fileVars, eb, written_ebs,
                 badVars, result>>

ScannedAs(x) == {b \in Blocks : si_ec[b] = x}

Ask(q) == pc' = "ask" /\ question' = q

TooFewBlocks ==
  /\ pc = "alien"
  /\ si_good < 2
  /\ Return(-1)
  /\ UNCHANGED <<devVars, scanVars, argVars, question, phase, fileVars, eb,
                 written_ebs, badVars>>

AlienCheck ==
  /\ pc = "alien"
  /\ si_good >= 2
  /\ IF ScannedAs(EbAlien) # {} THEN Ask("alien")
                                ELSE pc' = "counters" /\ UNCHANGED question
  /\ UNCHANGED <<devVars, scanVars, argVars, phase, fileVars, eb, written_ebs,
                 badVars, result>>

Percent == (Cardinality(Counted(si_ec)) * 100) \div si_good

(* "Make sure the majority of eraseblocks have valid erase counters."      *)
CounterCheck ==
  /\ pc = "counters"
  /\ IF Cardinality(ScannedAs(EbEmpty)) < si_good /\ Percent < 95
       THEN Ask("counters")
       ELSE pc' = "offsets" /\ UNCHANGED question
  /\ UNCHANGED <<devVars, scanVars, argVars, phase, fileVars, eb, written_ebs,
                 badVars, result>>

(* "use new offsets %d and %d?", when the headers on the flash have another*)
(* VID header offset than the new ones.  Which offset the headers carry is *)
(* left out, so whether to ask is open.                                    *)
OffsetsCheck ==
  /\ pc = "offsets"
  /\ \/ Ask("offsets")
     \/ pc' = "open" /\ UNCHANGED question
  /\ UNCHANGED <<devVars, scanVars, argVars, phase, fileVars, eb, written_ebs,
                 badVars, result>>

(* open_file() and the checks on the image in flash_image().               *)
OpenImage ==
  /\ pc = "open"
  /\ img_ebs <= si_good
  /\ pc' = "loop"
  /\ UNCHANGED <<devVars, scanVars, argVars, question, phase, fileVars, eb,
                 written_ebs, badVars, result>>

OpenFails ==
  /\ pc = "open"
  /\ Return(-1)
  /\ UNCHANGED <<devVars, scanVars, argVars, question, phase, fileVars, eb,
                 written_ebs, badVars>>

(* An image without a block: the first turn of the loop divides by         *)
(* divisor = 0 for the progress display.  That is undefined; the program   *)
(* dies of SIGFPE, or goes on to ReadFails where a division does not trap. *)
Trapped == -8

DivisionTraps ==
  /\ pc = "open"
  /\ img_ebs = 0
  /\ Return(Trapped)
  /\ UNCHANGED <<devVars, scanVars, argVars, question, phase, fileVars, eb,
                 written_ebs, badVars>>

(***************************************************************************)
(* prompt(): prints the question, reads a line, and asks again unless the  *)
(* line starts with y or n.  When getline() fails, the content of "line"   *)
(* is unspecified, so any answer may be found in it.                       *)
(***************************************************************************)
Prompt ==
  /\ pc = "ask"
  /\ pc' = "answer"
  /\ UNCHANGED <<devVars, scanVars, argVars, question, phase, fileVars, eb,
                 written_ebs, badVars, result>>

AnswerUnknown ==
  /\ pc = "answer"
  /\ stdin = "eof"
  /\ pc' = "ask"
  /\ UNCHANGED <<devVars, scanVars, argVars, question, phase, fileVars, eb,
                 written_ebs, badVars, result>>

AnswerNo ==
  /\ pc = "answer"
  /\ IF question = "offsets" THEN pc' = "open" /\ UNCHANGED result
                             ELSE Return(-1)
  /\ question' = "none"
  /\ UNCHANGED <<devVars, scanVars, argVars, phase, fileVars, eb, written_ebs,
                 badVars>>

OverrideEc ==
  /\ override_ec' = TRUE
  /\ args_ec' = IF Percent < 50 THEN 0 ELSE mean_ec

AnswerYes ==
  /\ pc = "answer"
  /\ \/ question = "alien" /\ pc' = "counters" /\ UNCHANGED <<override_ec, args_ec>>
     \/ question = "counters" /\ pc' = "offsets" /\ OverrideEc
     \/ question = "offsets" /\ pc' = "open" /\ UNCHANGED <<override_ec, args_ec>>
     \/ question = "markbad" /\ pc' = "mark" /\ UNCHANGED <<override_ec, args_ec>>
  /\ question' = "none"
  /\ UNCHANGED <<devVars, scanVars, stdin, img_ebs, phase, fileVars, eb,
                 written_ebs, badVars, result>>

(***************************************************************************)
(* The loop over the blocks, of flash_image() or of format().              *)
(***************************************************************************)
AtBlock == pc = "loop" /\ eb < EbCnt

(* Mutant: the loop does not move on.                                      *)
SkipBadStays ==
  /\ AtBlock
  /\ si_ec[eb] = EbBad
  /\ UNCHANGED vars

SkipBad ==
  /\ AtBlock
  /\ si_ec[eb] = EbBad
  /\ eb' = eb + 1
  /\ UNCHANGED <<devVars, scanVars, argVars, pc, question, phase, fileVars,
                 written_ebs, badVars, result>>

ToErase == AtBlock /\ si_ec[eb] # EbBad

EraseOk ==
  /\ ToErase
  /\ flash' = [flash EXCEPT ![eb] = Block(EbEmpty, 0)]
  /\ pc' = IF phase = "flash" THEN "read" ELSE "write"
  /\ UNCHANGED <<bad, marked, scanVars, argVars, question, phase,
                 fileVars, eb, written_ebs, badVars, result>>

HalfDone(b) == {flash[b], Block(EbAlien, 0), Block(EbCorrupted, 0)}

EraseEIO ==
  /\ ToErase
  /\ \E block \in HalfDone(eb) : flash' = [flash EXCEPT ![eb] = block]
  /\ Ask("markbad")
  /\ UNCHANGED <<bad, marked, scanVars, argVars, phase, fileVars, eb,
                 written_ebs, badVars, result>>

EraseFails ==
  /\ ToErase
  /\ \E block \in HalfDone(eb) : flash' = [flash EXCEPT ![eb] = block]
  /\ Return(-1)
  /\ UNCHANGED <<bad, marked, scanVars, argVars, question, phase,
                 fileVars, eb, written_ebs, badVars>>

(* read_all() of the next image block, unless buf is to be written again.  *)
ReadBlock ==
  /\ pc = "read"
  /\ IF skip_data_read THEN UNCHANGED <<rd, buf>>
     ELSE rd < img_ebs /\ rd' = rd + 1 /\ buf' = rd + 1
  /\ skip_data_read' = FALSE
  /\ pc' = "write"
  /\ UNCHANGED <<devVars, scanVars, argVars, question, phase, eb, written_ebs,
                 badVars, result>>

(* The file ends, cannot be read, or change_ech() finds no EC header.      *)
ReadFails ==
  /\ pc = "read"
  /\ ~skip_data_read
  /\ Return(-1)
  /\ UNCHANGED <<devVars, scanVars, argVars, question, phase, fileVars, eb,
                 written_ebs, badVars>>

(* Mutant: the erase is not counted.                                       *)
NewEcUncounted(b) ==
  IF override_ec THEN args_ec
  ELSE IF si_ec[b] >= 0 THEN si_ec[b] ELSE mean_ec

NewEc(b) ==
  IF override_ec THEN args_ec
  ELSE IF si_ec[b] >= 0 THEN si_ec[b] + 1 ELSE mean_ec

(* Mutant: ++written_ebs for written_ebs++.                                *)
ImageDoneEarly == written_ebs' + 1 >= img_ebs

ImageDone == written_ebs' >= img_ebs

(* Mutant: one block further.                                              *)
StartFormatLate == phase' = "format" /\ eb' = eb + 2

(* flash_image() returns eb + 1, where format() starts.                    *)
StartFormat == phase' = "format" /\ eb' = eb + 1

WriteImageBlock ==
  /\ pc = "write" /\ phase = "flash"
  /\ flash' = [flash EXCEPT ![eb] = Block(NewEc(eb), buf)]
  /\ written_ebs' = written_ebs + 1
  /\ IF ImageDone THEN StartFormat ELSE phase' = phase /\ eb' = eb + 1
  /\ pc' = "loop"
  /\ UNCHANGED <<bad, marked, scanVars, argVars, question, fileVars,
                 badVars, result>>

(* The loop of flash_image() runs out of blocks: no error.                 *)
OutOfBlocks ==
  /\ pc = "loop" /\ phase = "flash"
  /\ eb = EbCnt
  /\ StartFormat
  /\ UNCHANGED <<devVars, scanVars, argVars, pc, question, fileVars,
                 written_ebs, badVars, result>>

WriteEcHeader ==
  /\ pc = "write" /\ phase = "format"
  /\ flash' = [flash EXCEPT ![eb] = Block(NewEc(eb), 0)]
  /\ eb' = eb + 1
  /\ pc' = "loop"
  /\ UNCHANGED <<bad, marked, scanVars, argVars, question, phase,
                 fileVars, written_ebs, badVars, result>>

WriteEIO ==
  /\ pc = "write"
  /\ \E block \in HalfDone(eb) : flash' = [flash EXCEPT ![eb] = block]
  /\ pc' = "torture"
  /\ UNCHANGED <<bad, marked, scanVars, argVars, question, phase,
                 fileVars, eb, written_ebs, badVars, result>>

WriteFails ==
  /\ pc = "write"
  /\ \E block \in HalfDone(eb) : flash' = [flash EXCEPT ![eb] = block]
  /\ Return(-1)
  /\ UNCHANGED <<bad, marked, scanVars, argVars, question, phase,
                 fileVars, eb, written_ebs, badVars>>

(* Mutant: a block that passed is not marked, and not written either.      *)
TortureHonest(ok) == ~ok

(* mtd_torture() returns -1 whether the block passed or not.               *)
TortureError(ok) == TRUE

(* Mutant: the data that could not be written is forgotten.                *)
KeepBufferForgotten == UNCHANGED skip_data_read

(* "We have to make sure that we do not read next block of data"           *)
KeepBuffer == skip_data_read' = (skip_data_read \/ phase = "flash")

Torture ==
  /\ pc = "torture"
  /\ \E ok \in BOOLEAN :
       IF TortureError(ok)
         THEN Ask("markbad") /\ eb' = eb
         ELSE pc' = "loop" /\ eb' = eb + 1 /\ UNCHANGED question
  /\ flash' = [flash EXCEPT ![eb] = Block(EbAlien, 0)]
  /\ KeepBuffer
  /\ UNCHANGED <<bad, marked, scanVars, argVars, phase, rd, buf, written_ebs,
                 badVars, result>>

(* consecutive_bad_check()                                                 *)
Previous == IF prev_bb = -1 THEN eb ELSE prev_bb

(* Mutant: prev_bb is never set.                                           *)
CountFromScratch ==
  /\ consecutive_bad_blocks' =
       IF eb = Previous + 1 THEN consecutive_bad_blocks + 1 ELSE 1
  /\ UNCHANGED prev_bb

CountConsecutive ==
  /\ consecutive_bad_blocks' =
       IF eb = Previous + 1 THEN consecutive_bad_blocks + 1 ELSE 1
  /\ prev_bb' = eb

MarkBad ==
  /\ pc = "mark"
  /\ bad' = bad \union {eb}
  /\ marked' = marked \union {eb}
  /\ si_ec' = [si_ec EXCEPT ![eb] = EbBad]
  /\ CountConsecutive
  /\ IF consecutive_bad_blocks' >= MaxConsecutive
       THEN Return(-1) /\ eb' = eb
       ELSE pc' = "loop" /\ eb' = eb + 1 /\ UNCHANGED result
  /\ UNCHANGED <<flash, si_good, mean_ec, argVars, question, phase,
                 fileVars, written_ebs>>

MarkFails ==
  /\ pc = "mark"
  /\ Return(-1)
  /\ UNCHANGED <<devVars, scanVars, argVars, question, phase, fileVars, eb,
                 written_ebs, badVars>>

FormatDone ==
  /\ pc = "loop" /\ phase = "format"
  /\ eb >= EbCnt
  /\ Return(0)
  /\ UNCHANGED <<devVars, scanVars, argVars, question, phase, fileVars, eb,
                 written_ebs, badVars>>

Returned == pc = "done" /\ UNCHANGED vars

Next ==
  \/ ScanFails \/ Scan \/ TooFewBlocks \/ AlienCheck \/ CounterCheck
  \/ OffsetsCheck
  \/ OpenImage \/ OpenFails \/ DivisionTraps
  \/ Prompt \/ AnswerUnknown \/ AnswerNo \/ AnswerYes
  \/ SkipBad \/ EraseOk \/ EraseEIO \/ EraseFails
  \/ ReadBlock \/ ReadFails
  \/ WriteImageBlock \/ OutOfBlocks \/ WriteEcHeader \/ WriteEIO \/ WriteFails
  \/ Torture \/ MarkBad \/ MarkFails
  \/ FormatDone \/ Returned

Spec == Init /\ [][Next]_vars

(* One thread; its calls return, and a user answers.                       *)
FairSpec == Spec /\ WF_vars(Next)

------------------------------------------------------------------------------

Good == Blocks \ bad

TypeOK ==
  /\ bad \subseteq Blocks /\ marked \subseteq bad
  /\ \A b \in Blocks : flash[b].ec \in Int /\ flash[b].img \in 0 .. img_ebs
  /\ si_good \in 0 .. EbCnt
  /\ pc \in {"scan", "alien", "counters", "offsets", "open", "ask",
             "answer", "loop", "read", "write", "torture", "mark", "done"}
  /\ question \in {"none", "alien", "counters", "offsets", "markbad"}
  /\ pc \in {"ask", "answer"} <=> question # "none"
  /\ eb \in 0 .. EbCnt + 1
  /\ pc \in {"read", "write", "torture", "mark"} => eb \in Good
  /\ rd \in 0 .. img_ebs /\ buf \in 0 .. rd /\ written_ebs \in 0 .. rd
  /\ consecutive_bad_blocks \in 1 .. MaxConsecutive
  /\ result \in {-1, 0, Trapped}

(***************************************************************************)
(* Whatever blocks fail, the good blocks hold exactly the blocks of the    *)
(* image counted so far, each once and in the order of the image: a block  *)
(* that failed is written again from buf, the file is not read on.         *)
(***************************************************************************)
ImageOnce ==
  /\ {flash[b].img : b \in Good} \ {0} = 1 .. written_ebs
  /\ \A b, c \in Good :
       b < c /\ flash[b].img # 0 /\ flash[c].img # 0
         => flash[b].img < flash[c].img

(***************************************************************************)
(* A success means the whole image, as long as the blocks that turned bad  *)
(* leave enough good ones for it.                                          *)
(***************************************************************************)
SpareBlocksSuffice ==
  pc = "done" /\ result = 0 /\ Cardinality(marked) <= si_good - img_ebs
    => written_ebs = img_ebs

(***************************************************************************)
(* After a success UBI finds a valid EC header in every good block, also   *)
(* in those behind the image and those passed over on the way.             *)
(***************************************************************************)
AllFormatted ==
  pc = "done" /\ result = 0 => \A b \in Good : flash[b].ec >= 0

(***************************************************************************)
(* The wear information survives: unless the user agreed to an override,   *)
(* every block that had a counter has a higher one, also when the block    *)
(* was erased more than once on the way.                                   *)
(***************************************************************************)
WearKept ==
  pc = "done" /\ result = 0 /\ ~override_ec
    => \A b \in Good : si_ec[b] >= 0 => flash[b].ec > si_ec[b]

(***************************************************************************)
(* MAX_CONSECUTIVE_BAD_BLOCKS adjacent blocks turning bad end the run with *)
(* an error: the flash or the driver is broken.                            *)
(***************************************************************************)
StopsAtBadRun ==
  pc = "done" /\ result = 0 =>
    \A b \in Blocks : ~(b .. b + MaxConsecutive - 1 \subseteq marked)

(* With a user who answers, the program ends.  (Not so at the end of stdin:*)
(* "failed to read prompt; assuming 'no'", but prompt() judges the line    *)
(* all the same, and may find it unknown again and again.)                 *)
UserTerminates == stdin = "user" => <>(pc = "done")

(* "Successfully flashed rootfs!" Violated: when blocks turn bad and the   *)
(* rest of the image finds no place, the success is reported all the same. *)
SuccessMeansFlashed == pc = "done" /\ result = 0 => written_ebs = img_ebs
==============================================================================
