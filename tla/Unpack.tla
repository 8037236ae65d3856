------------------------------- MODULE Unpack -------------------------------
(***************************************************************************)
(* flash_unpack_rootfs(): delete the old root file system, then unpack a   *)
(* tar archive in its place.  tar_main() (busybox) opens the archive and,  *)
(* if it is compressed, forks a process that decompresses into a pipe; the *)
(* two run concurrently, and the exit status of the child is looked at     *)
(* when the archive has been read.  die_func, which tar_main() sets, is    *)
(* inherited by the child.                                                 *)
(*                                                                         *)
(* The archive is a stream of units: an entry each (header and data), the  *)
(* end mark, and padding.  A stream that is damaged ends at some unit,     *)
(* between two units or inside one, or a unit has other bytes than it had. *)
(***************************************************************************)
EXTENDS Integers, Sequences

CONSTANTS
  Names,       (* names in the directory, old and new                      *)
  Archives,    (* archives: sequences of [name, kind] records, where kind  *)
               (* is "file", "dir" or "link" (links and device nodes)      *)
  Padding,     (* units behind the end mark                                *)
  PipeSize     (* units the pipe holds                                     *)

ASSUME UnpackAssumption == Padding \in Nat /\ PipeSize \in Nat \ {0}

(* A directory comes before what is in it, and once.                       *)
ASSUME ArchivesAssumption ==
  \A a \in Archives :
    /\ a \in Seq([name : Names, kind : {"file", "dir", "link"}])
    /\ \A i, j \in 1 .. Len(a) :
         i < j /\ a[j].kind = "dir" => a[i].name # a[j].name

VARIABLES
  archive, compressed,
  damage,      (* [at |-> first unit that is missing or the unit altered,  *)
               (* how |-> ...]                                             *)
  verified,    (* the decompressor knows the checksum: bzip2's, or CRC32   *)
               (* in an xz archive, where CRC64 is what xz writes          *)
  stop_e2_needed,
  tree,        (* [Names -> what the directory holds of it]                *)
  upc, consumed,
  bb_got_signal, (* tar_main()'s result so far: TRUE is failure            *)
  child,       (* the decompressor: "none", "running", "fatal" (in         *)
               (* die_func), or how it exited: "exit0", "exit1"            *)
  produced,
  printed,     (* rm or tar printed a message                              *)
  uresult      (* "running", "ok", "failed", "exited", "rebooted"          *)

input      == <<archive, compressed, damage, verified, stop_e2_needed>>
unpackVars == <<input, tree, upc, consumed, bb_got_signal, child, produced,
                printed, uresult>>

Total(a) == Len(a) + 1 + Padding

Damages(a) == [at : 1 .. Total(a), how : {"between", "inside", "altered"}]
                \cup {[at |-> Total(a) + 1, how |-> "between"]}

Undamaged == damage.at > Total(archive)
Altered   == damage.how = "altered"

(* The first unit that is missing.                                         *)
Cut == IF Altered THEN Total(archive) + 1 ELSE damage.at

UnpackInit ==
  /\ archive \in Archives /\ compressed \in BOOLEAN
  /\ damage \in Damages(archive)
  /\ verified \in BOOLEAN /\ (~verified => compressed /\ Altered)
  /\ stop_e2_needed \in BOOLEAN
  /\ tree = [n \in Names |-> "old"]
  /\ upc = "rm" /\ consumed = 0 /\ bb_got_signal = TRUE
  /\ child = "none" /\ produced = 0 /\ printed = FALSE /\ uresult = "running"

UGoto(l) == upc' = l /\ UNCHANGED uresult
UReturn(r) == upc' = "end" /\ uresult' = r

(***************************************************************************)
(* xfunc_die() with die_func = handle_busybox_fatal_error(): a reboot if   *)
(* E2 was stopped, else exit().                                            *)
(***************************************************************************)
Fatal == UReturn(IF stop_e2_needed THEN "rebooted" ELSE "exited")

-----------------------------------------------------------------------------
(* rm -r -f, whose result is ignored: what cannot be removed stays.        *)
RmRootfs ==
  /\ upc = "rm"
  /\ \E kept \in SUBSET Names :
       /\ tree' = [n \in Names |-> IF n \in kept THEN tree[n] ELSE "absent"]
       /\ printed' = (kept # {})
  /\ UGoto("open")
  /\ UNCHANGED <<input, consumed, bb_got_signal, child, produced>>

(* open_zipped(), and fork_transformer() for a compressed archive.         *)
OpenArchive ==
  /\ upc = "open"
  /\ child' = IF compressed THEN "running" ELSE "none"
  /\ UGoto("read")
  /\ UNCHANGED <<input, tree, consumed, bb_got_signal, produced, printed>>

(* No archive, no pipe, no process; or no directory to change to, which    *)
(* rm removed and mkdir() could not make.                                  *)
OpenFails ==
  /\ upc = "open"
  /\ Fatal
  /\ UNCHANGED <<input, tree, consumed, bb_got_signal, child, produced, printed>>

-----------------------------------------------------------------------------
Exited == child \in {"exit0", "exit1"}

(* The next unit can be read as a whole; the stream is at its end.         *)
Available == IF compressed THEN consumed < produced ELSE consumed + 1 < Cut
AtEof     == IF compressed THEN Exited /\ consumed = produced
                           ELSE consumed + 1 = Cut
Torn      == AtEof /\ consumed + 1 = Cut /\ damage.how = "inside"

AlteredHere == Altered /\ consumed + 1 = damage.at

Entry == archive[consumed + 1]

ReadingEntry == upc = "read" /\ Available /\ consumed < Len(archive)

(***************************************************************************)
(* data_extract_all().  What is there is unlinked first, except that a     *)
(* directory may exist: what rm left in it stays.                          *)
(***************************************************************************)
ExtractEntry ==
  /\ ReadingEntry /\ (AlteredHere => Entry.kind = "file")
  /\ \E c \in {"new", "merged", "altered"} :
       /\ c = "merged" <=> Entry.kind = "dir" /\ tree[Entry.name] # "absent"
       /\ c = "altered" <=> AlteredHere
       /\ tree' = [tree EXCEPT ![Entry.name] = c]
  /\ consumed' = consumed + 1 /\ bb_got_signal' = FALSE
  /\ UGoto("read")
  /\ UNCHANGED <<input, child, produced, printed>>

(* Mutant: the error is not reported.                                     *)
ExtractErrorUnprinted ==
  /\ ReadingEntry /\ Entry.kind # "file" /\ ~AlteredHere
  /\ tree' \in {tree, [tree EXCEPT ![Entry.name] = "absent"]}
  /\ consumed' = consumed + 1 /\ bb_got_signal' = FALSE
  /\ UGoto("read")
  /\ UNCHANGED <<input, child, produced, printed>>

(* A directory, link or node that cannot be made is only reported, ...     *)
ExtractError ==
  /\ ReadingEntry /\ Entry.kind # "file" /\ ~AlteredHere
  /\ tree' \in {tree, [tree EXCEPT ![Entry.name] = "absent"]}
  /\ consumed' = consumed + 1 /\ bb_got_signal' = FALSE
  /\ printed' = TRUE
  /\ UGoto("read")
  /\ UNCHANGED <<input, child, produced>>

(* ... a file is fatal, as is anything in the way that cannot be removed.  *)
ExtractFatal ==
  /\ ReadingEntry
  /\ tree' \in {tree} \cup
       (IF Entry.kind = "file" THEN {[tree EXCEPT ![Entry.name] = "part"]} ELSE {})
  /\ Fatal
  /\ UNCHANGED <<input, consumed, bb_got_signal, child, produced, printed>>

(* A header is verified by its magic and its checksum, whatever compresses *)
(* the archive; ...                                                        *)
BadHeader ==
  /\ upc = "read" /\ Available /\ AlteredHere
  /\ Fatal
  /\ UNCHANGED <<input, tree, consumed, bb_got_signal, child, produced, printed>>

(* ... but if its first byte is zero now, it is taken for an empty one.    *)
HeaderSkipped ==
  /\ ReadingEntry /\ AlteredHere /\ Entry.kind # "file"
  /\ consumed' = consumed + 1 /\ bb_got_signal' = FALSE
  /\ UGoto("read")
  /\ UNCHANGED <<input, tree, child, produced, printed>>

(* The stream ends inside a header, or inside the data of a file.          *)
TornEntry ==
  /\ upc = "read" /\ Torn
  /\ \/ UNCHANGED tree
     \/ /\ consumed < Len(archive) /\ Entry.kind = "file"
        /\ tree' = [tree EXCEPT ![Entry.name] = "part"]
  /\ Fatal
  /\ UNCHANGED <<input, consumed, bb_got_signal, child, produced, printed>>

(* "short read": the end of the stream is taken for the end of the archive.*)
ShortRead ==
  /\ upc = "read" /\ AtEof /\ ~Torn
  /\ printed' = TRUE
  /\ UGoto("wait")
  /\ UNCHANGED <<input, tree, consumed, bb_got_signal, child, produced>>


(* Two empty headers; the pipe is read until its end, ...                  *)
EndMark ==
  /\ upc = "read" /\ Available /\ consumed = Len(archive)
  /\ consumed' = consumed + 1 /\ bb_got_signal' = FALSE
  /\ UGoto("drain")
  /\ UNCHANGED <<input, tree, child, produced, printed>>

Drain ==
  /\ upc = "drain"
  /\ \/ Available /\ consumed' = consumed + 1 /\ UGoto("drain")
     \/ AtEof /\ UGoto("wait") /\ UNCHANGED consumed
  /\ UNCHANGED <<input, tree, bb_got_signal, child, produced, printed>>

(* Mutant: the decompressor's exit status is not looked at.                *)
ReturnUnwaited ==
  /\ upc = "wait"
  /\ UReturn(IF bb_got_signal THEN "failed" ELSE "ok")
  /\ UNCHANGED <<input, tree, consumed, bb_got_signal, child, produced, printed>>

(* ... and check_errors_in_children() waits for the decompressor.          *)
WaitChild ==
  /\ upc = "wait" /\ (compressed => Exited)
  /\ UReturn(IF bb_got_signal \/ child = "exit1" THEN "failed" ELSE "ok")
  /\ UNCHANGED <<input, tree, consumed, bb_got_signal, child, produced, printed>>

-----------------------------------------------------------------------------
(***************************************************************************)
(* The decompressor: unpack_bz2_stream() or unpack_xz_stream().  It blocks *)
(* while the pipe is full.                                                 *)
(***************************************************************************)
ChildSame == UNCHANGED <<input, tree, upc, consumed, bb_got_signal, printed>>

(* Mutant: the pipe takes everything.                                      *)
DecompressUnbounded ==
  /\ child = "running" /\ uresult = "running"
  /\ produced + 1 < Cut
  /\ produced' = produced + 1
  /\ ChildSame /\ UNCHANGED <<child, uresult>>

Decompress ==
  /\ child = "running" /\ uresult = "running"
  /\ produced + 1 < Cut /\ produced - consumed < PipeSize
  /\ produced' = produced + 1
  /\ ChildSame /\ UNCHANGED <<child, uresult>>

DecompressEnds ==
  /\ child = "running" /\ uresult = "running"
  /\ produced = Total(archive) /\ (Altered => ~verified)
  /\ child' = "exit0"
  /\ ChildSame /\ UNCHANGED <<produced, uresult>>

(* Missing data, or altered data, which may be met in decoding or not      *)
(* before the checksum behind it: a negative result, so _exit(1).          *)
DecompressFails ==
  /\ child = "running" /\ uresult = "running"
  /\ ~Undamaged
  /\ IF Altered THEN produced + 1 >= damage.at ELSE produced + 1 = Cut
  /\ child' = "exit1"
  /\ ChildSame /\ UNCHANGED <<produced, uresult>>

(* xmalloc() dies.                                                         *)
OutOfMemory ==
  /\ child = "running" /\ uresult = "running"
  /\ produced = 0
  /\ child' = "fatal"
  /\ ChildSame /\ UNCHANGED <<produced, uresult>>

(* handle_busybox_fatal_error() in the child, while tar waits for data.    *)
ChildFatal ==
  /\ child = "fatal" /\ uresult = "running"
  /\ child' = "exit1"
  /\ IF stop_e2_needed THEN uresult' = "rebooted" /\ upc' = "end"
                       ELSE UNCHANGED <<uresult, upc>>
  /\ UNCHANGED <<input, tree, consumed, bb_got_signal, produced, printed>>

Tar ==
  \/ RmRootfs \/ OpenArchive \/ OpenFails
  \/ ExtractEntry \/ ExtractError \/ ExtractFatal \/ TornEntry
  \/ BadHeader \/ HeaderSkipped
  \/ ShortRead \/ EndMark \/ Drain \/ WaitChild

Decompressor ==
  \/ Decompress \/ DecompressEnds \/ DecompressFails
  \/ OutOfMemory \/ ChildFatal
==============================================================================
