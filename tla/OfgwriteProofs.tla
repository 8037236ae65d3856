--------------------------- MODULE OfgwriteProofs ----------------------------
(***************************************************************************)
(* Proofs about main(): for any number of polls and runs, and whatever is  *)
(* mounted where, the running root is left before it is written, an        *)
(* unpacked rootfs goes to its partition, a success is complete, and an    *)
(* abort leaves a box that runs.                                           *)
(***************************************************************************)
EXTENDS Ofgwrite, MountTableProofs, TLAPS

(* The mounts that are left are mounts of the table.                       *)
LEMMA PlacedType == TypeOK /\ [Next]_vars => DOMAIN placed' \subseteq DOMAIN layout'.table
<1> SUFFICES ASSUME TypeOK, [Next]_vars
             PROVE  DOMAIN placed' \subseteq DOMAIN layout'.table
  OBVIOUS
<1>1. DOMAIN placed \subseteq DOMAIN layout.table
  BY DEF TypeOK
<1>2. CASE UNCHANGED mountVars
  BY <1>1, <1>2 DEF mountVars
<1>3. CASE PivotRoot
  BY <1>1, <1>3 DEF PivotRoot, Pivoted
<1>4. CASE MoveMounts
  BY <1>1, <1>4 DEF MoveMounts, MovedToNew
<1>5. CASE MoveMedia
  BY <1>1, <1>5 DEF MoveMedia, Replaced, MovedToNew
<1>6. CASE MoveImage
  BY <1>1, <1>6 DEF MoveImage, Replaced, MovedToNew
<1>7. CASE DetachUnneeded
  BY <1>1, <1>7 DEF DetachUnneeded, Replaced, Detached
<1>8. QED
  BY <1>2, <1>3, <1>4, <1>5, <1>6, <1>7
     DEF Next, Program, vars, boxVars, Start, KernelOnly, Daemonize, PrepareNewroot,
         Init2, PollE2, E2NotStopped, UmountOldroot, RemountForUnpack,
         RemountReadOnly, MountNotNeeded, MountRootfs, FormatRootfs, FlashRootfsOk,
         FlashRootfsNor, FlashRootfsFails, FlashRootfsDies, FlashRootfsCrashes,
         UbiformatAsks, UbiformatAnswered, FlashKernelOk, FlashKernelFails, BootImage,
         BootImageCrashes, DreamcardFails, Finish, E2Stops, E2Starts, RunAgain, Ended

(***************************************************************************)
(* What holds at each place of main().  Before init 2 the box is as it     *)
(* was; from there on the old root is left in steps.                       *)
(***************************************************************************)
Untouched == {"start", "kernel_only", "daemonize", "prepare", "init2", "mount"}
Leaving   == {"move_mounts", "move_media", "move_image", "detach", "umount", "remount"}
Flashing  == {"rootfs", "asking", "kernel", "boot_image", "finish"}

(* Where the box stands: told to stop or not, in which root.               *)
BoxInv ==
  /\ pc \in Untouched => runlevel = 3 /\ oldroot = "root"
  /\ pc \in {"poll", "pivot"} => runlevel = 2 /\ oldroot = "root"
  /\ pc \in {"daemonize", "prepare", "init2", "poll", "pivot"} \cup Leaving => Stopping
  /\ pc = "mount" => ~Stopping
  /\ pc \in Leaving => oldroot # "root"
  /\ pc \in Flashing /\ Stopping =>
       /\ oldroot # "root"
       /\ rootfs_flash_mode = "MTD" => oldroot \in {"umounted", "ro"}
  /\ pc \in Flashing /\ ~Stopping => runlevel = 3 /\ oldroot = "root"
  /\ pc = "exited" /\ oldroot = "root" => runlevel = 3
  /\ pc \in {"pivot"} \cup Leaving => e2 = "stopped"
  /\ pc \in Flashing /\ Stopping => e2 = "stopped"

(* What has been flashed, and where to.                                    *)
FlashInv ==
  /\ pc \notin {"exited", "rebooted"} => result = "none"
  /\ pc = "kernel_only" => ~flash_rootfs
  /\ pc \notin {"start", "kernel_only", "exited", "rebooted"} => flash_rootfs
  /\ pc = "kernel" => flash_kernel
  /\ pc \in {"rootfs", "asking"} /\ Unpack /\ ~no_write => remount
  /\ pc \in {"kernel", "boot_image", "finish"} /\ ~no_write =>
       Flashed(rootfs, rootfs_flash_mode)
  /\ pc \in {"boot_image", "finish"} /\ ~no_write /\ flash_kernel =>
       Flashed(kernel, kernel_flash_mode)

(* A box that is left without its old root has been written to.            *)
ExitInv ==
  /\ pc = "exited" => \/ oldroot = "root"
                      \/ rootfs # "old"
                      \/ result \in {"died", "crashed"}
  /\ SuccessIsComplete

IInv == TypeOK /\ BoxInv /\ FlashInv /\ ExitInv

(* The variables that are flags.                                           *)
FlagsOK ==
  /\ remount \in BOOLEAN /\ newroot \in BOOLEAN /\ rebooted \in BOOLEAN
  /\ complained \in BOOLEAN

(* main() starts with variables of their types, ...                        *)
LEMMA TypeInit == Init => TypeOK
<1> SUFFICES ASSUME Init PROVE TypeOK
  OBVIOUS
<1>1. FlagsOK
  BY DEF Init, FlagsOK
<1>2. polls \in 0 .. MaxPolls /\ runs \in 1 .. MaxRuns
  BY MaxPollsAssumption, MaxRunsAssumption DEF Init
<1>3. QED
  BY <1>1, <1>2 DEF Init, TypeOK, FlagsOK, AsMounted

(* ... and each step of main(), E2 or the user keeps the flags ...         *)
LEMMA FlagsNext == FlagsOK /\ [Next]_vars => FlagsOK'
<1> SUFFICES ASSUME FlagsOK, [Next]_vars PROVE FlagsOK'
  OBVIOUS
<1> USE DEF FlagsOK, Step, Reboot, vars, boxVars, dataVars
<1>1. CASE Start
  BY <1>1 DEF Start
<1>2. CASE KernelOnly
  BY <1>2 DEF KernelOnly, Succeeded, Failed
<1>3. CASE Daemonize \/ PrepareNewroot
  BY <1>3 DEF Daemonize, PrepareNewroot
<1>4. CASE Init2
  BY <1>4 DEF Init2
<1>5. CASE PollE2
  BY <1>5 DEF PollE2
<1>6. CASE E2NotStopped
  BY <1>6 DEF E2NotStopped
<1>7. CASE PivotRoot
  BY <1>7 DEF PivotRoot
<1>8. CASE MoveMounts
  BY <1>8 DEF MoveMounts
<1>9. CASE MoveMedia \/ MoveImage \/ DetachUnneeded
  BY <1>9 DEF MoveMedia, MoveImage, DetachUnneeded, Replaced
<1>10. CASE UmountOldroot
  BY <1>10 DEF UmountOldroot
<1>11. CASE RemountForUnpack
  BY <1>11 DEF RemountForUnpack
<1>12. CASE RemountReadOnly
  BY <1>12 DEF RemountReadOnly
<1>13. CASE MountNotNeeded
  BY <1>13 DEF MountNotNeeded
<1>14. CASE MountRootfs
  BY <1>14 DEF MountRootfs
<1>15. CASE FormatRootfs
  BY <1>15 DEF FormatRootfs
<1>16. CASE FlashRootfsOk
  BY <1>16 DEF FlashRootfsOk, Succeeded
<1>17. CASE FlashRootfsNor
  BY <1>17 DEF FlashRootfsNor
<1>18. CASE FlashRootfsFails
  BY <1>18 DEF FlashRootfsFails, Failed, FailAfterFlashing
<1>19. CASE FlashRootfsDies \/ FlashRootfsCrashes \/ UbiformatAsks \/ UbiformatAnswered
  BY <1>19 DEF FlashRootfsDies, FlashRootfsCrashes, UbiformatAsks, UbiformatAnswered,
               Ubiformat, Failed
<1>20. CASE FlashKernelOk
  BY <1>20 DEF FlashKernelOk, Succeeded
<1>21. CASE FlashKernelFails
  BY <1>21 DEF FlashKernelFails, Failed, FailAfterFlashing
<1>22. CASE BootImage \/ BootImageCrashes
  BY <1>22 DEF BootImage, BootImageCrashes
<1>23. CASE DreamcardFails
  BY <1>23 DEF DreamcardFails
<1>24. CASE Finish
  BY <1>24 DEF Finish
<1>25. CASE E2Stops \/ E2Starts
  BY <1>25 DEF E2Stops, E2Starts
<1>26. CASE RunAgain
  BY <1>26 DEF RunAgain
<1>27. CASE UNCHANGED vars
  BY <1>27
<1>28. QED
  BY <1>1, <1>2, <1>3, <1>4, <1>5, <1>6, <1>7, <1>8, <1>9, <1>10, <1>11,
     <1>12, <1>13, <1>14, <1>15, <1>16, <1>17, <1>18, <1>19, <1>20,
     <1>21, <1>22, <1>23, <1>24, <1>25, <1>26, <1>27
     DEF Next, Program, Ended

(* ... and all variables in their types.                                   *)
LEMMA TypeNext == TypeOK /\ [Next]_vars => TypeOK'
<1> SUFFICES ASSUME TypeOK, [Next]_vars PROVE TypeOK'
  OBVIOUS
<1>a. FlagsOK' /\ DOMAIN placed' \subseteq DOMAIN layout'.table
  BY FlagsNext, PlacedType DEF TypeOK, FlagsOK
<1> USE <1>a, MaxPollsAssumption, MaxRunsAssumption
<1> USE DEF FlagsOK, TypeOK, Step, Goto, Exit, Reboot, vars, argVars, boxVars, mountVars, dataVars
<1>1. CASE Start
  BY <1>1 DEF Start
<1>2. CASE KernelOnly
  BY <1>2 DEF KernelOnly, Succeeded, Failed
<1>3. CASE Daemonize \/ PrepareNewroot
  BY <1>3 DEF Daemonize, PrepareNewroot
<1>4. CASE Init2
  BY <1>4 DEF Init2
<1>5. CASE PollE2
  BY <1>5 DEF PollE2
<1>6. CASE E2NotStopped
  BY <1>6 DEF E2NotStopped
<1>7. CASE PivotRoot
  BY <1>7 DEF PivotRoot
<1>8. CASE MoveMounts
  BY <1>8 DEF MoveMounts
<1>9. CASE MoveMedia \/ MoveImage \/ DetachUnneeded
  BY <1>9 DEF MoveMedia, MoveImage, DetachUnneeded, Replaced
<1>10. CASE UmountOldroot
  BY <1>10 DEF UmountOldroot
<1>11. CASE RemountForUnpack
  BY <1>11 DEF RemountForUnpack
<1>12. CASE RemountReadOnly
  BY <1>12 DEF RemountReadOnly
<1>13. CASE MountNotNeeded
  BY <1>13 DEF MountNotNeeded
<1>14. CASE MountRootfs
  BY <1>14 DEF MountRootfs
<1>15. CASE FormatRootfs
  BY <1>15 DEF FormatRootfs
<1>16. CASE FlashRootfsOk
  BY <1>16 DEF FlashRootfsOk, Succeeded
<1>17. CASE FlashRootfsNor
  BY <1>17 DEF FlashRootfsNor
<1>18. CASE FlashRootfsFails
  BY <1>18 DEF FlashRootfsFails, Failed, FailAfterFlashing
<1>19. CASE FlashRootfsDies \/ FlashRootfsCrashes \/ UbiformatAsks \/ UbiformatAnswered
  BY <1>19 DEF FlashRootfsDies, FlashRootfsCrashes, UbiformatAsks, UbiformatAnswered,
               Ubiformat, Failed
<1>20. CASE FlashKernelOk
  BY <1>20 DEF FlashKernelOk, Succeeded
<1>21. CASE FlashKernelFails
  BY <1>21 DEF FlashKernelFails, Failed, FailAfterFlashing
<1>22. CASE BootImage \/ BootImageCrashes
  BY <1>22 DEF BootImage, BootImageCrashes
<1>23. CASE DreamcardFails
  BY <1>23 DEF DreamcardFails
<1>24. CASE Finish
  BY <1>24 DEF Finish
<1>25. CASE E2Stops \/ E2Starts
  BY <1>25 DEF E2Stops, E2Starts
<1>26. CASE RunAgain
  BY <1>26 DEF RunAgain
<1>27. CASE UNCHANGED vars
  BY <1>27
<1>28. QED
  BY <1>1, <1>2, <1>3, <1>4, <1>5, <1>6, <1>7, <1>8, <1>9, <1>10, <1>11,
     <1>12, <1>13, <1>14, <1>15, <1>16, <1>17, <1>18, <1>19, <1>20,
     <1>21, <1>22, <1>23, <1>24, <1>25, <1>26, <1>27
     DEF Next, Program, Ended

(* Every variable of main() keeps its type: it polls no more than MaxPolls *)
(* times, and the mounts left are mounts of the table.                     *)
THEOREM TypeCorrect == Spec => []TypeOK
BY TypeInit, TypeNext, PTL DEF Spec

------------------------------------------------------------------------------
(* The box of the user runs, and nothing is flashed yet.                   *)
LEMMA InvInit == Init => IInv
BY TypeInit
   DEF Init, IInv, BoxInv, FlashInv, ExitInv, SuccessIsComplete, Flashed, Untouched,
       Leaving, Flashing, Stopping

(* The box is told to stop, and leaves its root, in this order only.       *)
LEMMA BoxNext == TypeOK /\ BoxInv /\ [Next]_vars => BoxInv'
<1> SUFFICES ASSUME TypeOK, BoxInv, [Next]_vars PROVE BoxInv'
  OBVIOUS
<1> USE DEF BoxInv, Untouched, Leaving, Flashing, Stopping, Unpack, UnpackModes, Modes, TypeOK,
            Step, Goto, Exit, Reboot, vars, argVars, boxVars, mountVars, dataVars
<1>1. CASE Start
  BY <1>1 DEF Start
<1>2. CASE KernelOnly
  BY <1>2 DEF KernelOnly, Succeeded, Failed
<1>3. CASE Daemonize \/ PrepareNewroot
  BY <1>3 DEF Daemonize, PrepareNewroot
<1>4. CASE Init2
  BY <1>4 DEF Init2
<1>5. CASE PollE2
  BY <1>5 DEF PollE2
<1>6. CASE E2NotStopped
  BY <1>6 DEF E2NotStopped
<1>7. CASE PivotRoot
  BY <1>7 DEF PivotRoot
<1>8. CASE MoveMounts
  BY <1>8 DEF MoveMounts
<1>9. CASE MoveMedia \/ MoveImage \/ DetachUnneeded
  BY <1>9 DEF MoveMedia, MoveImage, DetachUnneeded, Replaced
<1>10. CASE UmountOldroot
  BY <1>10 DEF UmountOldroot
<1>11. CASE RemountForUnpack
  BY <1>11 DEF RemountForUnpack
<1>12. CASE RemountReadOnly
  BY <1>12 DEF RemountReadOnly
<1>13. CASE MountNotNeeded
  BY <1>13 DEF MountNotNeeded
<1>14. CASE MountRootfs
  BY <1>14 DEF MountRootfs
<1>15. CASE FormatRootfs
  BY <1>15 DEF FormatRootfs
<1>16. CASE FlashRootfsOk
  BY <1>16 DEF FlashRootfsOk, Succeeded
<1>17. CASE FlashRootfsNor
  BY <1>17 DEF FlashRootfsNor
<1>18. CASE FlashRootfsFails
  BY <1>18 DEF FlashRootfsFails, Failed, FailAfterFlashing
<1>19. CASE FlashRootfsDies \/ FlashRootfsCrashes \/ UbiformatAsks \/ UbiformatAnswered
  BY <1>19 DEF FlashRootfsDies, FlashRootfsCrashes, UbiformatAsks, UbiformatAnswered,
               Ubiformat, Failed
<1>20. CASE FlashKernelOk
  BY <1>20 DEF FlashKernelOk, Succeeded
<1>21. CASE FlashKernelFails
  BY <1>21 DEF FlashKernelFails, Failed, FailAfterFlashing
<1>22. CASE BootImage \/ BootImageCrashes
  BY <1>22 DEF BootImage, BootImageCrashes
<1>23. CASE DreamcardFails
  BY <1>23 DEF DreamcardFails
<1>24. CASE Finish
  BY <1>24 DEF Finish
<1>25. CASE E2Stops \/ E2Starts
  BY <1>25 DEF E2Stops, E2Starts
<1>26. CASE RunAgain
  BY <1>26 DEF RunAgain
<1>27. CASE UNCHANGED vars
  BY <1>27
<1>28. QED
  BY <1>1, <1>2, <1>3, <1>4, <1>5, <1>6, <1>7, <1>8, <1>9, <1>10, <1>11,
     <1>12, <1>13, <1>14, <1>15, <1>16, <1>17, <1>18, <1>19, <1>20,
     <1>21, <1>22, <1>23, <1>24, <1>25, <1>26, <1>27
     DEF Next, Program, Ended

(* No place behind a flash is reached without it.                          *)
LEMMA FlashNext == TypeOK /\ FlashInv /\ [Next]_vars => FlashInv'
<1> SUFFICES ASSUME TypeOK, FlashInv, [Next]_vars PROVE FlashInv'
  OBVIOUS
<1> USE DEF TypeOK, FlashInv, Flashed, Unpack, Stopping, Step, Goto, Exit, Reboot, vars, argVars,
            boxVars, mountVars, dataVars
<1>1. CASE Start
  BY <1>1 DEF Start
<1>2. CASE KernelOnly
  BY <1>2 DEF KernelOnly, Succeeded, Failed
<1>3. CASE Daemonize \/ PrepareNewroot
  BY <1>3 DEF Daemonize, PrepareNewroot
<1>4. CASE Init2
  BY <1>4 DEF Init2
<1>5. CASE PollE2
  BY <1>5 DEF PollE2
<1>6. CASE E2NotStopped
  BY <1>6 DEF E2NotStopped
<1>7. CASE PivotRoot
  BY <1>7 DEF PivotRoot
<1>8. CASE MoveMounts
  BY <1>8 DEF MoveMounts
<1>9. CASE MoveMedia \/ MoveImage \/ DetachUnneeded
  BY <1>9 DEF MoveMedia, MoveImage, DetachUnneeded, Replaced
<1>10. CASE UmountOldroot
  BY <1>10 DEF UmountOldroot
<1>11. CASE RemountForUnpack
  BY <1>11 DEF RemountForUnpack
<1>12. CASE RemountReadOnly
  BY <1>12 DEF RemountReadOnly
<1>13. CASE MountNotNeeded
  BY <1>13 DEF MountNotNeeded
<1>14. CASE MountRootfs
  BY <1>14 DEF MountRootfs
<1>15. CASE FormatRootfs
  BY <1>15 DEF FormatRootfs
<1>16. CASE FlashRootfsOk
  BY <1>16 DEF FlashRootfsOk, Succeeded
<1>17. CASE FlashRootfsNor
  BY <1>17 DEF FlashRootfsNor
<1>18. CASE FlashRootfsFails
  BY <1>18 DEF FlashRootfsFails, Failed, FailAfterFlashing
<1>19. CASE FlashRootfsDies \/ FlashRootfsCrashes \/ UbiformatAsks \/ UbiformatAnswered
  BY <1>19 DEF FlashRootfsDies, FlashRootfsCrashes, UbiformatAsks, UbiformatAnswered,
               Ubiformat, Failed
<1>20. CASE FlashKernelOk
  BY <1>20 DEF FlashKernelOk, Succeeded
<1>21. CASE FlashKernelFails
  BY <1>21 DEF FlashKernelFails, Failed, FailAfterFlashing
<1>22. CASE BootImage \/ BootImageCrashes
  BY <1>22 DEF BootImage, BootImageCrashes
<1>23. CASE DreamcardFails
  BY <1>23 DEF DreamcardFails
<1>24. CASE Finish
  BY <1>24 DEF Finish
<1>25. CASE E2Stops \/ E2Starts
  BY <1>25 DEF E2Stops, E2Starts
<1>26. CASE RunAgain
  BY <1>26 DEF RunAgain
<1>27. CASE UNCHANGED vars
  BY <1>27
<1>28. QED
  BY <1>1, <1>2, <1>3, <1>4, <1>5, <1>6, <1>7, <1>8, <1>9, <1>10, <1>11,
     <1>12, <1>13, <1>14, <1>15, <1>16, <1>17, <1>18, <1>19, <1>20,
     <1>21, <1>22, <1>23, <1>24, <1>25, <1>26, <1>27
     DEF Next, Program, Ended

(* Neither exit claims what has not been done.                             *)
LEMMA ExitNext == IInv /\ [Next]_vars => ExitInv'
<1> SUFFICES ASSUME IInv, [Next]_vars PROVE ExitInv'
  OBVIOUS
<1> USE DEF IInv, ExitInv, SuccessIsComplete, Flashed, BoxInv, FlashInv, TypeOK, Untouched, Leaving,
            Flashing, Stopping, Unpack, Step, Goto, Exit, Reboot, vars, argVars, boxVars, mountVars,
            dataVars
<1>1. CASE Start
  BY <1>1 DEF Start
<1>2. CASE KernelOnly
  BY <1>2 DEF KernelOnly, Succeeded, Failed
<1>3. CASE Daemonize \/ PrepareNewroot
  BY <1>3 DEF Daemonize, PrepareNewroot
<1>4. CASE Init2
  BY <1>4 DEF Init2
<1>5. CASE PollE2
  BY <1>5 DEF PollE2
<1>6. CASE E2NotStopped
  BY <1>6 DEF E2NotStopped
<1>7. CASE PivotRoot
  BY <1>7 DEF PivotRoot
<1>8. CASE MoveMounts
  BY <1>8 DEF MoveMounts
<1>9. CASE MoveMedia \/ MoveImage \/ DetachUnneeded
  BY <1>9 DEF MoveMedia, MoveImage, DetachUnneeded, Replaced
<1>10. CASE UmountOldroot
  BY <1>10 DEF UmountOldroot
<1>11. CASE RemountForUnpack
  BY <1>11 DEF RemountForUnpack
<1>12. CASE RemountReadOnly
  BY <1>12 DEF RemountReadOnly
<1>13. CASE MountNotNeeded
  BY <1>13 DEF MountNotNeeded
<1>14. CASE MountRootfs
  BY <1>14 DEF MountRootfs
<1>15. CASE FormatRootfs
  BY <1>15 DEF FormatRootfs
<1>16. CASE FlashRootfsOk
  BY <1>16 DEF FlashRootfsOk, Succeeded
<1>17. CASE FlashRootfsNor
  BY <1>17 DEF FlashRootfsNor
<1>18. CASE FlashRootfsFails
  BY <1>18 DEF FlashRootfsFails, Failed, FailAfterFlashing
<1>19. CASE FlashRootfsDies \/ FlashRootfsCrashes \/ UbiformatAsks \/ UbiformatAnswered
  BY <1>19 DEF FlashRootfsDies, FlashRootfsCrashes, UbiformatAsks, UbiformatAnswered,
               Ubiformat, Failed
<1>20. CASE FlashKernelOk
  BY <1>20 DEF FlashKernelOk, Succeeded
<1>21. CASE FlashKernelFails
  BY <1>21 DEF FlashKernelFails, Failed, FailAfterFlashing
<1>22. CASE BootImage \/ BootImageCrashes
  BY <1>22 DEF BootImage, BootImageCrashes
<1>23. CASE DreamcardFails
  BY <1>23 DEF DreamcardFails
<1>24. CASE Finish
  BY <1>24 DEF Finish
<1>25. CASE E2Stops \/ E2Starts
  BY <1>25 DEF E2Stops, E2Starts
<1>26. CASE RunAgain
  BY <1>26 DEF RunAgain
<1>27. CASE UNCHANGED vars
  BY <1>27
<1>28. QED
  BY <1>1, <1>2, <1>3, <1>4, <1>5, <1>6, <1>7, <1>8, <1>9, <1>10, <1>11,
     <1>12, <1>13, <1>14, <1>15, <1>16, <1>17, <1>18, <1>19, <1>20,
     <1>21, <1>22, <1>23, <1>24, <1>25, <1>26, <1>27
     DEF Next, Program, Ended

(* The invariant holds in every state of the box.                          *)
LEMMA Invariance == Spec => []IInv
<1>1. IInv /\ [Next]_vars => IInv'
  BY TypeNext, BoxNext, FlashNext, ExitNext DEF IInv
<1>2. QED
  BY InvInit, <1>1, PTL DEF Spec

(* A run that reports a success has called every flash function that was   *)
(* asked for, with success; where that was raw flash and no tool printed   *)
(* an error, the content is new.                                           *)
THEOREM CompleteSuccess == Spec => []SuccessIsComplete
<1>1. IInv => SuccessIsComplete
  BY DEF IInv, ExitInv
<1>2. QED
  BY <1>1, Invariance, PTL

(* A failure before anything is written leaves a box that runs.            *)
THEOREM AbortAlive == Spec => []AbortKeepsBoxAlive
<1>1. IInv => AbortKeepsBoxAlive
  BY DEF IInv, BoxInv, ExitInv, AbortKeepsBoxAlive
<1>2. QED
  BY <1>1, Invariance, PTL

(* Only these steps write the rootfs.                                      *)
LEMMA RootfsWritten ==
  ASSUME [Next]_vars, rootfs' # rootfs
  PROVE  /\ pc \in {"mount", "rootfs"} /\ ~no_write
         /\ pc = "mount" => Unpack
BY DEF Next, Program, vars, boxVars, dataVars, Step, Unpack, UnpackModes, Failed, Succeeded, Start,
       KernelOnly, Daemonize, PrepareNewroot, Init2, PollE2, E2NotStopped, PivotRoot,
       MoveMounts, MoveMedia, MoveImage, DetachUnneeded, Replaced, UmountOldroot,
       RemountForUnpack, RemountReadOnly, MountNotNeeded, MountRootfs, FormatRootfs,
       FlashRootfsOk, FlashRootfsNor, FlashRootfsFails, FlashRootfsDies,
       FlashRootfsCrashes, Ubiformat, UbiformatAsks, UbiformatAnswered, FlashKernelOk,
       FlashKernelFails, BootImage, BootImageCrashes, DreamcardFails, Finish, E2Stops,
       E2Starts, RunAgain, Ended

(* The rootfs of the running system is written only after E2 has stopped   *)
(* and its root was left, for raw flash unmounted or made read only.       *)
THEOREM RootReleased == Spec => RunningRootReleased
<1>1. IInv /\ [Next]_vars =>
        [rootfs' # rootfs /\ stop_e2_needed =>
           /\ e2 = "stopped"
           /\ oldroot # "root"
           /\ rootfs_flash_mode = "MTD" => oldroot \in {"umounted", "ro"}]_vars
  BY RootfsWritten DEF IInv, BoxInv, Stopping, Flashing
<1>2. QED
  BY <1>1, Invariance, PTL DEF Spec, RunningRootReleased

(* A rootfs is unpacked on the mounted partition only.                     *)
THEOREM OnPartition == Spec => UnpackedOnPartition
<1>1. IInv /\ [Next]_vars =>
        [Unpack /\ rootfs' # rootfs /\ pc = "rootfs" => remount]_vars
  BY RootfsWritten DEF IInv, FlashInv
<1>2. QED
  BY <1>1, Invariance, PTL DEF Spec, UnpackedOnPartition

------------------------------------------------------------------------------
(***************************************************************************)
(* Where the mounts are while the old root is being left: those in a       *)
(* system directory have been moved, if none covers another, and before    *)
(* the others are detached the mount of the image files is back in its     *)
(* place.                                                                  *)
(***************************************************************************)
SystemMoved ==
  NothingHidden(layout.table) =>
    \A i \in DOMAIN layout.table :
      (\E d \in SystemDirs : Inside(layout.table[i].dir, d))
        => placed[i] = layout.table[i].dir

MountInv ==
  /\ pc \in {"move_mounts", "move_media", "move_image", "detach"}
       => Carried(layout.table, placed)
  /\ pc \in {"move_media", "move_image", "detach"} => SystemMoved
  /\ pc = "detach" /\ OnMountOfItsOwn => ImageInPlace
  /\ ImageTakenAlong

(* The table is one, and the path of the image lies on one of its mounts.  *)
LEMMA LayoutFacts ==
  ASSUME layout \in Layouts
  PROVE  /\ IsTable(layout.table)
         /\ \E N \in Nat : DOMAIN layout.table = 1 .. N
         /\ ImageMount \in DOMAIN layout.table
         /\ layout.table[ImageMount].dir \in Paths
         /\ layout.table[ImageMount].dir # Newroot
<1> DEFINE t == layout.table
<1>1. /\ t \in Seq(Mounts) /\ layout.image \in Seq(STRING)
      /\ \E i \in DOMAIN t : t[i].dir = Root
      /\ ~Inside(layout.image, Newroot)
      /\ \A i \in DOMAIN t : ~Inside(t[i].dir, OldRoot)
  BY LayoutsAssumption
<1>2. Len(t) \in Nat /\ DOMAIN t = 1 .. Len(t) /\ \A i \in DOMAIN t : t[i] \in Mounts
  BY <1>1, LenProperties, ElementOfSeq
<1>3. layout.image \in Paths /\ \A p \in Seq(STRING) : p \in Paths
  BY <1>1, SeqMonotonic DEF Paths, Names
<1>4. \A i \in DOMAIN t : t[i].dir \in Paths
  BY <1>2, <1>3 DEF Mounts
<1>5. PICK r \in DOMAIN t : t[r].dir = Root
  BY <1>1
<1>6. Inside(layout.image, t[r].dir)
  <2>1. Root \in Paths /\ Len(Root) = 0 /\ Len(layout.image) \in Nat
    BY <1>3, LenProperties, NewrootPath DEF Root, Paths
  <2> QED
    BY <1>3, <1>5, <2>1, InsideNames
<1>7. ImageMount \in DOMAIN t /\ Inside(layout.image, t[ImageMount].dir)
  <2> HIDE DEF t
  <2> QED
    BY <1>2, <1>3, <1>4, <1>6, OnMount DEF ImageMount, t
<1> QED
  BY <1>1, <1>2, <1>4, <1>7 DEF IsTable

(* The directories that are moved are paths.                               *)
LEMMA MovedPaths == SystemDirs \subseteq Paths /\ <<"media">> \in Paths
<1>1. /\ "dev" \in Names /\ "proc" \in Names /\ "sys" \in Names /\ "var" \in Names
      /\ "volatile" \in Names /\ "media" \in Names
  BY DEF Names
<1>2. <<"var", "volatile">> \in Seq(Names)
  BY <1>1
<1> QED
  BY <1>1, <1>2, NamePath DEF SystemDirs, Paths

(* What is needed besides the two roots is in a directory that is moved.   *)
LEMMA NeededInside ==
  ASSUME NEW d \in Needed, d # Root, d # Newroot
  PROVE  \E s \in SystemDirs : Inside(d, s)
<1>1. SystemDirs \subseteq Paths /\ SystemDirs \subseteq Needed
  BY MovedPaths DEF SystemDirs, Needed
<1>2. CASE d \in SystemDirs
  BY <1>1, <1>2, InsideNames, LenProperties DEF Paths
<1>3. CASE d = <<"dev", "pts">>
  <2>1. "dev" \in Names /\ "pts" \in Names
    BY DEF Names
  <2>2. d \in Paths /\ Len(d) = 2 /\ d[1] = "dev"
    BY <1>3, <2>1 DEF Paths
  <2>3. /\ <<"dev">> \in Paths /\ Len(<<"dev">>) = 1 /\ <<"dev">>[1] = "dev"
        /\ <<"dev">> \in SystemDirs
    BY <1>1 DEF SystemDirs
  <2> DEFINE s == <<"dev">>
  <2>4. s \in Paths /\ Len(s) = 1 /\ s[1] = d[1] /\ s \in SystemDirs
    BY <2>2, <2>3
  <2> HIDE DEF s
  <2>5. Len(s) <= Len(d) /\ \A k \in 1 .. Len(s) : d[k] = s[k]
    BY <2>2, <2>4
  <2>6. Inside(d, s)
    BY <2>2, <2>4, <2>5, InsideNames
  <2> QED
    BY <2>4, <2>6
<1> QED
  BY <1>2, <1>3 DEF Needed, SystemDirs

(* The new root is in none of the directories that are moved.              *)
LEMMA NotInNewroot ==
  ASSUME NEW s \in SystemDirs
  PROVE  ~Inside(Newroot, s)
<1>1. s \in Paths /\ Newroot \in Paths /\ s[1] \in {"dev", "proc", "sys", "var"}
  BY MovedPaths, NewrootPath DEF SystemDirs
<1>2. Len(s) \in {1, 2} /\ Newroot[1] = "newroot"
  BY DEF SystemDirs, Newroot
<1>3. Inside(Newroot, s) => Newroot[1] = s[1]
  BY <1>1, <1>2, InsideNames
<1> QED
  BY <1>1, <1>2, <1>3

(* What is moved after that are paths, too.                                *)
LEMMA MovedTo ==
  ASSUME TypeOK, MoveMedia \/ MoveImage
  PROVE  \/ placed' = placed
         \/ \E dirs \in SUBSET Paths : placed' = MovedToNew(layout.table, placed, dirs)
<1>1. CASE MoveMedia
  BY <1>1, MovedPaths DEF MoveMedia, Replaced
<1>2. CASE MoveImage
  <2>1. placed' = placed \/ placed' = MovedToNew(layout.table, placed, {ImageMountPoint})
    BY <1>2 DEF MoveImage, Replaced
  <2> DEFINE matching == Matching(layout.table, ImageDev)
  <2>2. ImageMountPoint \in Paths
    <3>1. matching \subseteq Nat /\ matching \subseteq DOMAIN layout.table
      BY LayoutFacts DEF TypeOK, Matching, IsTable
    <3>2. CASE matching = {}
      BY <3>2, NewrootPath DEF ImageMountPoint, RootfsMountPoint
    <3>3. CASE matching # {}
      <4>1. \E i \in matching : \A j \in matching : i >= j
        <5>1. PICK N \in Nat : DOMAIN layout.table = 1 .. N
          BY LayoutFacts DEF TypeOK
        <5> QED
          BY <3>1, <3>3, <5>1, GreatestNumber
      <4>2. (CHOOSE i \in matching : \A j \in matching : i >= j) \in matching
        BY <4>1
      <4> QED
        BY <3>1, <3>3, <4>2, LayoutFacts
           DEF ImageMountPoint, RootfsMountPoint, IsTable, TypeOK
    <3> QED
      BY <3>2, <3>3
  <2> QED
    BY <2>1, <2>2
<1> QED
  BY <1>1, <1>2

(* The mount of the image is the only one that readProcMounts() matches.   *)
LEMMA ImageMatched ==
  ASSUME layout \in Layouts, OnMountOfItsOwn
  PROVE  /\ Matching(layout.table, ImageDev) = {ImageMount}
         /\ ImageMountPoint = layout.table[ImageMount].dir
<1> DEFINE m == ImageMount
           t == layout.table
           matching == Matching(t, ImageDev)
<1>1. /\ IsTable(t) /\ m \in DOMAIN t /\ t[m].dir # Newroot /\ t[m].dir # Root
      /\ NothingHidden(t)
      /\ t[m].dev = ImageDev /\ \A i \in DOMAIN t : t[i].dev = ImageDev => i = m
  BY LayoutFacts DEF OnMountOfItsOwn, ImageDev
<1> HIDE DEF m
<1>2. matching = {m}
  <2>1. ASSUME NEW i \in DOMAIN t, HasDevice(t, i, ImageDev) PROVE i = m
    <3>1. PICK N \in Nat : DOMAIN t = 1 .. N
      BY LayoutFacts
    <3>2. Inside(t[i].dir, t[i].dir)
      BY <1>1, InsideNames, LenProperties DEF IsTable, Paths
    <3> DEFINE k == MountOf(t, t[i].dir)
    <3> HIDE DEF t
    <3>3. k \in DOMAIN t /\ Inside(t[i].dir, t[k].dir) /\ k >= i
      BY <3>1, <3>2, OnMount
    <3>4. t[i].dev = ImageDev \/ t[k].dev = ImageDev
      BY <2>1 DEF HasDevice
    <3>5. i = m \/ k = m
      BY <1>1, <3>3, <3>4
    <3> HIDE DEF k
    <3>6. ~(i < k) \/ k # m
      BY <1>1, <3>3 DEF NothingHidden
    <3> QED
      BY <3>1, <3>3, <3>5, <3>6
  <2>2. HasDevice(t, m, ImageDev)
    BY <1>1 DEF HasDevice
  <2> QED
    BY <1>1, <2>1, <2>2 DEF Matching
<1>3. (CHOOSE i \in {m} : \A j \in {m} : i >= j) = m
  <2>1. m \in Nat
    BY <1>1 DEF IsTable
  <2> QED
    BY <2>1
<1> QED
  BY <1>2, <1>3 DEF ImageMountPoint, RootfsMountPoint, m

(* Moving the image's own mount brings it to its place: below /media it    *)
(* may be there already, below /var/volatile it is.                        *)
LEMMA ImageMoved ==
  ASSUME TypeOK, MountInv, MoveImage, OnMountOfItsOwn
  PROVE  ImageInPlace'
<1> DEFINE m == ImageMount
           t == layout.table
           D == t[m].dir
<1>1. /\ IsTable(t) /\ m \in DOMAIN t /\ D \in Paths /\ D # Newroot /\ D # Root
      /\ ImageMountPoint = D /\ t[m].movable /\ NothingHidden(t)
      /\ Carried(t, placed) /\ SystemMoved /\ layout' = layout
  BY LayoutFacts, ImageMatched
     DEF TypeOK, MountInv, MoveImage, Step, Replaced, OnMountOfItsOwn
<1>2. /\ DOMAIN placed = DOMAIN t
      /\ placed[m] \in {D, OldRoot \o D}
  BY <1>1 DEF Carried
<1>3. placed' \in {placed, MovedToNew(t, placed, {D})}
  BY <1>1 DEF MoveImage, Replaced
<1>4. {D} \subseteq Paths
  BY <1>1
<1>5. CASE placed[m] = D
  <2>1. MovedToNew(t, placed, {D})[m] = D
    BY <1>1, <1>4, <1>5, MoveCarries
  <2>2. Carried(t, placed')
    BY <1>1, <1>3, <1>4, MoveCarries
  <2> QED
    BY <1>1, <1>3, <1>5, <2>1, <2>2 DEF ImageInPlace, Carried, ImageMount
<1>6. CASE placed[m] = OldRoot \o D
  <2>1. placed[m] # D
    BY <1>1, <1>6, InsideOldRoot DEF IsTable
  <2>2. ~Below(D, <<"var", "volatile">>)
    BY <1>1, <2>1 DEF SystemMoved, SystemDirs, Below
  <2>3. placed' = MovedToNew(t, placed, {D})
    BY <1>1, <2>2 DEF MoveImage, Replaced
  <2>4. CanMove(t, placed, D)
    <3> HIDE DEF m, t
    <3>1. m \in Topmost(placed, D)
      BY <1>1, <1>6, TopmostPlaced
    <3> QED
      BY <1>1, <3>1 DEF CanMove
  <2>5. Inside(D, D)
    BY <1>1, InsideNames, LenProperties DEF Paths
  <2>6. placed'[m] = D /\ Carried(t, placed')
    BY <1>1, <1>4, <2>3, <2>4, <2>5, MoveCarries
  <2> QED
    BY <1>1, <2>6 DEF ImageInPlace, Carried, ImageMount
<1> QED
  BY <1>2, <1>5, <1>6

(* Detaching the rest leaves nothing below the old root: what is neither   *)
(* needed nor the image's has been listed.                                 *)
LEMMA RestDetached ==
  ASSUME TypeOK, MountInv, DetachUnneeded, OnMountOfItsOwn
  PROVE  (ImageInPlace /\ OldRootFree(placed))'
<1> DEFINE m == ImageMount
           t == layout.table
           listed == Unneeded(t, ImageDev)
<1>1. /\ IsTable(t) /\ m \in DOMAIN t /\ t[m].dir # Newroot
      /\ Matching(t, ImageDev) = {m} /\ NothingHidden(t)
      /\ Carried(t, placed) /\ SystemMoved /\ layout' = layout
      /\ ImageInPlace /\ placed' = Detached(placed, listed)
  BY LayoutFacts, ImageMatched
     DEF TypeOK, MountInv, DetachUnneeded, Step, Replaced, OnMountOfItsOwn
<1>2. listed \subseteq Paths
  BY <1>1 DEF Unneeded, IsTable
<1> HIDE DEF listed
<1>3. /\ DOMAIN placed' \subseteq DOMAIN t
      /\ \A i \in DOMAIN placed' :
           /\ placed'[i] = placed[i]
           /\ t[i].dir # Newroot /\ t[i].dir \in listed => placed[i] = t[i].dir
      /\ \A i \in DOMAIN t : placed[i] = t[i].dir => i \in DOMAIN placed'
  BY <1>1, <1>2, DetachesListed
<1>4. placed[m] = t[m].dir
  BY <1>1 DEF ImageInPlace
<1>5. ImageInPlace'
  BY <1>1, <1>3, <1>4 DEF ImageInPlace, ImageMount
<1>6. ASSUME NEW i \in DOMAIN placed' PROVE ~Below(placed'[i], OldRoot)
  <2>1. i \in DOMAIN t /\ placed'[i] = placed[i] /\ ~Inside(t[i].dir, OldRoot)
    BY <1>1, <1>3 DEF IsTable
  <2>2. CASE t[i].dir = Newroot
    <3>1. placed[i] = Root
      BY <1>1, <2>1, <2>2 DEF Carried
    <3>2. Len(Root) = 0 /\ Len(OldRoot) = 1
      BY DEF Root, OldRoot
    <3> QED
      BY <2>1, <3>1, <3>2 DEF Below, Inside
  <2>3. CASE placed[i] = t[i].dir
    BY <2>1, <2>3 DEF Below
  <2>4. CASE t[i].dir # Newroot /\ placed[i] # t[i].dir
    <3>1. placed[i] = OldRoot \o t[i].dir
      BY <1>1, <2>1, <2>4 DEF Carried
    <3>2. i # m /\ t[i].dir \notin listed
      BY <1>3, <1>4, <2>4
    <3>3. t[i].dir \in Needed
      BY <1>1, <2>1, <3>2 DEF Unneeded, listed
    <3>4. \A d \in SystemDirs : ~Inside(t[i].dir, d)
      BY <1>1, <2>1, <2>4 DEF SystemMoved
    <3>5. t[i].dir = Root
      BY <2>4, <3>3, <3>4, NeededInside DEF Needed
    <3>6. placed[i] = OldRoot
      BY <3>1, <3>5 DEF Root, OldRoot
    <3> QED
      BY <2>1, <3>6 DEF Below
  <2> QED
    BY <2>2, <2>3, <2>4
<1> QED
  BY <1>5, <1>6 DEF OldRootFree

(* Only these steps are taken while the old root is being left, ...        *)
Placing == {"move_mounts", "move_media", "move_image", "detach", "umount"}

(* ... and only they change what the invariant speaks of.                  *)
LEMMA PlacingSteps ==
  ASSUME [Next]_vars, pc' \in Placing
  PROVE  \/ PivotRoot \/ MoveMounts \/ MoveMedia \/ MoveImage \/ DetachUnneeded
         \/ pc' = pc /\ layout' = layout /\ placed' = placed
<1> USE DEF Placing, Step, Goto, Exit, Reboot
<1>1. CASE Start \/ KernelOnly \/ Daemonize \/ PrepareNewroot \/ Init2
  BY <1>1 DEF Start, KernelOnly, Daemonize, PrepareNewroot, Init2
<1>2. CASE PollE2 \/ E2NotStopped
  BY <1>2 DEF PollE2, E2NotStopped
<1>3. CASE UmountOldroot \/ RemountForUnpack \/ RemountReadOnly
  BY <1>3 DEF UmountOldroot, RemountForUnpack, RemountReadOnly
<1>4. CASE MountNotNeeded \/ MountRootfs \/ FormatRootfs
  BY <1>4 DEF MountNotNeeded, MountRootfs, FormatRootfs
<1>5. CASE \/ FlashRootfsOk \/ FlashRootfsNor \/ FlashRootfsFails \/ FlashRootfsDies
           \/ FlashRootfsCrashes \/ UbiformatAsks \/ UbiformatAnswered
  BY <1>5 DEF FlashRootfsOk, FlashRootfsNor, FlashRootfsFails, FlashRootfsDies,
              FlashRootfsCrashes, UbiformatAsks, UbiformatAnswered, FailAfterFlashing
<1>6. CASE \/ FlashKernelOk \/ FlashKernelFails \/ BootImage \/ BootImageCrashes
           \/ DreamcardFails \/ Finish
  BY <1>6 DEF FlashKernelOk, FlashKernelFails, FailAfterFlashing, BootImage,
              BootImageCrashes, DreamcardFails, Finish
<1>7. CASE E2Stops \/ E2Starts \/ RunAgain \/ UNCHANGED vars
  BY <1>7 DEF E2Stops, E2Starts, RunAgain, vars, boxVars, mountVars
<1> QED
  BY <1>1, <1>2, <1>3, <1>4, <1>5, <1>6, <1>7 DEF Next, Program, Ended

(* Leaving the old root keeps track of every mount.                        *)
LEMMA MountNext == TypeOK /\ MountInv /\ [Next]_vars => MountInv'
<1> SUFFICES ASSUME TypeOK, MountInv, [Next]_vars PROVE MountInv'
  OBVIOUS
<1>1. layout \in Layouts /\ IsTable(layout.table)
  BY LayoutFacts DEF TypeOK
<1>2. CASE PivotRoot
  <2>1. layout' = layout /\ pc' \in {"move_mounts", "exited"}
    BY <1>2 DEF PivotRoot, Goto, Exit
  <2>2. pc' = "move_mounts" => placed' = Pivoted(layout.table)
    BY <1>2 DEF PivotRoot, Exit
  <2> QED
    BY <2>1, <2>2, PivotCarries DEF MountInv, ImageTakenAlong
<1>3. CASE MoveMounts
  <2>1. layout' = layout /\ pc = "move_mounts" /\ pc' \in {"move_media", "rebooted"}
    BY <1>3 DEF MoveMounts, Step, Goto, Reboot
  <2>2. Carried(layout.table, placed)
    BY <2>1 DEF MountInv
  <2>3. ASSUME pc' = "move_media"
        PROVE  SystemDirsMove /\ placed' = MovedToNew(layout.table, placed, SystemDirs)
    BY <1>3, <2>3 DEF MoveMounts, Reboot
  <2>4. ASSUME pc' = "move_media" PROVE Carried(layout.table, placed')
    BY <1>1, <2>2, <2>3, <2>4, MoveCarries, MovedPaths
  <2>5. ASSUME pc' = "move_media", NothingHidden(layout.table),
               NEW i \in DOMAIN layout.table,
               NEW d \in SystemDirs, Inside(layout.table[i].dir, d)
        PROVE  placed'[i] = layout.table[i].dir
    <3>1. layout.table[i].dir # Newroot /\ d # Root
      BY <2>5, NotInNewroot DEF SystemDirs, Root
    <3> QED
      BY <1>1, <2>2, <2>3, <2>5, <3>1, MoveCarries, MovedPaths DEF SystemDirsMove
  <2> QED
    BY <2>1, <2>4, <2>5 DEF MountInv, SystemMoved, ImageTakenAlong
<1>4. CASE MoveMedia \/ MoveImage
  <2>1. /\ layout' = layout /\ pc \in {"move_media", "move_image"}
        /\ pc' = IF pc = "move_media" THEN "move_image" ELSE "detach"
    BY <1>4 DEF MoveMedia, MoveImage, Replaced, Step, Goto
  <2>2. Carried(layout.table, placed) /\ SystemMoved
    BY <2>1 DEF MountInv
  <2>3. \/ placed' = placed
        \/ \E dirs \in SUBSET Paths : placed' = MovedToNew(layout.table, placed, dirs)
    BY <1>4, MovedTo
  <2>4. Carried(layout.table, placed')
    BY <1>1, <2>2, <2>3, MoveCarries
  <2>5. ASSUME NothingHidden(layout.table), NEW i \in DOMAIN layout.table,
               NEW d \in SystemDirs, Inside(layout.table[i].dir, d)
        PROVE  placed'[i] = layout.table[i].dir
    <3>1. layout.table[i].dir # Newroot /\ placed[i] = layout.table[i].dir
      BY <2>2, <2>5, NotInNewroot DEF SystemMoved
    <3> QED
      BY <1>1, <2>2, <2>3, <3>1, MoveCarries
  <2>6. pc' = "detach" /\ OnMountOfItsOwn => ImageInPlace'
    BY <1>4, <2>1, ImageMoved DEF MoveMedia, Step
  <2>7. OnMountOfItsOwn' = OnMountOfItsOwn
    BY <2>1 DEF OnMountOfItsOwn, ImageMount, ImageDev
  <2> QED
    BY <2>1, <2>4, <2>5, <2>6, <2>7 DEF MountInv, SystemMoved, ImageTakenAlong
<1>5. CASE DetachUnneeded
  <2>1. layout' = layout /\ pc' = "umount"
    BY <1>5 DEF DetachUnneeded, Replaced, Goto
  <2>2. OnMountOfItsOwn' = OnMountOfItsOwn
    BY <2>1 DEF OnMountOfItsOwn, ImageMount, ImageDev
  <2> QED
    BY <1>5, <2>1, <2>2, RestDetached DEF MountInv, ImageTakenAlong
<1>6. CASE pc' = pc /\ layout' = layout /\ placed' = placed
  BY <1>6 DEF MountInv, SystemMoved, ImageTakenAlong, OnMountOfItsOwn, ImageMount, ImageDev,
              ImageInPlace
<1>7. CASE pc' \notin Placing
  BY <1>7 DEF Placing, MountInv, ImageTakenAlong
<1> QED
  BY <1>2, <1>3, <1>4, <1>5, <1>6, <1>7, PlacingSteps

(***************************************************************************)
(* When the old root has been left, the image files are where they were    *)
(* and nothing keeps the old root from being unmounted, for every list of  *)
(* mounts, nested in whatever way, of which none covers another.           *)
(***************************************************************************)
THEOREM TakenAlong == Spec => []ImageTakenAlong
<1>1. Init => TypeOK /\ MountInv
  <2>1. Init => pc = "start"
    BY DEF Init
  <2> QED
    BY <2>1, TypeInit DEF MountInv, ImageTakenAlong
<1>2. (TypeOK /\ MountInv) /\ [Next]_vars => (TypeOK /\ MountInv)'
  BY TypeNext, MountNext
<1>3. TypeOK /\ MountInv => ImageTakenAlong
  BY DEF MountInv
<1> QED
  BY <1>1, <1>2, <1>3, PTL DEF Spec
==============================================================================
