---------------------------- MODULE AddressSpaces ----------------------------
(***************************************************************************)
(* What core/interfaces/Memory.h and the memory map in it promise to the   *)
(* rest of the kernel: one kernel half that all address spaces have in     *)
(* common, one user half per process, and a frame of its own behind each   *)
(* page.  Paging.tla is shown to implement this module.                    *)
(*                                                                         *)
(* A space is Kernel or a process, a place a page in a space.  A frame is  *)
(* either free or taken; taken frames that hold tables back no place.      *)
(***************************************************************************)
EXTENDS Naturals

CONSTANTS
    Kernel,         \* the common half
    Process,        \* the processes
    KernelPage, UserPage,
    Frame,
    None            \* a place without a frame

Place == ({Kernel} \X KernelPage) \cup (Process \X UserPage)

VARIABLES
    backing,        \* the frame behind each place
    free            \* the frames nobody has

aVars == <<backing, free>>

AInit ==
    /\ backing = [pl \in Place |-> None]
    /\ free \in SUBSET Frame

(* One operation maps pages of one process, of the common half, or of both,*)
(* to frames that were free, and no two pages to one frame.  A mapping, once*)
(* made, stays: no function of the kernel that takes one away is ever called.*)
Fresh == {pl \in Place : backing'[pl] # backing[pl]}

Map(p) ==
    /\ backing' \in [Place -> Frame \cup {None}]
    /\ free' \in SUBSET free
    /\ \A pl \in Place : pl \in Fresh =>
         /\ pl[1] \in {Kernel, p}
         /\ backing[pl] = None
         /\ backing'[pl] \in free \ free'
         /\ \A other \in Place : other \in Fresh /\ other # pl
              => backing'[other] # backing'[pl]

ANext == \E p \in Process : Map(p)

ASpec == AInit /\ [][ANext]_aVars
-----------------------------------------------------------------------------
ATypeOK ==
    /\ backing \in [Place -> Frame \cup {None}]
    /\ free \in SUBSET Frame

(* No frame is behind two places, whether of one process, of two, or of a  *)
(* process and the kernel, and none that is behind a place is free.        *)
FramesUnshared ==
    \A pl \in Place : backing[pl] # None =>
        /\ backing[pl] \notin free
        /\ \A other \in Place : other # pl => backing[other] # backing[pl]

(* A page shows what it shows from its mapping on, whichever process the   *)
(* kernel maps pages for.                                                  *)
MappingsStay == \A pl \in Place : backing[pl] # None => backing'[pl] = backing[pl]
=============================================================================
