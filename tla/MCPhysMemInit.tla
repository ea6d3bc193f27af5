---------------------------- MODULE MCPhysMemInit ----------------------------
(***************************************************************************)
(* Memory maps for PhysMemInit: addresses in quarters of a page.           *)
(***************************************************************************)
EXTENDS PhysMemInit

(* The memory below the kernel, and a firmware area at its end.             *)
LowMemory == <<Region(0, 3, TRUE), Region(3, 1, FALSE)>>

(* One region behind that, of any length, whole pages or not.               *)
SmallMachines == {LowMemory \o <<Region(4, len, TRUE)>> : len \in 24 .. 40}

(* A reserved hole, in the map or missing from it, and memory behind it.    *)
HoleMachines ==
    {LowMemory \o <<Region(4, 24, TRUE), Region(28, 4, FALSE), Region(32, len, TRUE)>> :
        len \in {8, 13, 24}} \cup
    {LowMemory \o <<Region(4, 24, TRUE), Region(32, len, TRUE)>> : len \in {8, 13, 24}}

(* All memory the addresses reach, but the last page: the largest PlainMap. *)
FullMachines == {LowMemory \o <<Region(4, len, TRUE)>> : len \in Word - 8 .. Word - PageSize}

(* Memory behind Word, whose addresses lose their upper half: less of it,   *)
(* as much and more than below the hole; and as much as Word itself.        *)
BehindWord(len) == LowMemory \o <<Region(4, 28, TRUE), Region(Word, len, TRUE)>>
LargeMachines == {BehindWord(len) : len \in {8, 16, 28, 48, Word}}

PCMaps == SmallMachines \cup HoleMachines \cup FullMachines \cup LargeMachines
=============================================================================
