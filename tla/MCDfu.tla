-------------------------------- MODULE MCDfu --------------------------------
(* A flash of four sectors: the bootloader's (0) and three of the program's. *)
EXTENDS Dfu

FourSectors == 0 .. 3
FirstOfFour == [s \in FourSectors |-> 3 * s]
LastOfFour == [s \in FourSectors |-> 3 * s + 2]
=============================================================================
