------------------------------ MODULE MCFloppy ------------------------------
(* Floppy with two drives.                                                  *)
EXTENDS Floppy

(* A block of the first drive, one of the second, and one behind its end.   *)
ThreePlaces == {<<0, 1>>, <<1, 0>>, <<1, NoTrack>>}
=============================================================================
