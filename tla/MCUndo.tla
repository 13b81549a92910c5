-------------------------------- MODULE MCUndo -------------------------------
(* What a macro inserts in the runs: a character, a newline, two lines.     *)
EXTENDS Undo

CONSTANTS x, sp, nl

Short == {<<x>>, <<nl>>}
Lines == {<<x>>, <<nl, x>>}
==============================================================================
