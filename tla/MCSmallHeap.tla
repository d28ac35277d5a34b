---------------------------- MODULE MCSmallHeap ----------------------------
(* TLC instances of SmallHeap.  Blocks of three lines can have two holes with *)
(* a live line between them.  Of the smaller objects two start in one line of *)
(* four words, at which a walk looks as far as the third; the larger ones go  *)
(* through either cursor, cover two or three lines, and leave the next object *)
(* at the end of a line, where no walk gets to, or across two.                *)
EXTENDS SmallHeap

MCSizes == {2, 7}
=============================================================================
