------------------------------- MODULE MCGame --------------------------------
(* Game on a small screen: two rows of two blocks, a short bar with a long    *)
(* step.  The vertical sizes of ball, bar and blocks are the real ones.       *)
EXTENDS Game
==============================================================================
