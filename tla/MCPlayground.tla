---------------------------- MODULE MCPlayground ----------------------------
(* Playground with two presses of Init, taps that hit the start and settings *)
(* rows of every screen, and the silent policy.                              *)
EXTENDS Playground

\* 200: Start or Stop; 290: Settings, or the row Light on them; 730: Back.
MCTapYs == {200, 290, 730}
MCStartIdxs == {2}

=============================================================================
