---------------------------- MODULE MCBaudLadder ----------------------------
(* BaudLadder with a module that may also sit at a rate no rung has. *)
EXTENDS BaudLadder

MCModuleRates == {9600, 19200, 57600, 115200}

=============================================================================
