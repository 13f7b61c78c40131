-------------------------- MODULE MCAsyncFirmware --------------------------
(* AsyncFirmware with channels that fill up: the real capacities are 8 and 16. *)
EXTENDS AsyncFirmware

=============================================================================
