--------------------------- MODULE MCSyncFirmware ---------------------------
(* SyncFirmware with three lines.  A tick is the watchdog's six seconds; the *)
(* cycle counter wraps after almost four of them, here after three.          *)
EXTENDS SyncFirmware

=============================================================================
