--------------------------- MODULE MCScannerCore ---------------------------
(* ScannerCore with a three byte buffer and the register values that take  *)
(* every branch: low bits set (3), the raw-mode value (8), the version that *)
(* needs raw mode (0x69) and the configured values (0 and 8).               *)
EXTENDS ScannerCore

MCPayload == {"x"}
MCValue == {0, 3, 8, 105}
MCTarget == [i \in 0 .. 4 |-> 8 * (i % 2)]

=============================================================================
