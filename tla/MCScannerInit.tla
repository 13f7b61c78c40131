---------------------------- MODULE MCScannerInit ----------------------------
(* ScannerInit with a module that powers up with right and wrong values in  *)
(* the registers that decide a branch.  No scan bytes arrive.               *)
EXTENDS ScannerInit

MCValue == {0, 1, 3, 8, 105}
MCTarget == [i \in 0 .. 4 |-> IF i = 2 THEN 133 ELSE IF i = 0 THEN 20 ELSE 1]

\* ScanInterval is right, QrEnable, SameBarcodeDelay and Settings are wrong.
MCInitialRegs ==
  {[r \in Register |->
      CASE r = "SerialOutput" -> so
        [] r = "Version" -> v
        [] r = "Timeout" -> t
        [] r = "BarType" -> b
        [] r = "ScanInterval" -> 1
        [] OTHER -> 0] :
     so \in {0, 3}, v \in {105, 135}, t \in {0, 20}, b \in {0, 1}}

=============================================================================
