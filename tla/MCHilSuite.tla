---------------------------- MODULE MCHilSuite ----------------------------
(* HilSuite, and the firmware's calls, with replies of two bytes, a code of two *)
(* bytes and a line end, and one that is longer than the scan buffer.           *)
EXTENDS HilSuite

\* The first fits the buffer even behind two late replies.
Lengths == <<2, 7>>

\* Nothing is claimed of a link that lost a byte: a behaviour ends there. A suite
\* ends when more than MaxMishaps replies were missed or reads broken, the
\* firmware when a code was cut and there is no trigger left to make good for it.
MaxMishaps == 2
Bounded ==
  /\ ~lost
  /\ unheard + (IF faulty THEN 1 ELSE 0) <= MaxMishaps
  /\ Firmware => ~cut \/ own \/ calls < MaxCalls

=============================================================================
