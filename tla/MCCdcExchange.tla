--------------------------- MODULE MCCdcExchange ---------------------------
(* CdcExchange with byte values 0, 1, 2 and a payload limit of 3, whose      *)
(* length is the first that needs both length bytes, as 256 is.  Command 1   *)
(* is known and 2 is not; one payload is longer than the limit.  Payload     *)
(* bytes look like commands and lengths.                                     *)
EXTENDS CdcExchange

MCHostFrames ==
  [command : {1}, payload : {<<>>, <<1>>, <<2, 1, 0>>, <<1, 0, 0, 1>>}]
    \cup [command : {2}, payload : {<<>>, <<0, 2>>}]

=============================================================================
