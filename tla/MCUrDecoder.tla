---------------------------- MODULE MCUrDecoder ----------------------------
(* UrDecoder with two messages of up to four parts. *)
EXTENDS UrDecoder

CONSTANTS h1, h2, d1, d2

MCHash == {h1, h2}
MCData == {d1, d2}

=============================================================================
