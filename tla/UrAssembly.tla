---------------------------- MODULE UrAssembly ----------------------------
(***************************************************************************)
(* What UrDecoder (decoder.rs) promises to who feeds it the parts of a     *)
(* code: once a part was fed for every place of the first fragment's       *)
(* message, in whatever order and with whatever other codes between them,  *)
(* a payload is returned, made of the first part fed for each place.       *)
(*                                                                         *)
(* Parts belong together when their hashes are equal.  Their totals are    *)
(* not compared (decoder.rs:224-231): a part that names another total is   *)
(* taken like any other.  And the payload is returned again by every later *)
(* part with the hash, a duplicate too.                                    *)
(***************************************************************************)
EXTENDS Integers

CONSTANTS
  Hash, Data, MaxTotal,  \* what fragments may carry
  NoHash                 \* no fragment was fed yet

VARIABLES
  message,  \* the hash and the number of parts, or NoMessage
  fed,      \* the first part fed for each place: pairs of index and data
  out       \* the payload returned by the last call, or <<>>

vars == <<message, fed, out>>

NoMessage == [hash |-> NoHash, total |-> 0]
Message == [hash : Hash, total : 1 .. MaxTotal]

Assembled(total, parts) ==
  {payload \in [1 .. total -> Data] : \A i \in 1 .. total : <<i, payload[i]>> \in parts}

Complete(total, parts) == \A i \in 1 .. total : \E d \in Data : <<i, d>> \in parts

Init == message = NoMessage /\ fed = {} /\ out = <<>>

\* The first fragment says which message it is.  Later ones need its hash only;
\* an index beyond its end, and a second part for a place, change nothing.
Accept(m, i, d) ==
  /\ message' = IF message = NoMessage THEN m ELSE message
  /\ message'.hash = m.hash
  /\ fed' = IF i <= message'.total /\ \A e \in Data : <<i, e>> \notin fed
              THEN fed \cup {<<i, d>>} ELSE fed
  /\ IF Complete(message'.total, fed')
       THEN out' \in Assembled(message'.total, fed')
       ELSE out' = <<>>

Reject == out' = <<>> /\ UNCHANGED <<message, fed>>

Reset == message' = NoMessage /\ fed' = {} /\ UNCHANGED out

Next ==
  \/ \E m \in Message, i \in 1 .. MaxTotal, d \in Data : Accept(m, i, d)
  \/ Reject
  \/ Reset

Spec == Init /\ [][Next]_vars

============================================================================
