----------------------------- MODULE UrDecoder -----------------------------
(***************************************************************************)
(* Assembly of multi-part codes (decoder.rs): parse_ur_fragment and the    *)
(* state of UrDecoder, fed with fragments of several messages in any       *)
(* order, again and again, well formed or not.                             *)
(*                                                                         *)
(* The text of a fragment is a record of its fields; the type of the       *)
(* message is left out, because feed does not look at it.                  *)
(***************************************************************************)
EXTENDS Integers, FiniteSets

CONSTANTS
  Hash,      \* hashes fragments carry
  Data,      \* their payloads
  MaxTotal,  \* bound: indices and totals
  NoHash,    \* Option::None of hash and of a part
  NoPart

ASSUME UrAssumption ==
  /\ MaxTotal \in Nat \ {0}
  /\ NoHash \notin Hash
  /\ NoPart \notin Data

VARIABLES
  total,      \* 0 for Option::None
  hash,
  fragments,  \* the vector, from 1
  received,
  out,        \* the payload the last call returned, or <<>> for None
  fed         \* history: the first part fed for each place since the last reset

vars == <<total, hash, fragments, received, out, fed>>

Fragment ==
  [ur : BOOLEAN, index : 0 .. MaxTotal, total : 0 .. MaxTotal, hash : Hash, data : Data]

\* A fragment starts with "ur:" and has an index within its total.
Parses(f) == f.ur /\ f.index # 0 /\ f.total # 0 /\ f.index <= f.total

Init ==
  /\ total = 0
  /\ hash = NoHash
  /\ fragments = <<>>
  /\ received = 0
  /\ out = <<>>
  /\ fed = {}

Reset_KeepsCount ==
  /\ total' = 0
  /\ hash' = NoHash
  /\ fragments' = <<>>
  /\ UNCHANGED <<received, out>>
  /\ fed' = {}
reset ==
  /\ total' = 0
  /\ hash' = NoHash
  /\ fragments' = <<>>
  /\ received' = 0
  /\ UNCHANGED out
  /\ fed' = {}

\* The first fragment sets total and hash, and a vector of that many places.
Begun(f) ==
  IF total = 0
    THEN [total |-> f.total, hash |-> f.hash, fragments |-> [i \in 1 .. f.total |-> NoPart]]
    ELSE [total |-> total, hash |-> hash, fragments |-> fragments]

HasRoomFor_OffByOne(f, parts) == f.index + 1 \in DOMAIN parts /\ parts[f.index] = NoPart
HasRoomFor(f, parts) == f.index \in DOMAIN parts /\ parts[f.index] = NoPart

Rejected ==
  /\ out' = <<>>
  /\ UNCHANGED <<total, hash, fragments, received>>

feed_AnyHash(f) ==
  LET begun == Begun(f) IN
  IF ~Parses(f)
    THEN Rejected
    ELSE /\ total' = begun.total
         /\ hash' = begun.hash
         /\ IF HasRoomFor(f, begun.fragments)
              THEN /\ fragments' = [begun.fragments EXCEPT ![f.index] = f.data]
                   /\ received' = received + 1
              ELSE /\ fragments' = begun.fragments
                   /\ UNCHANGED received
         /\ out' = IF received' = total' THEN fragments' ELSE <<>>
feed(f) ==
  LET begun == Begun(f) IN
  IF ~Parses(f) \/ begun.hash # f.hash
    THEN Rejected
    ELSE /\ total' = begun.total
         /\ hash' = begun.hash
         /\ IF HasRoomFor(f, begun.fragments)
              THEN /\ fragments' = [begun.fragments EXCEPT ![f.index] = f.data]
                   /\ received' = received + 1
              ELSE /\ fragments' = begun.fragments
                   /\ UNCHANGED received
         /\ out' = IF received' = total' THEN fragments' ELSE <<>>

\* What a decoder that keeps to one hash has seen of it, the first part for each
\* place.
Recorded(f) ==
  fed' = IF Parses(f) /\ f.hash = hash' /\ f.index <= total'
              /\ \A d \in Data : <<f.index, d>> \notin fed
           THEN fed \cup {<<f.index, f.data>>} ELSE fed
Fed(f) == feed(f) /\ Recorded(f)

Next == reset \/ \E f \in Fragment : Fed(f)

Spec == Init /\ [][Next]_vars

\* An animated code shows each of its parts again and again.
Shown(h, i) == \E f \in Fragment : f.ur /\ f.hash = h /\ f.index = i /\ f.total >= i /\ Fed(f)
FairSpec == Spec /\ \A h \in Hash, i \in 1 .. MaxTotal : WF_vars(Shown(h, i))

is_complete == total # 0 /\ received = total

----------------------------------------------------------------------------
(* Properties *)

UrTypeOK ==
  /\ total \in 0 .. MaxTotal
  /\ hash \in Hash \cup {NoHash}
  /\ fragments \in [1 .. total -> Data \cup {NoPart}]
  /\ received \in 0 .. total
  /\ out = <<>> \/ \E n \in 1 .. MaxTotal : out \in [1 .. n -> Data]
  /\ fed \subseteq (1 .. MaxTotal) \X Data
  /\ (total = 0) = (hash = NoHash)

\* The parts present are the indices that were fed, each with data it was fed
\* with, and received counts them.
Present == {i \in 1 .. total : fragments[i] # NoPart}
PartsCounted ==
  /\ received = Cardinality(Present)
  /\ \A i \in 1 .. total : fragments[i] # NoPart => <<i, fragments[i]>> \in fed
  /\ \A i \in 1 .. MaxTotal, d \in Data : <<i, d>> \in fed => i \in Present

\* The decoder keeps what UrAssembly promises: a payload is returned if and only
\* if a part with the first fragment's hash was fed for each place, and it has the
\* first of them at each; a duplicate, another hash and a malformed fragment
\* change nothing.  Totals are not compared after the first fragment, and a part
\* that comes when the payload is complete returns it again.
Promise == INSTANCE UrAssembly WITH
  message <- [hash |-> hash, total |-> total], fed <- fed, out <- out
PromiseSpec == Promise!Spec

\* An animated code that is shown over and over is read, if nobody resets:
\* a part is not lost to a place that is out of range or taken.
PartsComplete == total # 0 ~> (is_complete \/ total = 0)

============================================================================
