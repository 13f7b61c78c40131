-------------------------- MODULE UrDecoderProofs --------------------------
(***************************************************************************)
(* UrDecoder implements UrAssembly, for any number of messages, parts and  *)
(* contents: the counter of received parts decides when a payload is       *)
(* returned, so what has to be shown is that it counts.                    *)
(***************************************************************************)
EXTENDS UrDecoder, FiniteSetTheorems, TLAPS

IInv == UrTypeOK /\ PartsCounted

USE UrAssumption

\* n places hold n parts when none is empty, and only then.
LEMMA Counting ==
  ASSUME NEW n \in Nat, NEW P \in SUBSET (1 .. n)
  PROVE  /\ IsFiniteSet(P)
         /\ Cardinality(P) \in 0 .. n
         /\ Cardinality(P) = n <=> P = 1 .. n
<1>0. 1 \in Int /\ n \in Int
  OBVIOUS
<1>1. IsFiniteSet(1 .. n)
  BY <1>0, FS_Interval
<1>2. Cardinality(1 .. n) = IF 1 > n THEN 0 ELSE n - 1 + 1
  BY <1>0, FS_Interval
<1>3. Cardinality(1 .. n) = n
  BY <1>2
<1>4. /\ IsFiniteSet(P)
      /\ Cardinality(P) <= Cardinality(1 .. n)
      /\ Cardinality(1 .. n) = Cardinality(P) => 1 .. n = P
  BY <1>1, FS_Subset
<1>5. Cardinality(P) \in Nat
  BY <1>4, FS_CardinalityType
<1> QED
  BY <1>3, <1>4, <1>5

Places(parts, n) == {i \in 1 .. n : parts[i] # NoPart}

\* Whether it is the first fragment or a later one, what feed goes on with
\* counts its parts.
LEMMA BegunCounts ==
  ASSUME IInv, NEW f \in Fragment, Parses(f), Begun(f).hash = f.hash
  PROVE  /\ Begun(f).total \in 1 .. MaxTotal
         /\ Begun(f).fragments \in [1 .. Begun(f).total -> Data \cup {NoPart}]
         /\ received = Cardinality(Places(Begun(f).fragments, Begun(f).total))
         /\ \A i \in 1 .. Begun(f).total :
              Begun(f).fragments[i] # NoPart => <<i, Begun(f).fragments[i]>> \in fed
         /\ \A i \in 1 .. MaxTotal, d \in Data :
              <<i, d>> \in fed => i \in Places(Begun(f).fragments, Begun(f).total)
<1>1. f.index \in 0 .. MaxTotal /\ f.total \in 1 .. MaxTotal /\ f.hash \in Hash
  BY DEF Fragment, Parses
<1>2. CASE total = 0
  <2>1. /\ Begun(f).total = f.total
        /\ Begun(f).fragments = [i \in 1 .. f.total |-> NoPart]
    BY <1>2 DEF Begun
  <2>2. Places(Begun(f).fragments, Begun(f).total) = {}
    BY <2>1 DEF Places
  <2>3. received = 0
    BY <1>2 DEF IInv, UrTypeOK
  <2>4. Present = {}
    BY <1>2 DEF Present
  <2>5. \A i \in 1 .. MaxTotal, d \in Data : <<i, d>> \notin fed
    BY <2>4 DEF IInv, PartsCounted
  <2> QED
    BY <1>1, <2>1, <2>2, <2>3, <2>5, FS_EmptySet
<1>3. CASE total # 0
  <2>1. Begun(f).total = total /\ Begun(f).fragments = fragments
    BY <1>3 DEF Begun
  <2>2. total \in 1 .. MaxTotal
    BY <1>3 DEF IInv, UrTypeOK
  <2>3. Places(fragments, total) = Present
    BY DEF Places, Present
  <2> QED
    BY <2>1, <2>2, <2>3 DEF IInv, UrTypeOK, PartsCounted
<1> QED
  BY <1>2, <1>3

\* A fragment that is not rejected leaves the parts counted, and a payload is
\* returned exactly when there is none missing.
LEMMA FeedAccepts ==
  ASSUME IInv, NEW f \in Fragment, Parses(f), Begun(f).hash = f.hash, Fed(f)
  PROVE  /\ IInv'
         /\ received' = total' <=> Present' = 1 .. total'
         /\ received' = total' => fragments' \in [1 .. total' -> Data]
<1> DEFINE n == Begun(f).total
           parts == Begun(f).fragments
           P == Places(parts, n)
<1>1. /\ total' = n
      /\ hash' = f.hash
      /\ HasRoomFor(f, parts) =>
           /\ fragments' = [parts EXCEPT ![f.index] = f.data]
           /\ received' = received + 1
      /\ ~HasRoomFor(f, parts) => fragments' = parts /\ received' = received
      /\ out' = IF received' = total' THEN fragments' ELSE <<>>
      /\ fed' = IF f.index <= total' /\ \A d \in Data : <<f.index, d>> \notin fed
                   THEN fed \cup {<<f.index, f.data>>} ELSE fed
  BY DEF Fed, feed, Recorded
<1>2. f.index \in 1 .. MaxTotal /\ f.hash \in Hash /\ f.data \in Data
  BY DEF Fragment, Parses
<1>3. /\ n \in 1 .. MaxTotal
      /\ parts \in [1 .. n -> Data \cup {NoPart}]
      /\ received = Cardinality(P)
      /\ \A i \in 1 .. n : parts[i] # NoPart => <<i, parts[i]>> \in fed
      /\ \A i \in 1 .. MaxTotal, d \in Data : <<i, d>> \in fed => i \in P
  BY BegunCounts
<1>4. n \in Nat /\ P \in SUBSET (1 .. n)
  BY <1>3 DEF Places
<1>5. fed \subseteq (1 .. MaxTotal) \X Data /\ out' = out' /\ received \in Nat
  BY <1>3, <1>4, Counting DEF IInv, UrTypeOK
<1> HIDE DEF n, parts, P
<1>6. /\ fragments' \in [1 .. n -> Data \cup {NoPart}]
      /\ received' = Cardinality(Present')
      /\ \A i \in 1 .. n : fragments'[i] # NoPart => <<i, fragments'[i]>> \in fed'
      /\ \A i \in 1 .. MaxTotal, d \in Data : <<i, d>> \in fed' => i \in Present'
  <2>1. CASE HasRoomFor(f, parts)
    <3>1. f.index \in 1 .. n /\ parts[f.index] = NoPart
      BY <2>1, <1>3 DEF HasRoomFor
    <3>2. fragments' = [parts EXCEPT ![f.index] = f.data] /\ received' = received + 1
      BY <2>1, <1>1
    <3>3. fed' = fed \cup {<<f.index, f.data>>}
      <4>1. \A d \in Data : <<f.index, d>> \notin fed
        BY <3>1, <1>2, <1>3 DEF P, Places
      <4> QED
        BY <4>1, <3>1, <1>1, <1>3
    <3>4. Present' = P \cup {f.index}
      <4>1. \A i \in 1 .. n : fragments'[i] = IF i = f.index THEN f.data ELSE parts[i]
        BY <3>2, <1>3
      <4>2. f.data # NoPart
        BY <1>2
      <4> QED
        BY <4>1, <4>2, <3>1, <1>1 DEF Present, P, Places
    <3>5. f.index \notin P
      BY <3>1 DEF P, Places
    <3>6. Cardinality(Present') = Cardinality(P) + 1
      BY <3>4, <3>5, <1>4, Counting, FS_AddElement
    <3>7. \A i \in 1 .. n : fragments'[i] # NoPart => <<i, fragments'[i]>> \in fed'
      BY <3>2, <3>3, <1>3
    <3>8. fragments' \in [1 .. n -> Data \cup {NoPart}]
      BY <3>2, <1>2, <1>3
    <3>9. \A i \in 1 .. MaxTotal, d \in Data : <<i, d>> \in fed' => i \in Present'
      BY <3>3, <3>4, <1>3
    <3> QED
      BY <3>2, <3>6, <3>7, <3>8, <3>9, <1>3
  <2>2. CASE ~HasRoomFor(f, parts)
    <3>1. fragments' = parts /\ received' = received
      BY <2>2, <1>1
    <3>2. Present' = P
      BY <3>1, <1>1 DEF Present, P, Places
    <3>3. f.index <= n => f.index \in P
      BY <2>2, <1>2, <1>3 DEF HasRoomFor, P, Places
    <3>4. \A i \in 1 .. MaxTotal, d \in Data : <<i, d>> \in fed' => i \in Present'
      BY <3>2, <3>3, <1>1, <1>3
    <3>5. fed \subseteq fed'
      BY <1>1
    <3> QED
      BY <3>1, <3>2, <3>4, <3>5, <1>3
  <2> QED
    BY <2>1, <2>2
<1>7. Present' \in SUBSET (1 .. n)
  BY <1>1 DEF Present
<1>8. received' \in 0 .. n /\ (received' = n <=> Present' = 1 .. n)
  BY <1>4, <1>6, <1>7, Counting
<1>9. received' = n => fragments' \in [1 .. n -> Data]
  <2> SUFFICES ASSUME received' = n  PROVE fragments' \in [1 .. n -> Data]
    OBVIOUS
  <2>1. \A i \in 1 .. n : fragments'[i] # NoPart
    BY <1>1, <1>8 DEF Present
  <2> QED
    BY <2>1, <1>6
<1>10. UrTypeOK'
  <2>1. total' \in 0 .. MaxTotal /\ hash' \in Hash \cup {NoHash}
    BY <1>1, <1>2, <1>3
  <2>2. (total' = 0) = (hash' = NoHash)
    BY <1>1, <1>2, <1>3
  <2>3. out' = <<>> \/ \E k \in 1 .. MaxTotal : out' \in [1 .. k -> Data]
    BY <1>1, <1>3, <1>9
  <2>4. fed' \subseteq (1 .. MaxTotal) \X Data
    BY <1>1, <1>2, <1>5
  <2> QED
    BY <2>1, <2>2, <2>3, <2>4, <1>1, <1>6, <1>8 DEF UrTypeOK
<1>11. PartsCounted'
  BY <1>1, <1>6 DEF PartsCounted
<1> QED
  BY <1>1, <1>8, <1>9, <1>10, <1>11 DEF IInv

LEMMA InitIInv == Init => IInv
<1> SUFFICES ASSUME Init PROVE IInv
  OBVIOUS
<1>1. Present = {}
  BY DEF Init, Present
<1>2. PartsCounted
  BY <1>1, FS_EmptySet DEF Init, PartsCounted
<1>3. fragments \in [1 .. total -> Data \cup {NoPart}]
  BY DEF Init
<1> QED
  BY <1>2, <1>3 DEF Init, IInv, UrTypeOK

LEMMA ResetIInv == IInv /\ reset => IInv'
<1> SUFFICES ASSUME IInv, reset PROVE IInv'
  OBVIOUS
<1>1. Present' = {}
  BY DEF reset, Present
<1>2. PartsCounted'
  BY <1>1, FS_EmptySet DEF reset, PartsCounted
<1>3. fragments' \in [1 .. total' -> Data \cup {NoPart}]
  BY DEF reset
<1> QED
  BY <1>2, <1>3 DEF reset, IInv, UrTypeOK

LEMMA RejectedIInv == IInv /\ Rejected /\ UNCHANGED fed => IInv'
  BY DEF IInv, Rejected, UrTypeOK, PartsCounted, Present

LEMMA FeedCases ==
  ASSUME NEW f \in Fragment, Fed(f)
  PROVE  (Rejected /\ UNCHANGED fed) \/ (Parses(f) /\ Begun(f).hash = f.hash)
<1>1. CASE ~Parses(f)
  BY <1>1 DEF Fed, feed, Recorded
<1>2. CASE Begun(f).hash # f.hash
  <2>1. Rejected /\ Recorded(f)
    BY <1>2 DEF Fed, feed
  <2>2. hash' # f.hash
    BY <1>2, <2>1 DEF Rejected, Begun
  <2> QED
    BY <2>1, <2>2 DEF Recorded
<1> QED
  BY <1>1, <1>2

LEMMA NextIInv == IInv /\ [Next]_vars => IInv'
<1> SUFFICES ASSUME IInv, [Next]_vars PROVE IInv'
  OBVIOUS
<1>1. CASE reset
  BY <1>1, ResetIInv
<1>2. CASE \E f \in Fragment : Fed(f)
  BY <1>2, FeedCases, FeedAccepts, RejectedIInv
<1>3. CASE UNCHANGED vars
  BY <1>3 DEF vars, IInv, UrTypeOK, PartsCounted, Present
<1> QED
  BY <1>1, <1>2, <1>3 DEF Next

\* In every behaviour the decoder's fields have their types: no more parts than
\* places are counted, and there is a hash as soon as there is a total.
THEOREM DecoderTyped == Spec => []UrTypeOK
<1>1. IInv => UrTypeOK
  BY DEF IInv
<1> QED
  BY <1>1, InitIInv, NextIInv, PTL DEF Spec

\* received is the number of parts present, and each is one that was fed.
THEOREM DecoderCounts == Spec => []PartsCounted
<1>1. IInv => PartsCounted
  BY DEF IInv
<1> QED
  BY <1>1, InitIInv, NextIInv, PTL DEF Spec

LEMMA InitRefines == Init => Promise!Init
  BY DEF Init, Promise!Init, Promise!NoMessage

LEMMA FeedRefines ==
  ASSUME IInv, NEW f \in Fragment, Parses(f), Begun(f).hash = f.hash, Fed(f)
  PROVE  Promise!Accept([hash |-> f.hash, total |-> f.total], f.index, f.data)
<1> DEFINE msg == [hash |-> hash, total |-> total]
           m == [hash |-> f.hash, total |-> f.total]
<1>1. /\ IInv'
      /\ received' = total' <=> Present' = 1 .. total'
      /\ received' = total' => fragments' \in [1 .. total' -> Data]
  BY FeedAccepts
<1>2. /\ total' = Begun(f).total
      /\ hash' = Begun(f).hash
      /\ out' = IF received' = total' THEN fragments' ELSE <<>>
      /\ fed' = IF f.index <= total' /\ \A d \in Data : <<f.index, d>> \notin fed
                   THEN fed \cup {<<f.index, f.data>>} ELSE fed
  BY DEF Fed, feed, Recorded
<1>3. msg = Promise!NoMessage <=> total = 0
  BY DEF IInv, UrTypeOK, Promise!NoMessage
<1>4. msg' = IF msg = Promise!NoMessage THEN m ELSE msg
  BY <1>2, <1>3 DEF Begun
<1>5. msg'.hash = m.hash /\ msg'.total = total'
  BY <1>2
<1>6. Promise!Complete(total', fed') <=> received' = total'
  <2>1. total' \in 0 .. MaxTotal /\ fed' \subseteq (1 .. MaxTotal) \X Data
    BY <1>1 DEF IInv, UrTypeOK
  <2>2. ASSUME NEW i \in 1 .. total'
        PROVE  (\E d \in Data : <<i, d>> \in fed') <=> i \in Present'
    <3>1. i \in 1 .. MaxTotal
      BY <2>1
    <3>2. i \in Present' => fragments'[i] \in Data /\ <<i, fragments'[i]>> \in fed'
      BY <1>1 DEF IInv, UrTypeOK, PartsCounted, Present
    <3>3. \A d \in Data : <<i, d>> \in fed' => i \in Present'
      BY <1>1, <3>1 DEF IInv, PartsCounted
    <3> QED
      BY <3>2, <3>3
  <2>3. Present' \subseteq 1 .. total'
    BY DEF Present
  <2> QED
    BY <1>1, <2>2, <2>3 DEF Promise!Complete
<1>7. received' = total' => out' \in Promise!Assembled(total', fed')
  <2> SUFFICES ASSUME received' = total' PROVE out' \in Promise!Assembled(total', fed')
    OBVIOUS
  <2>1. out' = fragments' /\ fragments' \in [1 .. total' -> Data]
    BY <1>1, <1>2
  <2>2. \A i \in 1 .. total' : <<i, fragments'[i]>> \in fed'
    <3>1. \A i \in 1 .. total' : fragments'[i] # NoPart
      BY <1>1 DEF Present
    <3> QED
      BY <3>1, <1>1 DEF IInv, PartsCounted
  <2> QED
    BY <2>1, <2>2 DEF Promise!Assembled
<1> HIDE DEF msg
<1> QED
  BY <1>2, <1>4, <1>5, <1>6, <1>7 DEF Promise!Accept, msg

LEMMA StepRefines == IInv /\ [Next]_vars => [Promise!Next]_(Promise!vars)
<1> SUFFICES ASSUME IInv, [Next]_vars PROVE [Promise!Next]_(Promise!vars)
  OBVIOUS
<1>1. CASE reset
  <2>1. Promise!Reset
    BY <1>1 DEF reset, Promise!Reset, Promise!NoMessage
  <2> QED
    BY <2>1 DEF Promise!Next
<1>2. CASE Rejected /\ UNCHANGED fed
  <2>1. Promise!Reject
    BY <1>2 DEF Rejected, Promise!Reject
  <2> QED
    BY <2>1 DEF Promise!Next
<1>3. ASSUME NEW f \in Fragment, Fed(f), Parses(f), Begun(f).hash = f.hash
      PROVE  Promise!Next
  <2>1. Promise!Accept([hash |-> f.hash, total |-> f.total], f.index, f.data)
    BY <1>3, FeedRefines
  <2>2. /\ [hash |-> f.hash, total |-> f.total] \in Promise!Message
        /\ f.index \in 1 .. MaxTotal
        /\ f.data \in Data
    BY <1>3 DEF Fragment, Parses, Promise!Message
  <2> QED
    BY <2>1, <2>2 DEF Promise!Next
<1>4. CASE \E f \in Fragment : Fed(f)
  BY <1>2, <1>3, <1>4, FeedCases
<1>5. CASE UNCHANGED vars
  BY <1>5 DEF vars, Promise!vars
<1> QED
  BY <1>1, <1>4, <1>5 DEF Next

\* UrDecoder implements UrAssembly: a payload comes out if and only if each place
\* of the first fragment's message was fed, and has the first part fed for each.
THEOREM DecoderKeepsPromise == Spec => PromiseSpec
<1>1. Spec => []IInv
  BY InitIInv, NextIInv, PTL DEF Spec
<1> QED
  BY <1>1, InitRefines, StepRefines, PTL DEF Spec, PromiseSpec, Promise!Spec

=============================================================================
