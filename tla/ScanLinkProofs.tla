-------------------------- MODULE ScanLinkProofs --------------------------
(***************************************************************************)
(* Proofs about the byte stream between the module and the drivers         *)
(* (ScanLink) and about the on-device tests that use it (HilSuite).        *)
(*                                                                         *)
(* A step of either specification is a LinkStep: what the module, the line *)
(* and the drivers' calls do does not depend on who makes the calls.  The  *)
(* invariant says what is left of the frames: what the driver and the line *)
(* still hold of a stream from which nothing was lost is whole frames, the *)
(* first one maybe without its beginning.                                  *)
(***************************************************************************)
EXTENDS HilSuite, SequenceTheorems, FiniteSetTheorems, TLAPS

----------------------------------------------------------------------------
(* Frames *)

FrameOf(byte) == byte[1]
At(byte) == byte[2]

\* Bytes of replies and of the first n codes.
Known(s, n) == \A i \in 1 .. Len(s) : FrameOf(s[i]) <= n
\* A frame that has begun goes on to its end,
GoesOn(s) ==
  \A i, j \in 1 .. Len(s) :
    i < j /\ At(s[i]) + (j - i) <= FrameLen(FrameOf(s[i])) =>
      s[j] = <<FrameOf(s[i]), At(s[i]) + (j - i)>>
\* after which another one begins,
Follows(s) ==
  \A i, j \in 1 .. Len(s) : j = i + 1 /\ At(s[i]) = FrameLen(FrameOf(s[i])) => At(s[j]) = 1
\* and the last one is complete.
Ends(s) == Len(s) > 0 => At(s[Len(s)]) = FrameLen(FrameOf(s[Len(s)]))

Framed(s, n) == Known(s, n) /\ GoesOn(s) /\ Follows(s) /\ Ends(s)

Starts(s) == Len(s) > 0 => At(s[1]) = 1

\* t is s without its first k bytes.
Rest(s, k, t) == Len(s) = k + Len(t) /\ \A i \in 1 .. Len(t) : t[i] = s[k + i]

\* A byte has a place in a frame of its size.
LEMMA ByteShape ==
  ASSUME NEW b \in Byte
  PROVE  /\ FrameOf(b) \in 0 .. MaxCodes
         /\ At(b) \in 1 .. FrameLen(FrameOf(b))
         /\ b = <<FrameOf(b), At(b)>>
         /\ OfCode(b) <=> FrameOf(b) # 0
         /\ IsEol(b) <=> FrameOf(b) # 0 /\ At(b) = FrameLen(FrameOf(b))
  <1>1. PICK f \in 0 .. MaxCodes : b \in {f} \X (1 .. FrameLen(f))
    BY DEF Byte
  <1> QED
    BY <1>1 DEF FrameOf, At, OfCode, IsEol

LEMMA FrameLenPositive ==
  ASSUME NEW f \in 0 .. MaxCodes
  PROVE  FrameLen(f) \in Nat \ {0}
  <1>1. f # 0 => f \in 1 .. MaxCodes
    BY LinkAssumption
  <1> QED
    BY <1>1, LinkAssumption DEF FrameLen

\* What is left of a framed stream is framed.
LEMMA RestFramed ==
  ASSUME NEW s \in Seq(Byte), NEW t \in Seq(Byte), NEW k \in Nat, NEW n \in Nat,
         Rest(s, k, t), Framed(s, n)
  PROVE  Framed(t, n)
  <1> DEFINE S == Len(s)  T == Len(t)
  <1>0. S \in Nat /\ T \in Nat /\ S = k + T
    BY LenProperties DEF Rest
  <1>1. \A i \in 1 .. T : k + i \in 1 .. S /\ t[i] = s[k + i] /\ s[k + i] \in Byte
    BY <1>0, ElementOfSeq DEF Rest
  <1>2. Known(t, n)
    BY <1>1 DEF Framed, Known
  <1>3. GoesOn(t)
    <2> SUFFICES ASSUME NEW i \in 1 .. T, NEW j \in 1 .. T, i < j,
                        At(t[i]) + (j - i) <= FrameLen(FrameOf(t[i]))
                 PROVE  t[j] = <<FrameOf(t[i]), At(t[i]) + (j - i)>>
      BY DEF GoesOn
    <2>1. k + i < k + j /\ (k + j) - (k + i) = j - i
      BY <1>0
    <2> QED
      BY <2>1, <1>1 DEF Framed, GoesOn
  <1>4. Follows(t)
    <2> SUFFICES ASSUME NEW i \in 1 .. T, NEW j \in 1 .. T, j = i + 1,
                        At(t[i]) = FrameLen(FrameOf(t[i]))
                 PROVE  At(t[j]) = 1
      BY DEF Follows
    <2>1. k + j = (k + i) + 1
      BY <1>0
    <2> QED
      BY <2>1, <1>1 DEF Framed, Follows
  <1>5. Ends(t)
    <2> SUFFICES ASSUME T > 0 PROVE At(t[T]) = FrameLen(FrameOf(t[T]))
      BY DEF Ends
    <2>1. T \in 1 .. T /\ k + T = S /\ S > 0
      BY <1>0
    <2> QED
      BY <2>1, <1>1 DEF Framed, Ends
  <1> QED
    BY <1>2, <1>3, <1>4, <1>5 DEF Framed

\* A stream stays framed when a whole frame is added to it.
LEMMA FrameAdded ==
  ASSUME NEW s \in Seq(Byte), NEW t \in Seq(Byte), NEW n \in 0 .. MaxCodes, NEW f \in 0 .. n,
         Len(t) = FrameLen(f), \A i \in 1 .. FrameLen(f) : t[i] = <<f, i>>,
         Framed(s, n)
  PROVE  Framed(s \o t, n)
  <1> DEFINE S == Len(s)  T == FrameLen(f)  u == s \o t
  <1>0. S \in Nat /\ T \in Nat \ {0} /\ u \in Seq(Byte) /\ Len(u) = S + T
    <2>1. T \in Nat \ {0}
      BY FrameLenPositive, LinkAssumption
    <2> QED
      BY <2>1, LenProperties, ConcatProperties
  <1>1. \A i \in 1 .. S : u[i] = s[i] /\ s[i] \in Byte
    BY <1>0, ConcatProperties, ElementOfSeq
  <1>2. \A i \in S + 1 .. S + T : u[i] = <<f, i - S>>
    <2> TAKE i \in S + 1 .. S + T
    <2>1. i \in 1 .. S + T /\ ~(i <= S) /\ i - S \in 1 .. T
      BY <1>0
    <2>2. u[i] = t[i - S]
      BY <1>0, <2>1, ConcatProperties
    <2> QED
      BY <2>1, <2>2
  <1>a. \A i, j \in 1 .. S :
          i < j /\ At(s[i]) + (j - i) <= FrameLen(FrameOf(s[i])) =>
            s[j] = <<FrameOf(s[i]), At(s[i]) + (j - i)>>
    BY DEF Framed, GoesOn
  <1> HIDE DEF u, S, T
  <1>3. \A i \in 1 .. S : /\ At(s[i]) \in Nat /\ FrameOf(s[i]) \in Nat
                          /\ FrameLen(FrameOf(s[i])) \in Nat
    BY <1>1, ByteShape, FrameLenPositive
  <1>4. \A i \in S + 1 .. S + T : FrameOf(u[i]) = f /\ At(u[i]) = i - S
    BY <1>2 DEF FrameOf, At
  <1>5. Known(u, n)
    <2> SUFFICES ASSUME NEW i \in 1 .. S + T PROVE FrameOf(u[i]) <= n
      BY <1>0 DEF Known
    <2>1. CASE i <= S
      BY <2>1, <1>0, <1>1 DEF Framed, Known, S
    <2>2. CASE ~(i <= S)
      <3>1. i \in S + 1 .. S + T
        BY <2>2, <1>0
      <3> QED
        BY <3>1, <1>4
    <2> QED
      BY <2>1, <2>2
  \* The last byte of s ends its frame: no frame of s reaches beyond it.
  <1>6. ASSUME NEW i \in 1 .. S PROVE At(s[i]) + (S - i) >= FrameLen(FrameOf(s[i]))
    <2>1. S > 0 /\ S \in 1 .. S
      BY <1>0
    <2>2. At(s[S]) = FrameLen(FrameOf(s[S]))
      BY <2>1 DEF Framed, Ends, S
    <2>3. CASE i = S
      BY <2>3, <2>2, <1>3
    <2>4. CASE i < S
      <3>0. At(s[i]) + (S - i) \in Int /\ FrameLen(FrameOf(s[i])) \in Int
        BY <1>3, <1>0
      <3> SUFFICES ASSUME At(s[i]) + (S - i) < FrameLen(FrameOf(s[i])) PROVE FALSE
        BY <3>0
      <3>1. s[S] = <<FrameOf(s[i]), At(s[i]) + (S - i)>>
        <4>1. At(s[i]) + (S - i) <= FrameLen(FrameOf(s[i]))
          BY <3>0
        <4> QED
          BY <4>1, <2>1, <2>4, <1>3, <1>a
      <3>2. FrameOf(s[S]) = FrameOf(s[i]) /\ At(s[S]) = At(s[i]) + (S - i)
        BY <3>1 DEF FrameOf, At
      <3> QED
        BY <3>2, <2>2, <1>3, <1>0
    <2> QED
      BY <2>3, <2>4, <1>0
  <1>7. GoesOn(u)
    <2> SUFFICES ASSUME NEW i \in 1 .. S + T, NEW j \in 1 .. S + T, i < j,
                        At(u[i]) + (j - i) <= FrameLen(FrameOf(u[i]))
                 PROVE  u[j] = <<FrameOf(u[i]), At(u[i]) + (j - i)>>
      BY <1>0 DEF GoesOn
    <2>1. CASE j <= S
      <3>1. i \in 1 .. S /\ j \in 1 .. S
        BY <2>1, <1>0
      <3>2. u[i] = s[i] /\ u[j] = s[j]
        BY <3>1, <1>1
      <3> QED
        <4>1. At(s[i]) + (j - i) <= FrameLen(FrameOf(s[i]))
          BY <3>2
        <4>2. s[j] = <<FrameOf(s[i]), At(s[i]) + (j - i)>>
          BY <4>1, <3>1, <1>3, <1>a
        <4> QED
          BY <4>2, <3>2
    <2>2. CASE i <= S /\ ~(j <= S)
      <3>1. i \in 1 .. S
        BY <2>2, <1>0
      <3>2. u[i] = s[i]
        BY <3>1, <1>1
      <3>3. At(s[i]) + (j - i) <= FrameLen(FrameOf(s[i]))
        BY <3>2
      <3>4. At(s[i]) + (S - i) >= FrameLen(FrameOf(s[i]))
        BY <3>1, <1>6
      <3>5. At(s[i]) \in Nat /\ FrameLen(FrameOf(s[i])) \in Nat
        BY <3>1, <1>3
      <3>6. i \in Nat /\ j \in Nat /\ S \in Nat /\ j > S
        BY <2>2, <1>0
      <3> DEFINE a == At(s[i])  z == FrameLen(FrameOf(s[i]))
      <3> HIDE DEF a, z
      <3>7. a \in Nat /\ z \in Nat /\ a + (j - i) <= z /\ a + (S - i) >= z
        BY <3>3, <3>4, <3>5 DEF a, z
      <3>8. FALSE
        BY ONLY <3>6, <3>7
      <3> QED
        BY <3>8
    <2>3. CASE ~(i <= S)
      <3>1. i \in S + 1 .. S + T /\ j \in S + 1 .. S + T
        BY <2>3, <1>0
      <3>2. (i - S) + (j - i) = j - S
        BY <1>0
      <3> QED
        BY <3>1, <3>2, <1>2, <1>4
    <2> QED
      BY <2>1, <2>2, <2>3
  <1>8. Follows(u)
    <2> SUFFICES ASSUME NEW i \in 1 .. S + T, NEW j \in 1 .. S + T, j = i + 1,
                        At(u[i]) = FrameLen(FrameOf(u[i]))
                 PROVE  At(u[j]) = 1
      BY <1>0 DEF Follows
    <2>1. CASE j <= S
      <3>1. i \in 1 .. S /\ j \in 1 .. S
        BY <2>1, <1>0
      <3> QED
        BY <3>1, <1>1 DEF Framed, Follows, S
    <2>2. CASE j = S + 1
      BY <2>2, <1>0, <1>4
    <2>3. CASE j > S + 1
      <3>1. i \in S + 1 .. S + T /\ i - S < T
        BY <2>3, <1>0
      <3> QED
        BY <3>1, <1>4, <1>0 DEF T
    <2> QED
      BY <2>1, <2>2, <2>3, <1>0
  <1>9. Ends(u)
    <2>1. S + T \in S + 1 .. S + T /\ (S + T) - S = T
      BY <1>0
    <2> QED
      BY <2>1, <1>0, <1>4 DEF Ends, T
  <1> QED
    BY <1>5, <1>7, <1>8, <1>9 DEF Framed, u

----------------------------------------------------------------------------
(* Steps *)

\* A call that writes commands begins.
CallBegins ==
  \/ trigger_scan \/ stop_scan \/ access_register \/ start_scanning
  \/ enter_continuous_mode \/ exit_continuous_mode
  \/ init

\* The core's state alone moves: cancel_scan, and the end of an init.
StateMoves ==
  /\ state' \in State
  /\ UNCHANGED <<callVars, todo, pc, buffer, ring, moduleVars, histVars>>

LinkStep ==
  \/ ModuleReads \/ ModuleAnswers \/ Arrive
  \/ CallBegins /\ calls' \in 0 .. MaxCalls
  \/ SendCommand \/ ReadReply \/ ReplyTimeout
  \/ \E how \in {"read_scan", "try_read_scan"} : StartRead(how)
  \/ ReadByte \/ ReadEnds \/ ReadFails
  \/ poll_uart \/ reset_to_ready \/ StateMoves
  \/ UNCHANGED vars

LEMMA NextIsLinkStep ==
  ASSUME LinkTypeOK, [Next]_vars
  PROVE  LinkStep
  <1>1. CASE ModuleStep
    BY <1>1 DEF LinkStep, ModuleStep
  <1>2. CASE CallStarts
    <2>1. calls' \in 0 .. MaxCalls
      BY <1>2, LinkAssumption DEF CallStarts, LinkTypeOK
    <2>2. CallBegins
      BY <1>2 DEF CallStarts, CallBegins
    <2> QED
      BY <2>1, <2>2 DEF LinkStep
  <1>3. CASE CallProgress
    BY <1>3 DEF LinkStep, CallProgress
  <1>4. CASE StartRead("read_scan") \/ StartRead("try_read_scan")
    BY <1>4 DEF LinkStep
  <1>5. CASE ReadByte \/ ReadEnds \/ ReadFails \/ poll_uart \/ reset_to_ready
    BY <1>5 DEF LinkStep
  <1>6. CASE cancel_scan
    <2>1. StateMoves
      BY <1>6 DEF cancel_scan, StateMoves, State
    <2> QED
      BY <2>1 DEF LinkStep
  <1>7. CASE UNCHANGED vars
    BY <1>7 DEF LinkStep
  <1> QED
    BY <1>1, <1>2, <1>3, <1>4, <1>5, <1>6, <1>7 DEF Next

LEMMA SuiteNextIsLinkStep ==
  ASSUME LinkTypeOK, [SuiteNext]_<<vars, suiteVars>>
  PROVE  LinkStep
  <1>1. CASE ModuleStep
    BY <1>1 DEF LinkStep, ModuleStep
  <1>2. CASE MakeCall
    <2>1. CASE UNCHANGED vars
      BY <2>1 DEF LinkStep
    <2>2. CASE Makes(Head(suite).call)
      <3>1. CASE (init \/ access_register \/ stop_scan \/ trigger_scan) /\ UNCHANGED calls
        <4>1. CallBegins
          BY <3>1 DEF CallBegins
        <4>2. calls' \in 0 .. MaxCalls
          BY <3>1 DEF LinkTypeOK
        <4> QED
          BY <4>1, <4>2 DEF LinkStep
      <3>2. CASE StartRead("read_scan")
        BY <3>2 DEF LinkStep
      <3>3. CASE cancel_scan
        <4>1. StateMoves
          BY <3>3 DEF cancel_scan, StateMoves, State
        <4> QED
          BY <4>1 DEF LinkStep
      <3> QED
        BY <2>2, <3>1, <3>2, <3>3 DEF Makes
    <2> QED
      BY <1>2, <2>1, <2>2 DEF MakeCall
  <1>3. CASE Gate \/ Halted
    <2>1. UNCHANGED vars
      BY <1>3 DEF Gate, Halted
    <2> QED
      BY <2>1 DEF LinkStep
  <1>4. CASE Commanding
    BY <1>4 DEF LinkStep, Commanding
  <1>5. CASE Reading
    BY <1>5 DEF LinkStep, Reading
  <1>6. CASE JudgeTest
    <2>1. StateMoves
      BY <1>6 DEF JudgeTest, StateMoves, State, LinkTypeOK
    <2> QED
      BY <2>1 DEF LinkStep
  <1>7. CASE CallStarts
    <2>1. calls' \in 0 .. MaxCalls
      BY <1>7, LinkAssumption DEF CallStarts, LinkTypeOK
    <2>2. CallBegins
      BY <1>7 DEF CallStarts, CallBegins
    <2> QED
      BY <2>1, <2>2 DEF LinkStep
  <1>8. CASE CallProgress
    BY <1>8 DEF LinkStep, CallProgress
  <1>9. CASE StartRead("read_scan") \/ StartRead("try_read_scan")
    BY <1>9 DEF LinkStep
  <1>10. CASE ReadByte \/ ReadEnds \/ ReadFails \/ poll_uart \/ reset_to_ready
    BY <1>10 DEF LinkStep
  <1>11. CASE cancel_scan
    <2>1. StateMoves
      BY <1>11 DEF cancel_scan, StateMoves, State
    <2> QED
      BY <2>1 DEF LinkStep
  <1>12. CASE UNCHANGED <<vars, suiteVars>>
    BY <1>12 DEF LinkStep
  <1> QED
    BY <1>1, <1>2, <1>3, <1>4, <1>5, <1>6, <1>7, <1>8, <1>9, <1>10, <1>11, <1>12
       DEF SuiteNext, SuiteStep

----------------------------------------------------------------------------
(* Type correctness *)

\* A reply, and a code's frame.
LEMMA FrameShape ==
  /\ Reply \in Seq(Byte) /\ Len(Reply) = FrameLen(0) /\ \A i \in 1 .. FrameLen(0) : Reply[i] = <<0, i>>
  /\ \A id \in 1 .. MaxCodes :
       /\ Code(id) \in Seq(Byte) /\ Len(Code(id)) = FrameLen(id)
       /\ \A i \in 1 .. FrameLen(id) : Code(id)[i] = <<id, i>>
  <1> DEFINE F(f) == [k \in 1 .. FrameLen(f) |-> <<f, k>>]
  <1>1. ASSUME NEW f \in 0 .. MaxCodes
        PROVE  /\ F(f) \in Seq(Byte) /\ Len(F(f)) = FrameLen(f)
               /\ \A i \in 1 .. FrameLen(f) : F(f)[i] = <<f, i>>
    <2>1. FrameLen(f) \in Nat
      BY FrameLenPositive
    <2>2. \A k \in 1 .. FrameLen(f) : <<f, k>> \in Byte
      BY LinkAssumption DEF FrameLen, Byte
    <2> QED
      BY <2>1, <2>2
  <1>2. Reply = F(0)
    BY DEF Reply, FrameLen
  <1>3. \A id \in 1 .. MaxCodes : Code(id) = F(id)
    BY DEF Code, FrameLen
  <1> HIDE DEF F
  <1>4. 0 \in 0 .. MaxCodes /\ \A id \in 1 .. MaxCodes : id \in 0 .. MaxCodes
    BY LinkAssumption
  <1> QED
    BY <1>1, <1>2, <1>3, <1>4

\* What is left of bytes, without the first k.
LEMMA RestTyped ==
  ASSUME NEW s \in Seq(Byte), NEW k \in 0 .. Len(s)
  PROVE  /\ SubSeq(s, k + 1, Len(s)) \in Seq(Byte)
         /\ Len(SubSeq(s, k + 1, Len(s))) = Len(s) - k
         /\ Rest(s, k, SubSeq(s, k + 1, Len(s)))
  <1> DEFINE t == SubSeq(s, k + 1, Len(s))
  <1>1. Len(s) \in Nat /\ k \in Nat /\ k <= Len(s)
    BY LenProperties
  <1>2. \A i \in k + 1 .. Len(s) : s[i] \in Byte
    BY <1>1, ElementOfSeq
  <1>3. /\ t \in Seq(Byte)
        /\ Len(t) = IF k + 1 <= Len(s) THEN Len(s) - (k + 1) + 1 ELSE 0
        /\ \A i \in 1 .. Len(s) - (k + 1) + 1 : t[i] = s[k + 1 + i - 1]
    <2>1. k + 1 \in Int /\ Len(s) \in Int
      BY <1>1
    <2> QED
      BY ONLY <2>1, <1>2, SubSeqProperties
  <1> HIDE DEF t
  <1>4. Len(t) = Len(s) - k
    BY <1>1, <1>3
  <1>5. \A i \in 1 .. Len(t) : t[i] = s[k + i]
    <2> TAKE i \in 1 .. Len(t)
    <2>1. i \in 1 .. Len(s) - (k + 1) + 1 /\ k + 1 + i - 1 = k + i
      BY <1>1, <1>4
    <2> QED
      BY <2>1, <1>3
  <1> QED
    BY <1>1, <1>3, <1>4, <1>5 DEF Rest, t

LEMMA TailTyped ==
  ASSUME NEW s \in Seq(Byte), s # <<>>
  PROVE  /\ Tail(s) \in Seq(Byte) /\ Len(Tail(s)) = Len(s) - 1
         /\ Head(s) \in Byte /\ Head(s) = s[1] /\ Len(s) \in Nat \ {0}
         /\ Rest(s, 1, Tail(s))
  <1>1. /\ Len(s) \in Nat \ {0} /\ Tail(s) \in Seq(Byte) /\ Len(Tail(s)) = Len(s) - 1
        /\ Head(s) \in Byte /\ Head(s) = s[1]
        /\ \A i \in 1 .. Len(Tail(s)) : Tail(s)[i] = s[i + 1]
    BY HeadTailProperties, EmptySeq
  <1>2. \A i \in 1 .. Len(Tail(s)) : Tail(s)[i] = s[1 + i]
    BY <1>1
  <1> QED
    BY <1>1, <1>2 DEF Rest

\* The commands of a call are commands.
LEMMA CommandsTyped ==
  /\ \A cmd \in {"enable", "stop", "other"} : Sends(cmd) \in Command /\ Writes(cmd) \in Command
  /\ Drain \in Command
  /\ [i \in 1 .. InitCommands |-> Sends("other")] \in Seq(Command)
  /\ [i \in 1 .. InitCommands |-> Sends("other")] # <<>>
  <1>1. \A cmd \in {"enable", "stop", "other"} : Sends(cmd) \in Command /\ Writes(cmd) \in Command
    BY DEF Sends, Writes, Command
  <1>2. Drain \in Command
    BY DEF Drain, Command
  <1> DEFINE c == Sends("other")
  <1>3. c \in Command
    BY <1>1
  <1> HIDE DEF c
  <1>4. InitCommands \in Nat \ {0}
    BY SuiteAssumption
  <1>5. [i \in 1 .. InitCommands |-> c] \in Seq(Command)
    BY <1>3, <1>4
  <1>6. Len([i \in 1 .. InitCommands |-> c]) = InitCommands /\ Len(<<>>) = 0
    BY <1>3, <1>4
  <1>7. [i \in 1 .. InitCommands |-> c] # <<>>
    BY <1>6, <1>4
  <1> QED
    BY <1>1, <1>2, <1>5, <1>7 DEF c

\* What a call that begins changes.
CallShape ==
  /\ pc = "idle" /\ pc' = "send"
  /\ todo' \in Seq(Command) /\ todo' # <<>>
  /\ UNCHANGED <<driver, ring, moduleVars, lost>>
  /\ \/ state' = "Scanning" /\ buffer' = <<>> /\ own' = ~lost
     \/ state' \in {state, "Detecting"} /\ own' = FALSE /\ UNCHANGED buffer
  /\ cut' = (cut \/ buffer # <<>>)

LEMMA CallBeginsShape ==
  ASSUME CallBegins
  PROVE  CallShape
  <1> DEFINE Begins(steps) == Call(steps) /\ steps \in Seq(Command) /\ steps # <<>>
  <1>0. ASSUME NEW steps, Begins(steps)
        PROVE  /\ pc = "idle" /\ pc' = "send"
               /\ todo' \in Seq(Command) /\ todo' # <<>>
               /\ UNCHANGED <<driver, ring, moduleVars, lost>>
    BY <1>0 DEF Call, Entered
  <1>1. \A a, b, c, d \in Command :
          /\ <<a>> \in Seq(Command) /\ <<a>> # <<>>
          /\ <<a, b, c>> \in Seq(Command) /\ <<a, b, c>> # <<>>
          /\ <<a, b, c, d>> \in Seq(Command) /\ <<a, b, c, d>> # <<>>
    <2> TAKE a, b, c, d \in Command
    <2>1. <<a>> \in Seq(Command) /\ <<a, b, c>> \in Seq(Command) /\ <<a, b, c, d>> \in Seq(Command)
      OBVIOUS
    <2>2. <<a>> # <<>> /\ <<a, b, c>> # <<>> /\ <<a, b, c, d>> # <<>>
      OBVIOUS
    <2> QED
      BY <2>1, <2>2
  <1>2. ASSUME \E steps : Begins(steps) PROVE
          /\ pc = "idle" /\ pc' = "send"
          /\ todo' \in Seq(Command) /\ todo' # <<>>
          /\ UNCHANGED <<driver, ring, moduleVars, lost>>
    BY <1>2, <1>0
  <1> HIDE DEF Begins
  <1>3. CASE trigger_scan
    <2>1. Begins(<<Sends("enable")>>)
      BY <1>3, <1>1, CommandsTyped DEF trigger_scan, Begins
    <2> QED
      BY <2>1, <1>2, <1>3 DEF trigger_scan, ClearBuffer, CallShape
  <1>4. CASE Keeps /\ \E steps : Begins(steps)
    BY <1>4, <1>2 DEF Keeps, CallShape
  <1>5. CASE stop_scan
    <2>1. Begins(<<Sends("stop")>>) /\ Keeps
      BY <1>5, <1>1, CommandsTyped DEF stop_scan, Begins
    <2> QED
      BY <2>1, <1>4
  <1>6. CASE access_register
    <2>1. Begins(<<Sends("other")>>) /\ Keeps
      BY <1>6, <1>1, CommandsTyped DEF access_register, Begins
    <2> QED
      BY <2>1, <1>4
  <1>7. CASE start_scanning
    <2>1. Begins(<<Sends("stop"), Sends("other"), Sends("enable")>>) /\ Keeps
      BY <1>7, <1>1, CommandsTyped DEF start_scanning, Begins
    <2> QED
      BY <2>1, <1>4
  <1>8. CASE enter_continuous_mode
    <2>1. Begins(<<Sends("stop"), Writes("other"), Writes("enable"), Drain>>) /\ Keeps
      BY <1>8, <1>1, CommandsTyped DEF enter_continuous_mode, Begins
    <2> QED
      BY <2>1, <1>4
  <1>9. CASE exit_continuous_mode
    <2>1. Begins(<<Writes("stop"), Writes("other"), Drain>>) /\ Keeps
      BY <1>9, <1>1, CommandsTyped DEF exit_continuous_mode, Begins
    <2> QED
      BY <2>1, <1>4
  <1>10. CASE init
    <2>1. Begins([i \in 1 .. InitCommands |-> Sends("other")])
      BY <1>10, CommandsTyped DEF init, Begins
    <2> QED
      BY <2>1, <1>2, <1>10 DEF init, CallShape
  <1> QED
    BY <1>3, <1>5, <1>6, <1>7, <1>8, <1>9, <1>10 DEF CallBegins

LEMMA LinkTypeInit ==
  ASSUME Init
  PROVE  LinkTypeOK
  <1>1. \A S : <<>> \in Seq(S) /\ Len(<<>>) = 0
    BY EmptySeq
  <1>2. /\ 0 \in 0 .. MaxCodes /\ 0 \in 0 .. MaxCalls /\ 0 < RingSize /\ 0 <= InboxCap
        /\ 0 <= MaxScan
    BY LinkAssumption
  <1>3. /\ todo \in Seq(Command) /\ buffer \in Seq(Byte) /\ ring \in Seq(Byte)
        /\ line \in Seq(Byte) /\ inbox \in Seq({"enable", "stop", "other"})
        /\ Len(ring) < RingSize /\ Len(inbox) <= InboxCap /\ Len(buffer) <= MaxScan
    BY <1>1, <1>2 DEF Init
  <1>4. codes \in 0 .. MaxCodes /\ calls \in 0 .. MaxCalls
    BY <1>2 DEF Init
  <1>5. /\ driver \in {"sync", "async"} /\ state = "Ready" /\ pc = "idle"
        /\ {enabled, lost, cut, own} \subseteq BOOLEAN
    BY DEF Init
  <1>6. (pc \in {"send", "reply"}) = (todo # <<>>)
    BY DEF Init
  <1> QED
    BY <1>3, <1>4, <1>5, <1>6 DEF LinkTypeOK, State

\* A drain leaves the end of the line.
LEMMA DrainShape ==
  ASSUME LinkTypeOK, drain_uart
  PROVE  /\ ring' = <<>>
         /\ \E n \in 0 .. Len(line) :
              /\ line' \in Seq(Byte) /\ Rest(line, n, line')
              /\ n < Len(line) => line[n + 1][2] = 1
              /\ ~cut' => ~cut /\ \A k \in DOMAIN ring : ~OfCode(ring[k])
  <1>1. PICK n \in 0 .. Len(line) :
          /\ n < Len(line) => line[n + 1][2] = 1
          /\ line' = SubSeq(line, n + 1, Len(line))
          /\ ring' = <<>>
          /\ cut' = (cut \/ (\E k \in DOMAIN ring : OfCode(ring[k]))
                        \/ (\E k \in 1 .. n : OfCode(line[k])))
    BY DEF drain_uart
  <1>2. line' \in Seq(Byte) /\ Rest(line, n, line')
    BY <1>1, RestTyped DEF LinkTypeOK
  <1> QED
    BY <1>1, <1>2

LEMMA NextCommandShape ==
  ASSUME LinkTypeOK, pc \in {"send", "reply"}, NextCommand
  PROVE  /\ todo' \in Seq(Command)
         /\ pc' \in {"idle", "send"} /\ (pc' = "send") = (todo' # <<>>)
  <1>1. todo \in Seq(Command) /\ todo # <<>>
    BY DEF LinkTypeOK
  <1>2. Tail(todo) \in Seq(Command)
    BY <1>1, HeadTailProperties
  <1> QED
    BY <1>2 DEF NextCommand, Entered

LEMMA LinkTypeStep ==
  ASSUME LinkTypeOK, LinkStep
  PROVE  LinkTypeOK'
  <1> USE DEF LinkTypeOK, State
  <1>0. /\ Len(<<>>) = 0 /\ 0 < RingSize /\ 0 <= MaxScan
        /\ \A S : <<>> \in Seq(S)
        /\ Len(buffer) \in Nat /\ MaxScan \in Nat
        /\ Len(ring) \in Nat /\ RingSize \in Nat
    BY LinkAssumption, EmptySeq, LenProperties
  <1>1. CASE ModuleReads
    <2>1. codes' \in 1 .. MaxCodes
      BY <1>1, LinkAssumption DEF ModuleReads
    <2>2. line' \in Seq(Byte)
      <3>1. Code(codes') \in Seq(Byte)
        BY <2>1, FrameShape
      <3> QED
        BY <1>1, <3>1, ConcatProperties DEF ModuleReads
    <2> QED
      BY <1>1, <2>1, <2>2 DEF ModuleReads, callVars, histVars
  <1>2. CASE ModuleAnswers
    <2>1. inbox' \in Seq({"enable", "stop", "other"}) /\ Len(inbox') <= InboxCap
      <3>1. Tail(inbox) \in Seq({"enable", "stop", "other"}) /\ Len(Tail(inbox)) = Len(inbox) - 1
        BY <1>2, HeadTailProperties DEF ModuleAnswers
      <3>2. Len(inbox) \in Nat /\ InboxCap \in Nat
        BY LenProperties, LinkAssumption
      <3>3. Len(inbox) - 1 <= InboxCap
        BY <3>2
      <3> QED
        BY <1>2, <3>1, <3>3 DEF ModuleAnswers
    <2>2. line' \in Seq(Byte)
      <3>1. line \o Reply \in Seq(Byte)
        BY FrameShape, ConcatProperties
      <3> QED
        BY <1>2, <3>1 DEF ModuleAnswers
    <2>3. enabled' \in BOOLEAN
      BY <1>2 DEF ModuleAnswers
    <2> QED
      BY <1>2, <2>1, <2>2, <2>3 DEF ModuleAnswers, callVars, histVars
  <1>3. CASE Arrive
    <2>1. Head(line) \in Byte /\ line' \in Seq(Byte)
      BY <1>3, TailTyped DEF Arrive
    <2>2. ring' \in Seq(Byte) /\ Len(ring') < RingSize
      <3>1. CASE RingHasRoom /\ ring' = Append(ring, Head(line))
        <4>1. ring' \in Seq(Byte) /\ Len(ring') = Len(ring) + 1
          BY <3>1, <2>1, AppendProperties
        <4> QED
          BY <3>1, <4>1, <1>0 DEF RingHasRoom
      <3>2. CASE UNCHANGED ring
        BY <3>2
      <3> QED
        BY <1>3, <3>1, <3>2 DEF Arrive
    <2>3. {lost', cut', own'} \subseteq BOOLEAN
      BY <1>3 DEF Arrive, histVars
    <2> QED
      BY <1>3, <2>1, <2>2, <2>3 DEF Arrive, callVars
  <1>4. CASE CallBegins /\ calls' \in 0 .. MaxCalls
    <2>1. CallShape
      BY <1>4, CallBeginsShape
    <2> QED
      BY <1>4, <2>1, <1>0 DEF CallShape, moduleVars
  <1>5. CASE SendCommand
    <2>1. line' \in Seq(Byte) /\ ring' \in Seq(Byte) /\ Len(ring') < RingSize /\ cut' \in BOOLEAN
      <3>1. CASE drain_uart
        <4>1. cut' \in BOOLEAN
          BY <3>1 DEF drain_uart
        <4> QED
          BY <3>1, <4>1, <1>0, DrainShape
      <3>2. CASE UNCHANGED <<line, ring, cut>>
        BY <3>2
      <3> QED
        BY <1>5, <3>1, <3>2 DEF SendCommand
    <2>2. inbox' \in Seq({"enable", "stop", "other"}) /\ Len(inbox') <= InboxCap
      <3>1. CASE UNCHANGED inbox
        BY <3>1
      <3>2. CASE Head(todo) # Drain /\ Len(inbox) < InboxCap
                   /\ inbox' = Append(inbox, Head(todo).cmd)
        <4>1. Head(todo) \in Command
          BY <1>5, HeadTailProperties DEF SendCommand
        <4>2. Head(todo).cmd \in {"enable", "stop", "other"}
          BY <3>2, <4>1 DEF Command
        <4>3. inbox' \in Seq({"enable", "stop", "other"}) /\ Len(inbox') = Len(inbox) + 1
          BY <3>2, <4>2, AppendProperties
        <4>4. Len(inbox) \in Nat /\ InboxCap \in Nat
          BY LenProperties, LinkAssumption
        <4> QED
          BY <4>3, <4>4, <3>2
      <3> QED
        BY <1>5, <3>1, <3>2 DEF SendCommand
    <2>3. /\ todo' \in Seq(Command) /\ pc' \in {"idle", "send", "reply"}
          /\ (pc' \in {"send", "reply"}) = (todo' # <<>>)
      <3>1. CASE NextCommand
        BY <1>5, <3>1, NextCommandShape DEF SendCommand
      <3>2. CASE pc' = "reply" /\ UNCHANGED todo
        BY <1>5, <3>2 DEF SendCommand
      <3> QED
        BY <1>5, <3>1, <3>2 DEF SendCommand
    <2> QED
      BY <1>5, <2>1, <2>2, <2>3 DEF SendCommand, callVars
  <1>6. CASE ReadReply
    <2>1. ring' \in Seq(Byte) /\ Len(ring') = Len(ring) - RespLen /\ RespLen \in Nat
      <3>1. RespLen \in 0 .. Len(ring)
        BY <1>6, <1>0, LinkAssumption DEF ReadReply
      <3> QED
        BY <1>6, <3>1, RestTyped DEF ReadReply
    <2>2. Len(ring') < RingSize
      BY <2>1, <1>0
    <2>3. cut' \in BOOLEAN
      BY <1>6 DEF ReadReply
    <2> QED
      BY <1>6, <2>1, <2>2, <2>3, NextCommandShape DEF ReadReply, callVars, moduleVars
  <1>7. CASE ReplyTimeout
    <2>1. cut' \in BOOLEAN
      BY <1>7 DEF ReplyTimeout
    <2> QED
      BY <1>7, <1>0, <2>1, NextCommandShape DEF ReplyTimeout, callVars, moduleVars
  <1>8. ASSUME NEW how \in {"read_scan", "try_read_scan"}, StartRead(how)
        PROVE  LinkTypeOK'
    <2>1. /\ pc = "idle" /\ pc' = how
          /\ UNCHANGED <<callVars, todo, ring, moduleVars, lost, own>>
      BY <1>8 DEF StartRead
    <2>2. /\ buffer' \in Seq(Byte) /\ Len(buffer') <= MaxScan
          /\ cut' \in BOOLEAN /\ state' \in State
      BY <1>8, <1>0 DEF StartRead, ClearBuffer, State
    <2>3. (pc' \in {"send", "reply"}) = (todo' # <<>>)
      BY <2>1, <1>8
    <2>4. pc' \in {"read_scan", "try_read_scan"}
      BY <2>1, <1>8
    <2> QED
      BY <2>1, <2>2, <2>3, <2>4 DEF callVars, moduleVars, State
  <1>9. CASE ReadByte
    <2>1. Head(ring) \in Byte /\ ring' \in Seq(Byte) /\ Len(ring') < RingSize
      <3>1. Head(ring) \in Byte /\ ring' \in Seq(Byte) /\ Len(ring') = Len(ring) - 1
        BY <1>9, TailTyped DEF ReadByte
      <3> QED
        BY <3>1, <1>0
    <2>2. buffer' \in Seq(Byte) /\ Len(buffer') <= MaxScan
      <3>1. /\ Append(buffer, Head(ring)) \in Seq(Byte)
            /\ Len(Append(buffer, Head(ring))) = Len(buffer) + 1
        BY <2>1, AppendProperties
      <3>2. CASE Overflow
        BY <3>2 DEF Overflow
      <3>3. CASE Push
        <4>1. Len(buffer) + 1 <= MaxScan
          BY <3>3, <1>0 DEF Push, PushFails
        <4> QED
          BY <3>1, <3>3, <4>1, <1>0 DEF Push
      <3> QED
        BY <1>9, <3>2, <3>3 DEF ReadByte
    <2>3. /\ pc' \in {"idle", pc} /\ pc \in {"read_scan", "try_read_scan"} /\ UNCHANGED todo
          /\ {cut', own'} \subseteq BOOLEAN /\ state' \in State
      <3>1. CASE Overflow
        BY <1>9, <3>1 DEF Overflow, ReadByte
      <3>2. CASE Push
        BY <1>9, <3>2 DEF Push, ReadByte
      <3> QED
        BY <1>9, <3>1, <3>2 DEF ReadByte
    <2>4. UNCHANGED <<driver, line, inbox, enabled, codes, calls, lost>>
      BY <1>9 DEF ReadByte, callVars, moduleVars
    <2> QED
      BY <2>1, <2>2, <2>3, <2>4 DEF State
  <1>10. CASE ReadEnds \/ ReadFails
    BY <1>10 DEF ReadEnds, ReadFails, callVars, moduleVars, histVars
  <1>11. CASE poll_uart
    <2>1. ring' \in Seq(Byte) /\ Len(ring') = Len(ring) - 1
      BY <1>11, TailTyped DEF poll_uart
    <2>2. Len(ring') < RingSize
      BY <2>1, <1>0
    <2> QED
      BY <1>11, <2>1, <2>2 DEF poll_uart, callVars, moduleVars
  <1>12. CASE reset_to_ready
    BY <1>12, <1>0 DEF reset_to_ready, ClearBuffer, callVars, moduleVars
  <1>13. CASE StateMoves
    BY <1>13 DEF StateMoves, State, callVars, moduleVars, histVars
  <1>14. CASE UNCHANGED vars
    BY <1>14 DEF vars, moduleVars, histVars
  <1> QED
    BY <1>1, <1>2, <1>3, <1>4, <1>5, <1>6, <1>7, <1>8, <1>9, <1>10, <1>11, <1>12, <1>13,
       <1>14 DEF LinkStep

\* Types: the ring never holds more than it has room for, and a driver that waits
\* to send or for a reply always has the command it does so for.
THEOREM LinkTyped == Spec => []LinkTypeOK
  <1>1. LinkTypeOK /\ [Next]_vars => LinkTypeOK'
    BY NextIsLinkStep, LinkTypeStep
  <1> QED
    BY <1>1, LinkTypeInit, PTL DEF Spec

\* The same when the on-device tests make the calls.
THEOREM SuiteLinkTyped == SuiteSpec => []LinkTypeOK
  <1>1. SuiteInit => LinkTypeOK
    BY LinkTypeInit DEF SuiteInit
  <1>2. LinkTypeOK /\ [SuiteNext]_<<vars, suiteVars>> => LinkTypeOK'
    BY SuiteNextIsLinkStep, LinkTypeStep
  <1> QED
    BY <1>1, <1>2, PTL DEF SuiteSpec

----------------------------------------------------------------------------
(* What is left of the frames *)

\* Bytes that wait for the driver, and all that a read will go through.
wire == ring \o line
stream == buffer \o wire

\* n replies, and the first r bytes of a frame that is not complete.
Shape(b, n, frame, r) ==
  /\ Len(b) = n * RespLen + r
  /\ \A m \in 0 .. n - 1, k \in 1 .. RespLen : b[m * RespLen + k] = <<0, k>>
  /\ \A k \in 1 .. r : b[n * RespLen + k] = <<frame, k>>
Shaped(b, c) == \E n \in Nat, frame \in 0 .. c : \E r \in 0 .. FrameLen(frame) - 1 : Shape(b, n, frame, r)

NoEol(b) == \A k \in 1 .. Len(b) : ~IsEol(b[k])

LinkInv ==
  /\ NoEol(buffer)
  /\ ~lost => Framed(wire, codes)
  /\ own => ~lost /\ Framed(stream, codes)
  /\ ~cut => ~lost /\ Framed(stream, codes) /\ Starts(stream) /\ Shaped(buffer, codes)
  /\ (own \/ ~cut) /\ pc \in {"send", "reply"} => buffer = <<>>

\* Parts of a stream, put together in another way.
LEMMA Associative ==
  ASSUME NEW a \in Seq(Byte), NEW b \in Seq(Byte), NEW c \in Seq(Byte)
  PROVE  (a \o b) \o c = a \o (b \o c)
  BY ConcatAssociative

LEMMA NoBytes ==
  ASSUME NEW a \in Seq(Byte)
  PROVE  <<>> \o a = a /\ a \o <<>> = a
  BY ConcatEmptySeq

\* A byte moves from one part to the one before.
LEMMA ByteMoves ==
  ASSUME NEW a \in Seq(Byte), NEW b \in Seq(Byte), b # <<>>
  PROVE  Append(a, Head(b)) \o Tail(b) = a \o b
  <1>1. Head(b) \in Byte /\ Tail(b) \in Seq(Byte) /\ <<Head(b)>> \in Seq(Byte)
    BY HeadTailProperties
  <1>2. b = <<Head(b)>> \o Tail(b)
    <2>1. /\ Len(<<Head(b)>>) = 1 /\ <<Head(b)>>[1] = Head(b)
          /\ Len(b) \in Nat \ {0} /\ Len(Tail(b)) = Len(b) - 1 /\ Head(b) = b[1]
          /\ \A i \in 1 .. Len(Tail(b)) : Tail(b)[i] = b[i + 1]
      BY TailTyped, HeadTailProperties
    <2> DEFINE u == <<Head(b)>> \o Tail(b)
    <2>2. /\ u \in Seq(Byte) /\ Len(u) = Len(b)
          /\ \A i \in 1 .. Len(b) : u[i] = IF i <= 1 THEN <<Head(b)>>[i] ELSE Tail(b)[i - 1]
      <3>1. 1 + (Len(b) - 1) = Len(b)
        BY <2>1
      <3> QED
        BY <3>1, <2>1, <1>1, ConcatProperties
    <2>3. \A i \in 1 .. Len(b) : u[i] = b[i]
      <3> TAKE i \in 1 .. Len(b)
      <3>1. CASE i = 1
        BY <3>1, <2>1, <2>2
      <3>2. CASE i > 1
        <4>1. i - 1 \in 1 .. Len(Tail(b)) /\ (i - 1) + 1 = i /\ ~(i <= 1)
          BY <3>2, <2>1
        <4> QED
          BY <4>1, <2>1, <2>2
      <3> QED
        BY <3>1, <3>2
    <2> HIDE DEF u
    <2>4. u = b
      BY <2>2, <2>3, SeqEqual
    <2> QED
      BY <2>4 DEF u
  <1>3. Append(a, Head(b)) = a \o <<Head(b)>>
    BY <1>1, AppendIsConcat
  <1>4. (a \o <<Head(b)>>) \o Tail(b) = a \o (<<Head(b)>> \o Tail(b))
    BY <1>1, Associative
  <1> QED
    BY <1>2, <1>3, <1>4

\* The rest of a part is the rest of the whole.
LEMMA RestOfBoth ==
  ASSUME NEW a \in Seq(Byte), NEW b \in Seq(Byte), NEW c \in Seq(Byte), NEW k \in Nat
  PROVE  /\ Rest(b, k, c) => Rest(a \o b, Len(a) + k, c)
         /\ Rest(a, k, c) => Rest(a \o b, k, c \o b)
  <1>0. /\ Len(a) \in Nat /\ Len(b) \in Nat /\ Len(c) \in Nat
        /\ a \o b \in Seq(Byte) /\ Len(a \o b) = Len(a) + Len(b)
        /\ \A i \in 1 .. Len(a) + Len(b) :
             (a \o b)[i] = IF i <= Len(a) THEN a[i] ELSE b[i - Len(a)]
        /\ c \o b \in Seq(Byte) /\ Len(c \o b) = Len(c) + Len(b)
        /\ \A i \in 1 .. Len(c) + Len(b) :
             (c \o b)[i] = IF i <= Len(c) THEN c[i] ELSE b[i - Len(c)]
    BY LenProperties, ConcatProperties
  <1>1. ASSUME Rest(b, k, c) PROVE Rest(a \o b, Len(a) + k, c)
    <2>1. Len(b) = k + Len(c) /\ \A i \in 1 .. Len(c) : c[i] = b[k + i]
      BY <1>1 DEF Rest
    <2>2. Len(a \o b) = (Len(a) + k) + Len(c)
      BY <1>0, <2>1
    <2>3. \A i \in 1 .. Len(c) : c[i] = (a \o b)[(Len(a) + k) + i]
      <3> TAKE i \in 1 .. Len(c)
      <3>1. /\ (Len(a) + k) + i \in 1 .. Len(a) + Len(b)
            /\ ~((Len(a) + k) + i <= Len(a))
            /\ ((Len(a) + k) + i) - Len(a) = k + i
        BY <1>0, <2>1
      <3> QED
        BY <3>1, <2>1, <1>0
    <2> QED
      BY <2>2, <2>3 DEF Rest
  <1>2. ASSUME Rest(a, k, c) PROVE Rest(a \o b, k, c \o b)
    <2>1. Len(a) = k + Len(c) /\ \A i \in 1 .. Len(c) : c[i] = a[k + i]
      BY <1>2 DEF Rest
    <2>2. Len(a \o b) = k + Len(c \o b)
      BY <1>0, <2>1
    <2>3. \A i \in 1 .. Len(c \o b) : (c \o b)[i] = (a \o b)[k + i]
      <3> TAKE i \in 1 .. Len(c \o b)
      <3>1. i \in 1 .. Len(c) + Len(b) /\ k + i \in 1 .. Len(a) + Len(b)
        BY <1>0, <2>1
      <3>2. CASE i <= Len(c)
        <4>1. k + i <= Len(a) /\ i \in 1 .. Len(c)
          BY <3>2, <1>0, <2>1
        <4> QED
          BY <4>1, <3>1, <3>2, <2>1, <1>0
      <3>3. CASE ~(i <= Len(c))
        <4>1. ~(k + i <= Len(a)) /\ (k + i) - Len(a) = i - Len(c)
          BY <3>3, <1>0, <2>1
        <4> QED
          BY <4>1, <3>1, <3>3, <1>0
      <3> QED
        BY <3>2, <3>3
    <2> QED
      BY <2>2, <2>3 DEF Rest
  <1> QED
    BY <1>1, <1>2

\* More codes are no other frames.
LEMMA FramedMore ==
  ASSUME NEW s \in Seq(Byte), NEW n \in Nat, NEW m \in Nat, n <= m, Framed(s, n)
  PROVE  Framed(s, m)
  <1>1. ASSUME NEW i \in 1 .. Len(s) PROVE FrameOf(s[i]) <= m
    <2>1. FrameOf(s[i]) \in Int
      BY ElementOfSeq, ByteShape
    <2>2. FrameOf(s[i]) <= n
      BY DEF Framed, Known
    <2> QED
      BY <2>1, <2>2
  <1> QED
    BY <1>1 DEF Framed, Known

\* What the first byte of a stream is does not change with what comes after it.
LEMMA StartsMore ==
  ASSUME NEW s \in Seq(Byte), NEW t \in Seq(Byte), Starts(s), Starts(t)
  PROVE  Starts(s \o t)
  <1>1. /\ Len(s) \in Nat /\ Len(t) \in Nat /\ Len(s \o t) = Len(s) + Len(t)
        /\ \A i \in 1 .. Len(s) + Len(t) :
             (s \o t)[i] = IF i <= Len(s) THEN s[i] ELSE t[i - Len(s)]
    BY LenProperties, ConcatProperties
  <1>2. CASE Len(s) > 0
    <2>1. 1 \in 1 .. Len(s) + Len(t) /\ 1 <= Len(s)
      BY <1>2, <1>1
    <2> QED
      BY <2>1, <1>2, <1>1 DEF Starts
  <1>3. CASE Len(s) = 0 /\ Len(t) > 0
    <2>1. 1 \in 1 .. Len(s) + Len(t) /\ ~(1 <= Len(s)) /\ 1 - Len(s) = 1
      BY <1>3, <1>1
    <2> QED
      BY <2>1, <1>3, <1>1 DEF Starts
  <1>4. CASE Len(s) = 0 /\ Len(t) = 0
    BY <1>4, <1>1 DEF Starts
  <1> QED
    BY <1>1, <1>2, <1>3, <1>4

LEMMA Products ==
  ASSUME NEW n \in Nat
  PROVE  /\ n * RespLen \in Nat /\ (n + 1) * RespLen = n * RespLen + RespLen
         /\ \A m \in 0 .. n - 1 :
              m * RespLen \in Nat /\ m * RespLen + RespLen <= n * RespLen
  <1>0. RespLen \in Nat \ {0}
    BY LinkAssumption
  <1>1. \A a, b \in Nat : a * b \in Nat
    OBVIOUS
  <1>2. \A a \in Nat : (a + 1) * RespLen = a * RespLen + RespLen
    BY <1>0
  <1>3. ASSUME NEW m \in 0 .. n - 1
        PROVE  m * RespLen \in Nat /\ m * RespLen + RespLen <= n * RespLen
    <2>1. m \in Nat /\ n - (m + 1) \in Nat
      OBVIOUS
    <2>2. (n - (m + 1)) * RespLen \in Nat /\ m * RespLen \in Nat
      BY <2>1, <1>0, <1>1
    <2>3. n * RespLen = (n - (m + 1)) * RespLen + (m * RespLen + RespLen)
      BY <2>1, <1>0
    <2> QED
      BY <2>2, <2>3, <1>0
  <1> QED
    BY <1>0, <1>1, <1>2, <1>3

\* The byte after n replies and r bytes of another frame is the next one of that
\* frame, or the first one of the next.
LEMMA NextByte ==
  ASSUME NEW b \in Seq(Byte), NEW s \in Seq(Byte), NEW c \in Nat,
         NEW n \in Nat, NEW f \in 0 .. MaxCodes, NEW r \in 0 .. FrameLen(f) - 1,
         Shape(b, n, f, r),
         Len(b) < Len(s), \A i \in 1 .. Len(b) : s[i] = b[i],
         Framed(s, c), Starts(s)
  PROVE  /\ r = 0 => At(s[Len(b) + 1]) = 1
         /\ r > 0 => s[Len(b) + 1] = <<f, r + 1>>
  <1> DEFINE L == Len(b)  next == s[Len(b) + 1]
  <1>0. /\ L \in Nat /\ Len(s) \in Nat /\ L + 1 \in 1 .. Len(s) /\ r \in Nat
        /\ FrameLen(f) \in Nat /\ RespLen \in Nat \ {0} /\ L = n * RespLen + r
    <2>1. L \in Nat /\ Len(s) \in Nat
      BY LenProperties
    <2>2. FrameLen(f) \in Nat /\ RespLen \in Nat \ {0}
      BY FrameLenPositive, LinkAssumption
    <2>3. L = n * RespLen + r
      BY DEF Shape
    <2> QED
      BY <2>1, <2>2, <2>3
  <1>1. CASE r = 0 /\ n = 0
    <2>1. L = 0
      BY <1>0, <1>1
    <2> QED
      BY <2>1, <1>0, <1>1 DEF Starts
  <1>2. CASE r = 0 /\ n > 0
    <2>1. n - 1 \in 0 .. n - 1 /\ RespLen \in 1 .. RespLen
      BY <1>2, <1>0
    <2>2. b[(n - 1) * RespLen + RespLen] = <<0, RespLen>>
      BY <2>1 DEF Shape
    <2>3. (n - 1) * RespLen + RespLen = L /\ L >= RespLen
      <3>1. n * RespLen = (n - 1) * RespLen + RespLen
        BY <1>0
      <3>2. (n - 1) * RespLen \in Nat
        BY <1>0, <1>2
      <3> HIDE DEF L
      <3> QED
        BY <3>1, <3>2, <1>0, <1>2
    <2>4. L \in 1 .. L
      BY <2>3, <1>0
    <2>5. s[L] = <<0, RespLen>>
      BY <2>2, <2>3, <2>4
    <2>6. At(s[L]) = FrameLen(FrameOf(s[L]))
      BY <2>5 DEF At, FrameOf, FrameLen
    <2>7. L \in 1 .. Len(s)
      BY <2>4, <1>0
    <2>8. At(next) = 1
      BY <2>6, <2>7, <1>0 DEF Framed, Follows
    <2> QED
      BY <2>8, <1>2
  <1>3. CASE r > 0
    <2>1. b[n * RespLen + r] = <<f, r>>
      <3>1. r \in 1 .. r
        BY <1>3, <1>0
      <3> QED
        BY <3>1 DEF Shape
    <2>2. L \in 1 .. L /\ L \in 1 .. Len(s)
      <3>1. n * RespLen \in Nat
        BY Products
      <3> DEFINE p == n * RespLen
      <3>2. p \in Nat /\ L = p + r
        BY <3>1, <1>0
      <3> HIDE DEF p, L
      <3> QED
        BY <3>2, <1>0, <1>3
    <2>3. s[L] = <<f, r>>
      BY <2>1, <2>2, <1>0
    <2>4. FrameOf(s[L]) = f /\ At(s[L]) = r
      BY <2>3 DEF FrameOf, At
    <2>5. L < L + 1 /\ (L + 1) - L = 1 /\ r + 1 <= FrameLen(f)
      BY <1>0
    <2>6. GoesOn(s)
      BY DEF Framed
    <2> HIDE DEF L
    <2>7. s[L + 1] = <<FrameOf(s[L]), At(s[L]) + ((L + 1) - L)>>
      <3>1. At(s[L]) + ((L + 1) - L) <= FrameLen(FrameOf(s[L]))
        BY <2>4, <2>5
      <3> QED
        BY <3>1, <2>2, <2>5, <2>6, <1>0 DEF GoesOn
    <2>8. s[L + 1] = <<f, r + 1>>
      BY <2>7, <2>4, <2>5
    <2> QED
      BY <2>8, <1>3 DEF L
  <1>4. (r = 0 /\ n = 0) \/ (r = 0 /\ n > 0) \/ r > 0
    <2>1. n \in Nat /\ r \in Nat
      BY <1>0
    <2> QED
      BY <2>1
  <1> QED
    BY <1>1, <1>2, <1>3, <1>4

\* The replies and the frame grow with the next byte.
LEMMA ShapeGrows ==
  ASSUME NEW b \in Seq(Byte), NEW s \in Seq(Byte), NEW c \in 0 .. MaxCodes, Shaped(b, c),
         Len(b) < Len(s), \A i \in 1 .. Len(b) : s[i] = b[i],
         Framed(s, c), Starts(s), ~IsEol(s[Len(b) + 1])
  PROVE  Shaped(Append(b, s[Len(b) + 1]), c)
  <1> DEFINE next == s[Len(b) + 1]  d == Append(b, next)
  <1>1. PICK n \in Nat, f \in 0 .. c : \E r \in 0 .. FrameLen(f) - 1 : Shape(b, n, f, r)
    BY DEF Shaped
  <1>2. PICK r \in 0 .. FrameLen(f) - 1 : Shape(b, n, f, r)
    BY <1>1
  <1>3. /\ r = 0 => At(next) = 1
        /\ r > 0 => next = <<f, r + 1>>
    <2>1. f \in 0 .. MaxCodes /\ c \in Nat
      BY LinkAssumption
    <2> QED
      BY <2>1, <1>2, NextByte
  <1>4. /\ Len(b) \in Nat /\ Len(b) + 1 \in 1 .. Len(s) /\ next \in Byte
    BY LenProperties, ElementOfSeq
  <1> HIDE DEF next
  <1>5. /\ d \in Seq(Byte) /\ Len(d) = Len(b) + 1 /\ d[Len(b) + 1] = next
        /\ \A i \in 1 .. Len(b) : d[i] = b[i]
    BY <1>4, AppendProperties
  <1> HIDE DEF d
  <1>6. RespLen \in Nat \ {0}
    BY LinkAssumption
  <1>7. FrameOf(next) \in 0 .. c /\ At(next) \in 1 .. FrameLen(FrameOf(next))
        /\ next = <<FrameOf(next), At(next)>>
    <2>1. FrameOf(next) <= c
      BY <1>4 DEF Framed, Known, next
    <2>2. FrameOf(next) \in Nat
      BY <1>4, ByteShape
    <2> QED
      BY <2>1, <2>2, <1>4, ByteShape
  \* The frame the byte belongs to.
  <1> DEFINE g == IF r = 0 THEN FrameOf(next) ELSE f
  <1>8. g \in 0 .. c /\ next = <<g, r + 1>> /\ FrameOf(next) = g /\ At(next) = r + 1
    <2>1. CASE r = 0
      BY <2>1, <1>3, <1>7
    <2>2. CASE r > 0
      <3>1. next = <<f, r + 1>>
        BY <2>2, <1>3
      <3> QED
        BY <3>1, <2>2 DEF FrameOf, At
    <2> QED
      BY <2>1, <2>2
  <1> HIDE DEF g
  <1>9. r \in Nat /\ FrameLen(g) \in Nat \ {0} /\ r + 1 <= FrameLen(g)
    <2>1. g \in 0 .. MaxCodes
      BY <1>8, LinkAssumption
    <2>2. FrameLen(g) \in Nat \ {0}
      BY <2>1, FrameLenPositive
    <2> QED
      BY <2>2, <1>7, <1>8
  <1>10. /\ n * RespLen \in Nat /\ Len(b) = n * RespLen + r
         /\ \A m \in 0 .. n - 1, k \in 1 .. RespLen : b[m * RespLen + k] = <<0, k>>
         /\ \A k \in 1 .. r : b[n * RespLen + k] = <<f, k>>
    BY <1>2, Products DEF Shape
  <1>11. \A m \in 0 .. n - 1, k \in 1 .. RespLen : d[m * RespLen + k] = <<0, k>>
    <2> TAKE m \in 0 .. n - 1, k \in 1 .. RespLen
    <2>1. m * RespLen + k \in 1 .. Len(b)
      <3> DEFINE p == m * RespLen  q == n * RespLen
      <3>1. p \in Nat /\ q \in Nat /\ p + RespLen <= q
        BY Products
      <3>2. Len(b) = q + r
        BY <1>10
      <3> HIDE DEF p, q
      <3>3. p + k \in 1 .. Len(b)
        BY <3>1, <3>2, <1>4, <1>6, <1>9
      <3> QED
        BY <3>3 DEF p
    <2> QED
      BY <2>1, <1>5, <1>10
  <1>12. \A k \in 1 .. r + 1 : d[n * RespLen + k] = <<g, k>>
    <2> TAKE k \in 1 .. r + 1
    <2>1. CASE k <= r
      <3> DEFINE p == n * RespLen
      <3>1. k \in 1 .. r /\ g = f
        BY <2>1, <1>9 DEF g
      <3>2. p \in Nat /\ Len(b) = p + r
        BY <1>10
      <3> HIDE DEF p
      <3>3. p + k \in 1 .. Len(b)
        BY <3>1, <3>2, <1>4, <1>9
      <3> QED
        BY <3>1, <3>3, <1>5, <1>10 DEF p
    <2>2. CASE k = r + 1
      <3>1. n * RespLen + k = Len(b) + 1
        BY <2>2, <1>9, <1>10
      <3> QED
        BY <3>1, <2>2, <1>5, <1>8
    <2> QED
      BY <2>1, <2>2, <1>9
  <1>13. CASE r + 1 < FrameLen(g)
    <2>1. r + 1 \in 0 .. FrameLen(g) - 1 /\ Len(d) = n * RespLen + (r + 1)
      <3> DEFINE p == n * RespLen  z == FrameLen(g)
      <3>1. p \in Nat /\ Len(d) = p + r + 1 /\ z \in Nat /\ r + 1 < z
        BY <1>13, <1>5, <1>9, <1>10
      <3> HIDE DEF p, z
      <3>2. r + 1 \in 0 .. z - 1 /\ Len(d) = p + (r + 1)
        BY <3>1, <1>9
      <3> QED
        BY <3>2 DEF p, z
    <2>2. Shape(d, n, g, r + 1)
      BY <2>1, <1>11, <1>12 DEF Shape
    <2> QED
      BY <2>1, <2>2, <1>8 DEF Shaped, d, next
  \* A reply that is complete; a code's last byte would be its CR.
  <1>14. CASE r + 1 = FrameLen(g)
    <2>1. g = 0 /\ r + 1 = RespLen
      <3>1. ~IsEol(next)
        BY DEF next
      <3> QED
        BY <3>1, <1>14, <1>4, <1>8, ByteShape DEF FrameLen
    <2>2. Len(d) = (n + 1) * RespLen + 0 /\ (n + 1) * RespLen = n * RespLen + RespLen
      <3>1. (n + 1) * RespLen = n * RespLen + RespLen
        BY Products
      <3>2. /\ n * RespLen \in Nat /\ r \in Nat /\ RespLen \in Nat
            /\ Len(d) = (n * RespLen + r) + 1
        BY <1>5, <1>6, <1>9, <1>10
      <3> QED
        BY ONLY <3>1, <2>1, <3>2
    <2>3. \A m \in 0 .. (n + 1) - 1, k \in 1 .. RespLen : d[m * RespLen + k] = <<0, k>>
      <3> TAKE m \in 0 .. (n + 1) - 1, k \in 1 .. RespLen
      <3>1. CASE m = n
        BY <3>1, <2>1, <1>12
      <3>2. CASE m # n
        <4>1. m \in 0 .. n - 1
          BY <3>2
        <4> QED
          BY <4>1, <1>11
      <3> QED
        BY <3>1, <3>2
    <2>4. Shape(d, n + 1, g, 0)
      BY <2>2, <2>3 DEF Shape
    <2>5. 0 \in 0 .. FrameLen(g) - 1 /\ n + 1 \in Nat
      BY <1>9
    <2> QED
      BY <2>4, <2>5, <1>8 DEF Shaped, d, next
  <1> QED
    BY <1>9, <1>13, <1>14

LEMMA StreamTyped ==
  /\ LinkTypeOK =>
       /\ ring \in Seq(Byte) /\ line \in Seq(Byte) /\ buffer \in Seq(Byte)
       /\ wire \in Seq(Byte) /\ stream \in Seq(Byte) /\ codes \in Nat
  /\ LinkTypeOK' =>
       /\ ring' \in Seq(Byte) /\ line' \in Seq(Byte) /\ buffer' \in Seq(Byte)
       /\ wire' \in Seq(Byte) /\ stream' \in Seq(Byte) /\ codes' \in Nat
  <1>1. \A a, b, c \in Seq(Byte) : b \o c \in Seq(Byte) /\ a \o (b \o c) \in Seq(Byte)
    BY ConcatProperties
  <1>2. \A n \in 0 .. MaxCodes : n \in Nat
    BY LinkAssumption
  <1> QED
    BY <1>1, <1>2 DEF LinkTypeOK, wire, stream

LEMMA EmptyBuffer ==
  /\ \A w \in Seq(Byte) : <<>> \o w = w
  /\ NoEol(<<>>)
  /\ \A c \in Nat : Shaped(<<>>, c)
  <1>1. \A w \in Seq(Byte) : <<>> \o w = w
    BY NoBytes
  <1>2. Len(<<>>) = 0
    BY EmptySeq
  <1>3. NoEol(<<>>)
    BY <1>2 DEF NoEol
  <1>4. Shape(<<>>, 0, 0, 0)
    BY <1>2, LinkAssumption DEF Shape
  <1>5. 0 \in 0 .. FrameLen(0) - 1
    BY LinkAssumption DEF FrameLen
  <1>6. \A c \in Nat : 0 \in 0 .. c
    OBVIOUS
  <1> QED
    BY <1>1, <1>3, <1>4, <1>5, <1>6 DEF Shaped

\* What is left of bytes is less of them.
LEMMA WholeRest ==
  ASSUME NEW s
  PROVE  Rest(s, 0, s)
  BY DEF Rest

\* A frame comes in at the end of the line.
LEMMA FrameComes ==
  ASSUME LinkTypeOK, LinkTypeOK', LinkInv,
         NEW frame \in Seq(Byte), NEW f \in 0 .. codes',
         Len(frame) = FrameLen(f), \A i \in 1 .. FrameLen(f) : frame[i] = <<f, i>>,
         codes <= codes', line' = line \o frame,
         UNCHANGED <<pc, buffer, ring, histVars>>
  PROVE  LinkInv'
  <1>1. wire' = wire \o frame /\ stream' = stream \o frame
    <2>1. /\ ring \in Seq(Byte) /\ line \in Seq(Byte) /\ buffer \in Seq(Byte)
          /\ wire \in Seq(Byte)
      BY StreamTyped
    <2>2. (ring \o line) \o frame = ring \o (line \o frame)
      <3>1. ring \in Seq(Byte) /\ line \in Seq(Byte) /\ frame \in Seq(Byte)
        BY <2>1
      <3> QED
        BY ONLY <3>1, Associative
    <2>3. wire' = wire \o frame
      BY <2>2 DEF wire
    <2>4. (buffer \o wire) \o frame = buffer \o (wire \o frame)
      <3> DEFINE w == wire
      <3>1. w \in Seq(Byte)
        BY <2>1
      <3> HIDE DEF w
      <3>2. (buffer \o w) \o frame = buffer \o (w \o frame)
        <4>1. buffer \in Seq(Byte) /\ w \in Seq(Byte) /\ frame \in Seq(Byte)
          BY <2>1, <3>1
        <4> QED
          BY ONLY <4>1, Associative
      <3> QED
        BY <3>2 DEF w
    <2>5. stream' = stream \o frame
      BY <2>3, <2>4 DEF stream
    <2> QED
      BY <2>3, <2>5
  <1>2. codes' \in Nat /\ codes \in Nat /\ codes' \in 0 .. MaxCodes /\ f \in 0 .. MaxCodes
    <2>1. codes' \in 0 .. MaxCodes /\ codes \in 0 .. MaxCodes
      BY DEF LinkTypeOK
    <2> QED
      BY <2>1, LinkAssumption
  <1>3. \A s \in Seq(Byte) : Framed(s, codes) => Framed(s \o frame, codes')
    <2> TAKE s \in Seq(Byte)
    <2> HAVE Framed(s, codes)
    <2>1. Framed(s, codes')
      BY <1>2, FramedMore
    <2> QED
      BY <2>1, <1>2, FrameAdded
  <1>4. Starts(frame)
    <2>1. 1 \in 1 .. FrameLen(f)
      BY <1>2, FrameLenPositive
    <2> QED
      BY <2>1 DEF Starts, At
  <1>5. Shaped(buffer, codes) => Shaped(buffer, codes')
    <2>1. 0 .. codes \subseteq 0 .. codes'
      BY <1>2
    <2> QED
      BY <2>1 DEF Shaped
  <1> QED
    BY <1>1, <1>3, <1>4, <1>5, StreamTyped, StartsMore DEF LinkInv, histVars

\* Nothing happens to the bytes.
LEMMA NothingGoes ==
  ASSUME LinkInv, UNCHANGED <<wire, buffer, codes, histVars>>,
         pc' \in {"send", "reply"} => pc \in {"send", "reply"}
  PROVE  LinkInv'
  <1>1. stream' = stream
    BY DEF stream
  <1> QED
    BY <1>1 DEF LinkInv, histVars

\* The buffer is emptied.
LEMMA BufferGoes ==
  ASSUME LinkTypeOK, LinkTypeOK', LinkInv, UNCHANGED <<wire, codes, lost>>,
         buffer' = <<>>, cut' = (cut \/ buffer # <<>>), own' => ~lost
  PROVE  LinkInv'
  <1>1. stream' = wire /\ NoEol(buffer') /\ Shaped(buffer', codes')
    BY EmptyBuffer, StreamTyped DEF stream
  <1>2. ~cut' => buffer = <<>> /\ ~cut
    OBVIOUS
  <1>3. buffer = <<>> => stream = wire
    BY EmptyBuffer, StreamTyped DEF stream
  <1> QED
    BY <1>1, <1>2, <1>3 DEF LinkInv

\* A command takes bytes off the wire.
LEMMA CommandTakes ==
  ASSUME LinkTypeOK, LinkTypeOK', LinkInv, pc \in {"send", "reply"},
         UNCHANGED <<buffer, codes, lost, own>>,
         NEW k \in Nat, Rest(wire, k, wire'),
         ~cut' => ~cut /\ (Framed(wire, codes) /\ Starts(wire) => Starts(wire'))
  PROVE  LinkInv'
  <1>1. wire \in Seq(Byte) /\ wire' \in Seq(Byte) /\ codes \in Nat
    BY StreamTyped
  <1>2. Framed(wire, codes) => Framed(wire', codes')
    BY <1>1, RestFramed
  <1>3. own \/ ~cut => buffer = <<>>
    BY DEF LinkInv
  <1>4. buffer = <<>> => /\ stream = wire /\ stream' = wire'
                         /\ Shaped(buffer', codes')
    BY EmptyBuffer, StreamTyped DEF stream
  <1> QED
    BY <1>2, <1>3, <1>4 DEF LinkInv

\* Bytes went elsewhere.
LEMMA BytesGo ==
  ASSUME LinkTypeOK, LinkTypeOK', LinkInv, UNCHANGED <<buffer, codes>>,
         cut', ~own', lost \/ ~lost' => lost' = lost,
         ~lost' => \E k \in Nat : Rest(wire, k, wire')
  PROVE  LinkInv'
  <1>1. wire \in Seq(Byte) /\ wire' \in Seq(Byte) /\ codes \in Nat
    BY StreamTyped
  <1>2. ~lost' => Framed(wire', codes')
    BY <1>1, RestFramed DEF LinkInv
  <1> QED
    BY <1>2 DEF LinkInv

\* After a byte that ends its frame another frame starts.
LEMMA StartsAfter ==
  ASSUME NEW s \in Seq(Byte), NEW t \in Seq(Byte), NEW k \in Nat \ {0}, NEW c,
         Framed(s, c), Rest(s, k, t), k <= Len(s), At(s[k]) = FrameLen(FrameOf(s[k]))
  PROVE  Starts(t)
  <1>1. Len(s) \in Nat /\ Len(t) \in Nat /\ Len(s) = k + Len(t)
    BY LenProperties DEF Rest
  <1> SUFFICES ASSUME Len(t) > 0 PROVE At(t[1]) = 1
    BY DEF Starts
  <1>2. 1 \in 1 .. Len(t) /\ k \in 1 .. Len(s) /\ k + 1 \in 1 .. Len(s)
    BY <1>1
  <1>3. t[1] = s[k + 1]
    BY <1>2 DEF Rest
  <1>4. At(s[k + 1]) = 1
    BY <1>2 DEF Framed, Follows
  <1> QED
    BY <1>3, <1>4

\* A read takes a byte.
LEMMA ReadTakes ==
  ASSUME LinkTypeOK, LinkTypeOK', LinkInv, ReadByte
  PROVE  LinkInv'
  <1> DEFINE byte == Head(ring)
  <1>1. /\ ring \in Seq(Byte) /\ line \in Seq(Byte) /\ buffer \in Seq(Byte) /\ wire \in Seq(Byte)
        /\ stream \in Seq(Byte) /\ codes \in Nat /\ wire' \in Seq(Byte) /\ stream' \in Seq(Byte)
    BY StreamTyped
  <1>2. /\ ring # <<>> /\ ring' = Tail(ring) /\ UNCHANGED <<line, codes, lost>>
        /\ pc \in {"read_scan", "try_read_scan"} /\ pc' \notin {"send", "reply"}
    BY DEF ReadByte, Overflow, Push, moduleVars
  <1>3. byte \in Byte /\ byte = ring[1] /\ Len(ring) \in Nat \ {0} /\ Rest(ring, 1, Tail(ring))
    BY <1>1, <1>2, TailTyped
  <1>4. Rest(wire, 1, wire') /\ wire[1] = byte /\ Len(wire) \in Nat \ {0}
    <2>1. Rest(wire, 1, wire')
      BY <1>1, <1>2, <1>3, TailTyped, RestOfBoth DEF wire
    <2>2. Len(wire) = Len(ring) + Len(line) /\ Len(line) \in Nat
          /\ \A i \in 1 .. Len(ring) + Len(line) :
               wire[i] = IF i <= Len(ring) THEN ring[i] ELSE line[i - Len(ring)]
      BY <1>1, ConcatProperties, LenProperties DEF wire
    <2>3. 1 \in 1 .. Len(ring) + Len(line) /\ 1 <= Len(ring)
      BY <1>3, <2>2
    <2> QED
      BY <2>1, <2>2, <2>3, <1>3
  <1>5. Framed(wire, codes) => Framed(wire', codes')
    BY <1>1, <1>2, <1>4, RestFramed
  <1>8. CASE Overflow
    <2>1. cut' /\ ~own' /\ UNCHANGED <<buffer, codes>> /\ lost' = lost
      BY <1>8, <1>2 DEF Overflow
    <2> QED
      BY <2>1, <1>4, BytesGo
  <1>6. CASE Push /\ IsEol(byte)
    <2>1. buffer' = <<>> /\ UNCHANGED <<cut, own>>
      BY <1>6 DEF Push
    <2>2. stream' = wire' /\ NoEol(buffer') /\ Shaped(buffer', codes')
      BY <2>1, <1>1, <1>2, EmptyBuffer DEF stream
    <2>3. ASSUME Framed(wire, codes) PROVE Starts(wire')
      <3>1. At(wire[1]) = FrameLen(FrameOf(wire[1]))
        BY <1>3, <1>4, <1>6, ByteShape DEF FrameLen
      <3>2. 1 \in Nat \ {0} /\ 1 <= Len(wire)
        BY <1>4
      <3> QED
        BY <3>1, <3>2, <2>3, <1>1, <1>4, StartsAfter
    <2> QED
      BY <2>1, <2>2, <2>3, <1>2, <1>5 DEF LinkInv
  <1>7. CASE Push /\ ~IsEol(byte)
    <2>1. buffer' = Append(buffer, byte) /\ UNCHANGED <<cut, own>>
      BY <1>7 DEF Push
    <2>2. stream' = stream
      <3> DEFINE b == Append(buffer, byte)  u == Tail(ring)
      <3>1. b \in Seq(Byte) /\ u \in Seq(Byte)
        BY <1>1, <1>2, <1>3, AppendProperties, TailTyped
      <3>2. b \o u = buffer \o ring
        BY <1>1, <1>2, ByteMoves
      <3> HIDE DEF b, u
      <3>3. b \o (u \o line) = (b \o u) \o line
        <4>1. b \in Seq(Byte) /\ u \in Seq(Byte) /\ line \in Seq(Byte)
          BY <3>1, <1>1
        <4> QED
          BY ONLY <4>1, Associative
      <3>4. (buffer \o ring) \o line = buffer \o (ring \o line)
        <4>1. buffer \in Seq(Byte) /\ ring \in Seq(Byte) /\ line \in Seq(Byte)
          BY <1>1
        <4> QED
          BY ONLY <4>1, Associative
      <3> QED
        BY <3>2, <3>3, <3>4, <2>1, <1>2 DEF stream, wire, b, u
    <2>3. NoEol(buffer')
      <3>1. /\ Len(buffer) \in Nat /\ Len(buffer') = Len(buffer) + 1
            /\ buffer'[Len(buffer) + 1] = byte
            /\ \A i \in 1 .. Len(buffer) : buffer'[i] = buffer[i]
        BY <2>1, <1>1, <1>3, LenProperties, AppendProperties
      <3> SUFFICES ASSUME NEW k \in 1 .. Len(buffer) + 1 PROVE ~IsEol(buffer'[k])
        BY <3>1 DEF NoEol
      <3>2. CASE k = Len(buffer) + 1
        BY <3>2, <3>1, <1>7
      <3>3. CASE k \in 1 .. Len(buffer)
        BY <3>3, <3>1 DEF LinkInv, NoEol
      <3> QED
        BY <3>1, <3>2, <3>3
    <2>4. ASSUME ~cut PROVE Shaped(buffer', codes')
      <3>1. Framed(stream, codes) /\ Starts(stream) /\ Shaped(buffer, codes)
        BY <2>4 DEF LinkInv
      <3>2. /\ Len(buffer) \in Nat /\ Len(stream) = Len(buffer) + Len(wire)
            /\ \A i \in 1 .. Len(buffer) + Len(wire) :
                 stream[i] = IF i <= Len(buffer) THEN buffer[i] ELSE wire[i - Len(buffer)]
        BY <1>1, LenProperties, ConcatProperties DEF stream
      <3>3. /\ Len(buffer) < Len(stream)
            /\ \A i \in 1 .. Len(buffer) : stream[i] = buffer[i]
            /\ stream[Len(buffer) + 1] = byte
        <4>1. /\ Len(buffer) + 1 \in 1 .. Len(buffer) + Len(wire)
              /\ ~(Len(buffer) + 1 <= Len(buffer)) /\ (Len(buffer) + 1) - Len(buffer) = 1
              /\ \A i \in 1 .. Len(buffer) : i \in 1 .. Len(buffer) + Len(wire) /\ i <= Len(buffer)
          BY <3>2, <1>4
        <4>2. stream[Len(buffer) + 1] = byte
          BY <4>1, <3>2, <1>4
        <4> QED
          BY <4>1, <4>2, <3>2, <1>4
      <3>4. Shaped(Append(buffer, stream[Len(buffer) + 1]), codes)
        <4>1. codes \in 0 .. MaxCodes
          BY DEF LinkTypeOK
        <4> QED
          BY <4>1, <3>1, <3>3, <1>1, <1>7, ShapeGrows
      <3> QED
        BY <3>3, <3>4, <2>1, <1>2
    <2> QED
      BY <2>1, <2>2, <2>3, <2>4, <1>2, <1>5 DEF LinkInv
  <1> QED
    BY <1>6, <1>7, <1>8 DEF ReadByte

LEMMA LinkInvInit ==
  ASSUME Init
  PROVE  LinkInv
  <1>1. \A c \in Nat : Framed(<<>>, c) /\ Starts(<<>>) /\ <<>> \o <<>> = <<>>
    <2>1. Len(<<>>) = 0 /\ <<>> \o <<>> = <<>>
      BY EmptySeq, NoBytes
    <2> QED
      BY <2>1 DEF Framed, Known, GoesOn, Follows, Ends, Starts
  <1>2. buffer = <<>> /\ wire = <<>> /\ stream = <<>> /\ codes = 0 /\ ~lost /\ ~own
    BY <1>1 DEF Init, wire, stream
  <1> QED
    BY <1>1, <1>2, EmptyBuffer DEF LinkInv

LEMMA LinkInvStep ==
  ASSUME LinkTypeOK, LinkTypeOK', LinkInv, LinkStep
  PROVE  LinkInv'
  <1>0. /\ ring \in Seq(Byte) /\ line \in Seq(Byte) /\ buffer \in Seq(Byte) /\ wire \in Seq(Byte)
        /\ stream \in Seq(Byte) /\ codes \in Nat
        /\ ring' \in Seq(Byte) /\ line' \in Seq(Byte) /\ wire' \in Seq(Byte)
        /\ Len(ring) \in Nat /\ <<>> \o line' = line'
    BY StreamTyped, LenProperties, EmptyBuffer
  <1>1. CASE ModuleReads
    <2>1. codes' \in 1 .. MaxCodes /\ codes <= codes' /\ codes' \in 0 .. codes'
      BY <1>1, LinkAssumption DEF ModuleReads, LinkTypeOK
    <2>2. /\ Code(codes') \in Seq(Byte) /\ Len(Code(codes')) = FrameLen(codes')
          /\ \A i \in 1 .. FrameLen(codes') : Code(codes')[i] = <<codes', i>>
      BY <2>1, FrameShape
    <2>3. line' = line \o Code(codes') /\ UNCHANGED <<pc, buffer, ring, histVars>>
      BY <1>1 DEF ModuleReads
    <2> QED
      BY <2>1, <2>2, <2>3, FrameComes
  <1>2. CASE ModuleAnswers
    <2>1. UNCHANGED <<pc, buffer, ring, codes, histVars>>
      BY <1>2 DEF ModuleAnswers
    <2>2. CASE line' = line
      BY <2>1, <2>2, NothingGoes DEF wire
    <2>3. CASE line' = line \o Reply
      <3>1. 0 \in 0 .. codes' /\ codes <= codes'
        BY <2>1, <1>0
      <3> QED
        BY <3>1, <2>1, <2>3, FrameShape, FrameComes
    <2> QED
      BY <1>2, <2>2, <2>3 DEF ModuleAnswers
  <1>3. CASE Arrive
    <2>1. line # <<>> /\ line' = Tail(line) /\ UNCHANGED <<pc, buffer, codes>>
      BY <1>3 DEF Arrive
    <2>2. CASE ring' = Append(ring, Head(line)) /\ UNCHANGED histVars
      <3>1. wire' = wire
        <4>1. Append(ring, Head(line)) \o Tail(line) = ring \o line
          BY <2>1, <1>0, ByteMoves
        <4> QED
          BY <4>1, <2>1, <2>2 DEF wire
      <3> QED
        BY <3>1, <2>1, <2>2, NothingGoes
    <2>3. CASE lost' /\ cut' /\ ~own'
      BY <2>1, <2>3, BytesGo
    <2> QED
      BY <1>3, <2>2, <2>3 DEF Arrive
  <1>4. CASE CallBegins
    <2>1. CallShape
      BY <1>4, CallBeginsShape
    <2>2. UNCHANGED <<wire, codes, lost>> /\ cut' = (cut \/ buffer # <<>>)
      BY <2>1 DEF CallShape, moduleVars, wire
    <2>3. CASE buffer' = <<>> /\ own' = ~lost
      BY <2>2, <2>3, BufferGoes
    <2>4. CASE own' = FALSE /\ UNCHANGED buffer
      <3>1. CASE buffer = <<>>
        BY <3>1, <2>2, <2>4, BufferGoes
      <3>2. CASE buffer # <<>>
        <4>1. Rest(wire, 0, wire')
          BY <2>2, WholeRest
        <4> QED
          BY <4>1, <3>2, <2>2, <2>4, BytesGo
      <3> QED
        BY <3>1, <3>2
    <2> QED
      BY <2>1, <2>3, <2>4 DEF CallShape
  <1>5. CASE SendCommand
    <2>1. pc \in {"send", "reply"} /\ UNCHANGED <<buffer, codes, lost, own>>
      BY <1>5 DEF SendCommand
    <2>2. CASE drain_uart
      <3>1. PICK n \in 0 .. Len(line) :
              /\ ring' = <<>> /\ Rest(line, n, line')
              /\ n < Len(line) => line[n + 1][2] = 1
              /\ ~cut' => ~cut
        BY <2>2, DrainShape
      <3>2. n \in Nat /\ Len(ring) + n \in Nat /\ wire' = line'
        BY <3>1, <1>0 DEF wire
      <3>3. Rest(wire, Len(ring) + n, wire')
        BY <3>1, <3>2, <1>0, RestOfBoth DEF wire
      <3>4. Starts(wire')
        <4>1. Len(line) = n + Len(line') /\ \A i \in 1 .. Len(line') : line'[i] = line[n + i]
          BY <3>1 DEF Rest
        <4> SUFFICES ASSUME Len(line') > 0 PROVE At(line'[1]) = 1
          BY <3>2 DEF Starts
        <4>2. Len(line') \in Nat /\ Len(line) \in Nat
          BY <1>0, LenProperties
        <4>3. 1 \in 1 .. Len(line') /\ n < Len(line)
          BY <4>1, <4>2, <3>2
        <4> QED
          BY <4>1, <4>3, <3>1 DEF At
      <3> QED
        BY <2>1, <3>1, <3>2, <3>3, <3>4, CommandTakes
    <2>3. CASE UNCHANGED <<line, ring, cut>>
      <3>1. wire' = wire /\ Rest(wire, 0, wire')
        BY <2>3, WholeRest DEF wire
      <3> QED
        BY <3>1, <2>1, <2>3, CommandTakes
    <2> QED
      BY <1>5, <2>2, <2>3 DEF SendCommand
  <1>6. CASE ReadReply
    <2>1. /\ pc \in {"send", "reply"} /\ UNCHANGED <<buffer, codes, lost, own, line>>
          /\ cut' = (cut \/ \E k \in 1 .. RespLen : OfCode(ring[k]))
          /\ ring' = SubSeq(ring, RespLen + 1, Len(ring))
          /\ RespLen \in 0 .. Len(ring) /\ RespLen \in Nat \ {0}
      BY <1>0, <1>6, LinkAssumption DEF ReadReply, moduleVars
    <2>2. Rest(wire, RespLen, wire')
      <3>1. Rest(ring, RespLen, ring')
        BY <2>1, <1>0, RestTyped
      <3> QED
        BY <3>1, <2>1, <1>0, RestOfBoth DEF wire
    \* The reply taken was a reply, so that a frame starts behind it.
    <2>3. ASSUME ~cut', Framed(wire, codes), Starts(wire) PROVE Starts(wire')
      <3>1. /\ Len(line) \in Nat /\ Len(wire) = Len(ring) + Len(line)
            /\ \A i \in 1 .. Len(ring) + Len(line) :
                 wire[i] = IF i <= Len(ring) THEN ring[i] ELSE line[i - Len(ring)]
        BY <1>0, LenProperties, ConcatProperties DEF wire
      <3>2. 1 \in 1 .. Len(ring) + Len(line) /\ 1 <= Len(ring) /\ 1 \in 1 .. RespLen
            /\ 1 \in 1 .. Len(ring) /\ RespLen \in 1 .. Len(wire) /\ 1 \in 1 .. Len(wire)
            /\ Len(wire) > 0
        BY <3>1, <2>1, <1>0
      <3>3. wire[1] = ring[1] /\ ring[1] \in Byte /\ ~OfCode(ring[1])
        BY <3>1, <3>2, <2>1, <2>3, <1>0, ElementOfSeq
      <3>4. FrameOf(wire[1]) = 0 /\ At(wire[1]) = 1
        BY <3>2, <3>3, <2>3, ByteShape DEF Starts
      <3>5. wire[RespLen] = <<0, RespLen>>
        <4>1. CASE RespLen = 1
          BY <4>1, <3>3, <3>4, ByteShape
        <4>2. CASE RespLen > 1
          <5>1. /\ 1 < RespLen
                /\ At(wire[1]) + (RespLen - 1) <= FrameLen(FrameOf(wire[1]))
            BY <4>2, <3>4, <2>1 DEF FrameLen
          <5>2. GoesOn(wire)
            BY <2>3 DEF Framed
          <5>3. wire[RespLen] = <<FrameOf(wire[1]), At(wire[1]) + (RespLen - 1)>>
            BY <5>1, <5>2, <3>2 DEF GoesOn
          <5>4. 1 + (RespLen - 1) = RespLen
            BY <2>1
          <5> QED
            BY <5>3, <5>4, <3>4
        <4> QED
          BY <4>1, <4>2, <2>1
      <3>6. At(wire[RespLen]) = FrameLen(FrameOf(wire[RespLen]))
        BY <3>5 DEF At, FrameOf, FrameLen
      <3>7. RespLen <= Len(wire)
        BY <3>2
      <3> QED
        BY <3>6, <3>7, <2>1, <2>2, <2>3, <1>0, StartsAfter
    <2>4. ~cut' => ~cut
      BY <2>1
    <2> QED
      BY <2>1, <2>2, <2>3, <2>4, CommandTakes
  <1>7. CASE ReplyTimeout
    <2>1. /\ pc \in {"send", "reply"} /\ UNCHANGED <<buffer, codes, lost, own, line>>
          /\ cut' = (cut \/ ring # <<>>) /\ ring' = <<>>
      BY <1>7 DEF ReplyTimeout, moduleVars
    <2>2. Rest(wire, Len(ring) + 0, wire') /\ Len(ring) + 0 \in Nat
      <3>1. Rest(line, 0, line') /\ wire' = line'
        BY <2>1, <1>0, WholeRest DEF wire
      <3> QED
        BY <3>1, <1>0, RestOfBoth DEF wire
    <2>3. ~cut' => ~cut /\ wire' = wire
      BY <2>1 DEF wire
    <2> QED
      BY <2>1, <2>2, <2>3, CommandTakes
  <1>8. ASSUME NEW how \in {"read_scan", "try_read_scan"}, StartRead(how)
        PROVE  LinkInv'
    <2>1. UNCHANGED <<wire, codes, lost, own>> /\ pc' \notin {"send", "reply"}
      BY <1>8 DEF StartRead, moduleVars, wire
    <2>2. CASE ClearBuffer
      BY <2>1, <2>2, BufferGoes DEF ClearBuffer, LinkInv
    <2>3. CASE UNCHANGED <<buffer, cut>>
      BY <2>1, <2>3, NothingGoes DEF histVars
    <2> QED
      BY <1>8, <2>2, <2>3 DEF StartRead
  <1>9. CASE ReadByte
    BY <1>9, ReadTakes
  <1>10. CASE ReadEnds \/ ReadFails \/ StateMoves \/ UNCHANGED vars
    <2>1. UNCHANGED <<ring, line, buffer, codes, histVars>> /\ (pc' = pc \/ pc' = "idle")
      BY <1>10 DEF ReadEnds, ReadFails, StateMoves, vars, moduleVars
    <2> QED
      BY <2>1, NothingGoes DEF wire
  <1>11. CASE poll_uart
    <2>1. ring # <<>> /\ ring' = Tail(ring) /\ UNCHANGED <<line, buffer, codes, lost>>
          /\ cut' /\ ~own'
      BY <1>11 DEF poll_uart, moduleVars
    <2>2. Rest(wire, 1, wire')
      BY <2>1, <1>0, TailTyped, RestOfBoth DEF wire
    <2> QED
      BY <2>1, <2>2, BytesGo
  <1>12. CASE reset_to_ready
    <2>1. UNCHANGED <<wire, codes, lost, own>> /\ ClearBuffer
      BY <1>12 DEF reset_to_ready, moduleVars, wire
    <2> QED
      BY <2>1, BufferGoes DEF ClearBuffer, LinkInv
  <1> QED
    BY <1>1, <1>2, <1>3, <1>4, <1>5, <1>6, <1>7, <1>8, <1>9, <1>10, <1>11, <1>12 DEF LinkStep

----------------------------------------------------------------------------
(* What a read returns *)

\* A part of bytes.
LEMMA PartOf ==
  ASSUME NEW s \in Seq(Byte), NEW a \in Nat, NEW n \in Nat, a + n <= Len(s)
  PROVE  /\ SubSeq(s, a + 1, a + n) \in Seq(Byte) /\ Len(SubSeq(s, a + 1, a + n)) = n
         /\ \A k \in 1 .. n : SubSeq(s, a + 1, a + n)[k] = s[a + k]
  <1>1. Len(s) \in Nat
    BY LenProperties
  <1>2. \A i \in a + 1 .. a + n : s[i] \in Byte
    BY <1>1, ElementOfSeq
  <1> DEFINE t == SubSeq(s, a + 1, a + n)
  <1>3. /\ t \in Seq(Byte)
        /\ Len(t) = IF a + 1 <= a + n THEN (a + n) - (a + 1) + 1 ELSE 0
        /\ \A i \in 1 .. (a + n) - (a + 1) + 1 : t[i] = s[a + 1 + i - 1]
    <2> DEFINE x == a + 1  y == a + n
    <2>1. x \in Int /\ y \in Int /\ \A i \in x .. y : s[i] \in Byte
      BY <1>2
    <2> HIDE DEF x, y
    <2>2. /\ SubSeq(s, x, y) \in Seq(Byte)
          /\ Len(SubSeq(s, x, y)) = IF x <= y THEN y - x + 1 ELSE 0
          /\ \A i \in 1 .. y - x + 1 : SubSeq(s, x, y)[i] = s[x + i - 1]
      BY ONLY <2>1, SubSeqProperties
    <2> QED
      BY <2>2 DEF x, y
  <1> HIDE DEF t
  <1>4. Len(t) = n
    BY <1>3
  <1>5. \A k \in 1 .. n : t[k] = s[a + k]
    <2> TAKE k \in 1 .. n
    <2>1. k \in 1 .. (a + n) - (a + 1) + 1 /\ a + 1 + k - 1 = a + k
      OBVIOUS
    <2> QED
      BY <2>1, <1>3
  <1> QED
    BY <1>3, <1>4, <1>5 DEF t

LEMMA Quotient ==
  ASSUME NEW a \in Nat, NEW d \in Nat \ {0}
  PROVE  a \div d \in Nat /\ (a \div d) * d <= a /\ a < (a \div d) * d + d
  <1>1. a \div d \in Nat /\ a % d \in 0 .. d - 1 /\ a = (a \div d) * d + (a % d)
    OBVIOUS
  <1> DEFINE x == (a \div d) * d  y == a % d
  <1>2. x \in Int /\ y \in 0 .. d - 1 /\ a = x + y
    BY <1>1
  <1> HIDE DEF x, y
  <1>3. x <= a /\ a < x + d
    BY <1>2
  <1> QED
    BY <1>1, <1>3 DEF x

\* n replies in front of something else are what strip_leaked_responses drops.
LEMMA StripDropsReplies ==
  ASSUME NEW b \in Seq(Byte), NEW n \in Nat, NEW f \in Nat \ {0}, NEW r \in Nat \ {0},
         Shape(b, n, f, r)
  PROVE  strip_leaked_responses(b) = SubSeq(b, n * RespLen + 1, Len(b))
  <1> DEFINE q == Len(b) \div RespLen
             leading == {m \in 0 .. Len(b) \div RespLen : \A i \in 1 .. m : IsReply(Slice(b, i))}
  <1>0. /\ RespLen \in Nat \ {0} /\ Len(b) \in Nat /\ n * RespLen \in Nat
        /\ Len(b) = n * RespLen + r
        /\ \A m \in 0 .. n - 1, k \in 1 .. RespLen : b[m * RespLen + k] = <<0, k>>
        /\ \A k \in 1 .. r : b[n * RespLen + k] = <<f, k>>
    BY LinkAssumption, LenProperties, Products DEF Shape
  <1>1. q \in Nat /\ q * RespLen <= Len(b) /\ Len(b) < q * RespLen + RespLen
    BY <1>0, Quotient
  <1> HIDE DEF q
  <1>2. n <= q
    <2> SUFFICES ASSUME q < n PROVE FALSE
      BY <1>1
    <2>1. q \in 0 .. n - 1
      BY <1>1
    <2> DEFINE x == q * RespLen  y == n * RespLen
    <2>2. x \in Nat /\ x + RespLen <= y /\ y \in Nat
      BY <2>1, <1>0, Products
    <2>3. Len(b) < x + RespLen /\ Len(b) = y + r
      BY <1>0, <1>1
    <2> HIDE DEF x, y
    <2> QED
      BY <2>2, <2>3, <1>0
  <1>3. ASSUME NEW i \in 1 .. q
        PROVE  /\ Len(Slice(b, i)) = RespLen /\ Slice(b, i) \in Seq(Byte)
               /\ \A k \in 1 .. RespLen : Slice(b, i)[k] = b[(i - 1) * RespLen + k]
    <2>1. i - 1 \in 0 .. q - 1 /\ (i - 1) + 1 = i /\ i - 1 \in Nat
      BY <1>1
    <2>2. (i - 1) * RespLen \in Nat /\ (i - 1) * RespLen + RespLen <= q * RespLen
          /\ i * RespLen = (i - 1) * RespLen + RespLen
      BY <2>1, <1>1, Products
    <2>3. (i - 1) * RespLen + RespLen <= Len(b)
      <3>1. q * RespLen \in Nat
        BY <1>1, Products
      <3> DEFINE x == (i - 1) * RespLen  y == q * RespLen
      <3>2. x \in Nat /\ y \in Nat /\ x + RespLen <= y /\ y <= Len(b)
        BY <2>2, <3>1, <1>1
      <3> HIDE DEF x, y
      <3>3. x + RespLen <= Len(b)
        BY <3>2, <1>0
      <3> QED
        BY <3>3 DEF x
    <2> DEFINE x == (i - 1) * RespLen
    <2>4. x \in Nat /\ x + RespLen <= Len(b) /\ Slice(b, i) = SubSeq(b, x + 1, x + RespLen)
      BY <2>2, <2>3 DEF Slice
    <2> HIDE DEF x
    <2>5. /\ Len(Slice(b, i)) = RespLen /\ Slice(b, i) \in Seq(Byte)
          /\ \A k \in 1 .. RespLen : Slice(b, i)[k] = b[x + k]
      <3> DEFINE u == SubSeq(b, x + 1, x + RespLen)
      <3>1. u \in Seq(Byte) /\ Len(u) = RespLen /\ \A k \in 1 .. RespLen : u[k] = b[x + k]
        <4>1. RespLen \in Nat /\ x \in Nat /\ x + RespLen <= Len(b)
          BY <1>0, <2>4
        <4> QED
          BY ONLY <4>1, b \in Seq(Byte), PartOf
      <3>2. Slice(b, i) = u
        BY <2>4
      <3> HIDE DEF u
      <3> QED
        BY ONLY <3>1, <3>2
    <2> QED
      BY <2>5 DEF x
  <1>4. \A i \in 1 .. n : i \in 1 .. q /\ IsReply(Slice(b, i))
    <2> TAKE i \in 1 .. n
    <2>1. i \in 1 .. q /\ i - 1 \in 0 .. n - 1
      BY <1>1, <1>2
    <2>2. \A k \in 1 .. RespLen : Slice(b, i)[k] = <<0, k>>
      BY <2>1, <1>0, <1>3
    <2>3. DOMAIN Slice(b, i) = 1 .. RespLen
      BY <2>1, <1>3, LenProperties
    <2> QED
      BY <2>1, <2>2, <2>3 DEF IsReply
  <1>5. n + 1 <= q => ~IsReply(Slice(b, n + 1))
    <2> HAVE n + 1 <= q
    <2>1. n + 1 \in 1 .. q /\ (n + 1) - 1 = n /\ 1 \in 1 .. RespLen /\ 1 \in 1 .. r
      BY <1>0, <1>1
    <2>2. Slice(b, n + 1)[1] = <<f, 1>>
      BY <2>1, <1>0, <1>3
    <2>3. DOMAIN Slice(b, n + 1) = 1 .. RespLen
      BY <2>1, <1>3, LenProperties
    <2>4. <<f, 1>> # <<0, 1>>
      OBVIOUS
    <2> QED
      BY <2>1, <2>2, <2>3, <2>4 DEF IsReply
  <1>6. n \in leading
    BY <1>1, <1>2, <1>4 DEF q
  <1>7. \A m \in leading : m \in Nat /\ m <= n
    <2> TAKE m \in leading
    <2>1. m \in 0 .. q /\ \A i \in 1 .. m : IsReply(Slice(b, i))
      BY DEF q
    <2> SUFFICES ASSUME n < m PROVE FALSE
      BY <2>1, <1>1
    <2>2. n + 1 \in 1 .. m /\ n + 1 <= q
      BY <2>1, <1>1
    <2> QED
      BY <2>1, <2>2, <1>5
  <1>8. strip_leaked_responses(b) = SubSeq(b, Max(leading) * RespLen + 1, Len(b))
    BY DEF strip_leaked_responses
  <1> HIDE DEF leading
  <1>9. Max(leading) = n
    <2>1. \A m \in leading : n >= m
      BY <1>7
    <2>2. \E x \in leading : \A m \in leading : x >= m
      BY <1>6, <2>1
    <2>3. Max(leading) = CHOOSE x \in leading : \A m \in leading : x >= m
      BY DEF Max
    <2>4. Max(leading) \in leading /\ \A m \in leading : Max(leading) >= m
      BY <2>2, <2>3, Zenon
    <2>5. Max(leading) >= n /\ Max(leading) \in Nat /\ Max(leading) <= n
      BY <2>4, <1>6, <1>7
    <2> QED
      BY <2>5
  <1> QED
    BY <1>8, <1>9

\* The bytes of a code before its line end.
LEMMA PayloadShape ==
  ASSUME NEW id \in 1 .. MaxCodes
  PROVE  /\ Payload(id) \in Seq(Byte) /\ Len(Payload(id)) = CodeLen[id]
         /\ \A k \in 1 .. CodeLen[id] : Payload(id)[k] = <<id, k>>
  <1>0. FrameLen(id) = CodeLen[id] + 1 /\ CodeLen[id] \in Nat \ {0}
    BY LinkAssumption DEF FrameLen
  <1>1. /\ Code(id) \in Seq(Byte) /\ Len(Code(id)) = CodeLen[id] + 1
        /\ \A i \in 1 .. CodeLen[id] + 1 : Code(id)[i] = <<id, i>>
    BY FrameShape, <1>0
  <1>2. 0 + CodeLen[id] <= Len(Code(id)) /\ CodeLen[id] \in Nat /\ 0 + 1 = 1 /\ 0 + CodeLen[id] = CodeLen[id]
    BY <1>0, <1>1
  <1>3. /\ SubSeq(Code(id), 1, CodeLen[id]) \in Seq(Byte)
        /\ Len(SubSeq(Code(id), 1, CodeLen[id])) = CodeLen[id]
        /\ \A k \in 1 .. CodeLen[id] : SubSeq(Code(id), 1, CodeLen[id])[k] = Code(id)[0 + k]
    BY <1>1, <1>2, PartOf
  <1>4. \A k \in 1 .. CodeLen[id] : 0 + k = k /\ k \in 1 .. CodeLen[id] + 1
    BY <1>0
  <1> QED
    BY <1>1, <1>3, <1>4 DEF Payload

LEMMA WholeCodes ==
  ASSUME LinkTypeOK, LinkInv
  PROVE  LateRepliesHarmless
  <1> SUFFICES ASSUME ~cut, pc = "read_scan", ring # <<>>, IsEol(Head(ring))
               PROVE  \E id \in 1 .. codes : Returned = Payload(id)
    BY DEF LateRepliesHarmless, Completes
  <1>1. /\ ring \in Seq(Byte) /\ line \in Seq(Byte) /\ buffer \in Seq(Byte) /\ wire \in Seq(Byte)
        /\ stream \in Seq(Byte) /\ codes \in Nat /\ codes <= MaxCodes
        /\ Len(buffer) \in Nat
    BY StreamTyped, LinkAssumption, LenProperties DEF LinkTypeOK
  <1>2. Framed(stream, codes) /\ Starts(stream) /\ Shaped(buffer, codes)
    BY DEF LinkInv
  <1> DEFINE eol == Head(ring)
  <1>3. eol \in Byte /\ eol = ring[1] /\ Len(ring) \in Nat \ {0}
    BY <1>1, TailTyped
  <1>4. /\ Len(buffer) < Len(stream) /\ \A i \in 1 .. Len(buffer) : stream[i] = buffer[i]
        /\ stream[Len(buffer) + 1] = eol /\ Len(buffer) + 1 \in 1 .. Len(stream)
    <2>1. Len(wire) = Len(ring) + Len(line) /\ Len(line) \in Nat
          /\ \A i \in 1 .. Len(ring) + Len(line) :
               wire[i] = IF i <= Len(ring) THEN ring[i] ELSE line[i - Len(ring)]
      BY <1>1, ConcatProperties, LenProperties DEF wire
    <2>2. 1 \in 1 .. Len(ring) + Len(line) /\ 1 <= Len(ring) /\ Len(wire) \in Nat \ {0}
      BY <1>3, <2>1
    <2>3. wire[1] = eol
      BY <2>1, <2>2, <1>3
    <2>4. /\ Len(stream) = Len(buffer) + Len(wire)
          /\ \A i \in 1 .. Len(buffer) + Len(wire) :
               stream[i] = IF i <= Len(buffer) THEN buffer[i] ELSE wire[i - Len(buffer)]
      BY <1>1, ConcatProperties DEF stream
    <2>5. /\ Len(buffer) + 1 \in 1 .. Len(buffer) + Len(wire)
          /\ ~(Len(buffer) + 1 <= Len(buffer)) /\ (Len(buffer) + 1) - Len(buffer) = 1
          /\ \A i \in 1 .. Len(buffer) : i \in 1 .. Len(buffer) + Len(wire) /\ i <= Len(buffer)
      BY <1>1, <2>2
    <2>6. stream[Len(buffer) + 1] = eol
      BY <2>3, <2>4, <2>5
    <2>7. \A i \in 1 .. Len(buffer) : stream[i] = buffer[i]
      BY <2>4, <2>5
    <2>8. Len(buffer) < Len(stream) /\ Len(buffer) + 1 \in 1 .. Len(stream)
      BY <2>2, <2>4, <2>5, <1>1
    <2> QED
      BY <2>6, <2>7, <2>8
  <1> HIDE DEF eol
  <1>5. FrameOf(eol) \in 1 .. codes /\ At(eol) = FrameLen(FrameOf(eol)) /\ eol = <<FrameOf(eol), At(eol)>>
    <2>1. IsEol(eol)
      BY DEF eol
    <2>2. FrameOf(eol) # 0 /\ FrameOf(eol) \in Nat
      BY <2>1, <1>3, ByteShape
    <2>3. FrameOf(eol) <= codes
      BY <1>2, <1>4 DEF Framed, Known
    <2> QED
      BY <2>1, <2>2, <2>3, <1>1, <1>3, ByteShape
  <1> DEFINE id == FrameOf(eol)
  <1>6. PICK n \in Nat, f \in 0 .. codes : \E r \in 0 .. FrameLen(f) - 1 : Shape(buffer, n, f, r)
    BY <1>2 DEF Shaped
  <1>7. PICK r \in 0 .. FrameLen(f) - 1 : Shape(buffer, n, f, r)
    BY <1>6
  <1>8. /\ r = 0 => At(eol) = 1
        /\ r > 0 => eol = <<f, r + 1>>
    <2>1. /\ r = 0 => At(stream[Len(buffer) + 1]) = 1
          /\ r > 0 => stream[Len(buffer) + 1] = <<f, r + 1>>
      <3> DEFINE s == stream
      <3>1. /\ s \in Seq(Byte) /\ Framed(s, codes) /\ Starts(s) /\ Len(buffer) < Len(s)
            /\ \A i \in 1 .. Len(buffer) : s[i] = buffer[i]
        BY <1>1, <1>2, <1>4
      <3> HIDE DEF s
      <3>2. /\ r = 0 => At(s[Len(buffer) + 1]) = 1
            /\ r > 0 => s[Len(buffer) + 1] = <<f, r + 1>>
        <4>1. /\ s \in Seq(Byte) /\ buffer \in Seq(Byte) /\ codes \in Nat /\ n \in Nat
              /\ f \in 0 .. MaxCodes
          BY <1>1, <3>1, LinkAssumption
        <4>2. r \in 0 .. FrameLen(f) - 1 /\ Shape(buffer, n, f, r)
          BY <1>7
        <4>3. Framed(s, codes) /\ Starts(s) /\ Len(buffer) < Len(s)
          BY <3>1
        <4>4. \A i \in 1 .. Len(buffer) : s[i] = buffer[i]
          BY <3>1
        <4> QED
          BY ONLY <4>1, <4>2, <4>3, <4>4, NextByte
      <3> QED
        BY <3>2 DEF s
    <2> QED
      BY <2>1, <1>4
  <1>16. id = FrameOf(eol) /\ id \in 1 .. codes /\ At(eol) = FrameLen(id)
    BY <1>5
  <1> HIDE DEF id
  <1>11. id \in 1 .. codes /\ id \in 1 .. MaxCodes /\ id \in Nat \ {0} /\ f \in 0 .. MaxCodes
    <2>1. MaxCodes \in Nat /\ codes \in Nat /\ codes <= MaxCodes
      BY <1>1, LinkAssumption
    <2> QED
      BY <2>1, <1>16
  <1>9. /\ r \in Nat /\ FrameLen(f) \in Nat
        /\ CodeLen[id] \in Nat \ {0} /\ FrameLen(id) = CodeLen[id] + 1
    <2>1. CodeLen[id] \in Nat \ {0} /\ id # 0
      BY <1>11, LinkAssumption
    <2>2. FrameLen(f) \in Nat
      BY <1>11, FrameLenPositive
    <2> QED
      BY <2>1, <2>2 DEF FrameLen
  <1>10. r = CodeLen[id] /\ f = id
    <2>1. r > 0
      BY <1>8, <1>9, <1>16
    <2>2. eol = <<f, r + 1>>
      BY <2>1, <1>8
    <2>3. FrameOf(eol) = f /\ At(eol) = r + 1
      BY <2>2 DEF FrameOf, At
    <2> QED
      BY <2>3, <1>9, <1>16
  <1>12. Returned = SubSeq(buffer, n * RespLen + 1, Len(buffer))
    <2>1. f \in Nat \ {0} /\ r \in Nat \ {0}
      BY <1>9, <1>10, <1>11
    <2> QED
      BY <2>1, <1>1, <1>7, StripDropsReplies DEF Returned
  <1>13. /\ n * RespLen \in Nat /\ Len(buffer) = n * RespLen + CodeLen[id]
         /\ \A k \in 1 .. CodeLen[id] : buffer[n * RespLen + k] = <<id, k>>
    BY <1>7, <1>10, Products DEF Shape
  <1>14. /\ Returned \in Seq(Byte) /\ Len(Returned) = CodeLen[id]
         /\ \A k \in 1 .. CodeLen[id] : Returned[k] = <<id, k>>
    <2> DEFINE p == n * RespLen
    <2>1. p \in Nat /\ p + CodeLen[id] <= Len(buffer) /\ Len(buffer) = p + CodeLen[id]
      BY <1>13, <1>9, <1>1
    <2>2. \A k \in 1 .. CodeLen[id] : buffer[p + k] = <<id, k>>
      BY <1>13
    <2>3. Returned = SubSeq(buffer, p + 1, p + CodeLen[id])
      BY <1>12, <1>13
    <2> HIDE DEF p
    <2> DEFINE u == SubSeq(buffer, p + 1, p + CodeLen[id])
    <2>4. u \in Seq(Byte) /\ Len(u) = CodeLen[id] /\ \A k \in 1 .. CodeLen[id] : u[k] = buffer[p + k]
      <3>1. CodeLen[id] \in Nat /\ buffer \in Seq(Byte) /\ p \in Nat /\ p + CodeLen[id] <= Len(buffer)
        BY <1>1, <1>9, <2>1
      <3> QED
        BY ONLY <3>1, PartOf
    <2>5. Returned = u
      BY <2>3
    <2> HIDE DEF u
    <2> QED
      BY ONLY <2>2, <2>4, <2>5
  <1>15. Returned = Payload(id)
    <2>1. /\ Payload(id) \in Seq(Byte) /\ Len(Payload(id)) = CodeLen[id]
          /\ \A k \in 1 .. CodeLen[id] : Payload(id)[k] = <<id, k>>
      BY <1>11, PayloadShape
    <2>2. \A k \in 1 .. Len(Returned) : Returned[k] = Payload(id)[k]
      BY <2>1, <1>14
    <2> QED
      BY <2>1, <2>2, <1>14, SeqEqual
  <1> QED
    BY <1>11, <1>15

\* The bytes that follow one of a code are the next bytes of that code, for there is
\* no line end among them.
LEMMA CodeGoesOn ==
  ASSUME LinkTypeOK, LinkInv, own,
         NEW i \in 1 .. Len(buffer), NEW j \in 1 .. Len(buffer), i < j, OfCode(buffer[i])
  PROVE  buffer[j] = <<FrameOf(buffer[i]), At(buffer[i]) + (j - i)>>
  <1>1. /\ buffer \in Seq(Byte) /\ wire \in Seq(Byte) /\ stream \in Seq(Byte)
        /\ Len(buffer) \in Nat /\ Len(wire) \in Nat /\ DOMAIN buffer = 1 .. Len(buffer)
        /\ Framed(stream, codes) /\ NoEol(buffer)
    BY StreamTyped, LenProperties, LinkAssumption DEF LinkInv
  <1>2. \A k \in 1 .. Len(buffer) : k \in 1 .. Len(stream) /\ stream[k] = buffer[k]
    <2>1. /\ Len(stream) = Len(buffer) + Len(wire)
          /\ \A k \in 1 .. Len(buffer) + Len(wire) :
               stream[k] = IF k <= Len(buffer) THEN buffer[k] ELSE wire[k - Len(buffer)]
      BY <1>1, ConcatProperties DEF stream
    <2>2. \A k \in 1 .. Len(buffer) : k \in 1 .. Len(buffer) + Len(wire) /\ k <= Len(buffer)
      BY <1>1
    <2> QED
      BY <2>1, <2>2
  <1> DEFINE f == FrameOf(buffer[i])  a == At(buffer[i])  z == FrameLen(f)
  <1>3. f # 0 /\ a \in 1 .. z /\ z \in Nat /\ buffer[i] \in Byte
    BY <1>1, ElementOfSeq, ByteShape, FrameLenPositive
  <1>4. \A k \in 1 .. Len(buffer) :
          i < k /\ a + (k - i) <= z => buffer[k] = <<f, a + (k - i)>>
    <2> TAKE k \in 1 .. Len(buffer)
    <2> HAVE i < k /\ a + (k - i) <= z
    <2>1. stream[k] = buffer[k] /\ stream[i] = buffer[i]
          /\ k \in 1 .. Len(stream) /\ i \in 1 .. Len(stream)
      BY <1>2
    <2>2. At(stream[i]) + (k - i) <= FrameLen(FrameOf(stream[i]))
      BY <2>1, <1>3
    <2>3. GoesOn(stream)
      BY <1>1 DEF Framed
    <2>4. stream[k] = <<FrameOf(stream[i]), At(stream[i]) + (k - i)>>
      BY <2>1, <2>2, <2>3 DEF GoesOn
    <2> QED
      BY <2>1, <2>4
  <1> HIDE DEF f, a, z
  <1>5. CASE a + (j - i) <= z
    <2>1. buffer[j] = <<f, a + (j - i)>>
      BY <1>4, <1>5
    <2> QED
      BY <2>1 DEF f, a
  \* Otherwise the code of byte i ends before byte j.
  <1>6. CASE ~(a + (j - i) <= z)
    <2> DEFINE k == i + (z - a)
    <2>1. k \in 1 .. Len(buffer) /\ i <= k /\ k < j /\ a + (k - i) = z
      BY <1>3, <1>6, <1>1
    <2> HIDE DEF k
    <2>2. buffer[k] \in Byte
      BY <2>1, <1>1, ElementOfSeq
    <2>3. FrameOf(buffer[k]) = f /\ At(buffer[k]) = z
      <3>1. CASE k = i
        <4>1. a = z
          BY <3>1, <2>1, <1>3, <1>1
        <4> QED
          BY <3>1, <4>1 DEF f, a
      <3>2. CASE i < k
        <4>1. buffer[k] = <<f, a + (k - i)>>
          BY <3>2, <2>1, <1>4, <1>3
        <4> QED
          BY <4>1, <2>1 DEF FrameOf, At
      <3> QED
        BY <3>1, <3>2, <2>1
    <2>4. IsEol(buffer[k])
      BY <2>2, <2>3, <1>3, ByteShape DEF z
    <2> QED
      BY <2>1, <2>4, <1>1 DEF NoEol
  <1> QED
    BY <1>5, <1>6

\* Two bytes of codes without a line end between them are of one code.
LEMMA SourceIsOne ==
  ASSUME LinkTypeOK, LinkInv
  PROVE  OneSource
  <1> SUFFICES ASSUME own,
                      NEW i \in 1 .. Len(buffer), NEW j \in 1 .. Len(buffer),
                      OfCode(buffer[i]), OfCode(buffer[j])
               PROVE  FrameOf(buffer[i]) = FrameOf(buffer[j])
    <2>1. DOMAIN buffer = 1 .. Len(buffer)
      BY StreamTyped
    <2> QED
      BY <2>1 DEF OneSource, FrameOf
  <1>1. ASSUME NEW k \in 1 .. Len(buffer), NEW l \in 1 .. Len(buffer), k < l, OfCode(buffer[k])
        PROVE  FrameOf(buffer[k]) = FrameOf(buffer[l])
    <2>1. buffer[l] = <<FrameOf(buffer[k]), At(buffer[k]) + (l - k)>>
      BY <1>1, CodeGoesOn
    <2> QED
      BY <2>1 DEF FrameOf
  <1>2. Len(buffer) \in Nat
    BY StreamTyped, LenProperties
  <1>3. i < j \/ i = j \/ j < i
    BY <1>2
  <1> QED
    BY <1>1, <1>3

LEMMA LinkAlways == Spec => [](LinkTypeOK /\ LinkInv)
  <1>1. LinkTypeOK /\ LinkInv /\ [Next]_vars => (LinkTypeOK /\ LinkInv)'
    BY NextIsLinkStep, LinkTypeStep, LinkInvStep
  <1> QED
    BY <1>1, LinkTypeInit, LinkInvInit, PTL DEF Spec

LEMMA SuiteLinkAlways == SuiteSpec => [](LinkTypeOK /\ LinkInv)
  <1>1. SuiteInit => LinkTypeOK /\ LinkInv
    BY LinkTypeInit, LinkInvInit DEF SuiteInit
  <1>2. LinkTypeOK /\ LinkInv /\ [SuiteNext]_<<vars, suiteVars>> => (LinkTypeOK /\ LinkInv)'
    BY SuiteNextIsLinkStep, LinkTypeStep, LinkInvStep
  <1> QED
    BY <1>1, <1>2, PTL DEF SuiteSpec

\* A late reply never damages a code: unless bytes were lost or a command took
\* bytes of a code, read_scan strips exactly the replies in front of a payload and
\* returns a whole code, whoever makes the calls.
THEOREM WholeCodesRead ==
  /\ Spec => []LateRepliesHarmless
  /\ SuiteSpec => []LateRepliesHarmless
  <1>1. LinkTypeOK /\ LinkInv => LateRepliesHarmless
    BY WholeCodes
  <1>2. Spec => []LateRepliesHarmless
    BY <1>1, LinkAlways, PTL
  <1>3. SuiteSpec => []LateRepliesHarmless
    BY <1>1, SuiteLinkAlways, PTL
  <1> QED
    BY <1>2, <1>3

\* What a trigger's own reads collect is never pieced together from two codes,
\* however much of the first was already gone, whoever makes the calls.
THEOREM NeverTwoCodes ==
  /\ Spec => []OneSource
  /\ SuiteSpec => []OneSource
  <1>1. LinkTypeOK /\ LinkInv => OneSource
    BY SourceIsOne
  <1>2. Spec => []OneSource
    BY <1>1, LinkAlways, PTL
  <1>3. SuiteSpec => []OneSource
    BY <1>1, SuiteLinkAlways, PTL
  <1> QED
    BY <1>2, <1>3

----------------------------------------------------------------------------
(* How much of a sequence is of replies *)

ReplyPlaces(s) == {k \in 1 .. Len(s) : ~OfCode(s[k])}
Replied(s) == Cardinality(ReplyPlaces(s))

LEMMA RepliedType ==
  ASSUME NEW s \in Seq(Byte)
  PROVE  /\ IsFiniteSet(ReplyPlaces(s))
         /\ Replied(s) \in Nat /\ Replied(s) <= Len(s)
         /\ (\A k \in 1 .. Len(s) : OfCode(s[k])) => Replied(s) = 0
         /\ (\A k \in 1 .. Len(s) : ~OfCode(s[k])) => Replied(s) = Len(s)
  <1>1. Len(s) \in Nat
    BY LenProperties
  <1>2. IsFiniteSet(1 .. Len(s)) /\ Cardinality(1 .. Len(s)) = Len(s)
    <2>1. 1 \in Int /\ Len(s) \in Int /\ (IF 1 > Len(s) THEN 0 ELSE Len(s) - 1 + 1) = Len(s)
      BY <1>1
    <2> QED
      BY <2>1, FS_Interval
  <1>3. ReplyPlaces(s) \in SUBSET (1 .. Len(s))
    BY DEF ReplyPlaces
  <1>4. IsFiniteSet(ReplyPlaces(s)) /\ Replied(s) <= Len(s)
    BY <1>2, <1>3, FS_Subset DEF Replied
  <1>5. (\A k \in 1 .. Len(s) : OfCode(s[k])) => ReplyPlaces(s) = {}
    BY DEF ReplyPlaces
  <1>6. (\A k \in 1 .. Len(s) : ~OfCode(s[k])) => ReplyPlaces(s) = 1 .. Len(s)
    BY DEF ReplyPlaces
  <1> QED
    BY <1>2, <1>4, <1>5, <1>6, FS_CardinalityType, FS_EmptySet DEF Replied

LEMMA RepliedJoins ==
  ASSUME NEW s \in Seq(Byte), NEW t \in Seq(Byte)
  PROVE  Replied(s \o t) = Replied(s) + Replied(t)
  <1> DEFINE A == Len(s)  B == Len(t)  u == s \o t
             S == ReplyPlaces(s)  T == ReplyPlaces(t)  U == ReplyPlaces(u)
             V == {k \in A + 1 .. A + B : ~OfCode(u[k])}
             f == [k \in T |-> A + k]
  <1>1. /\ A \in Nat /\ B \in Nat /\ Len(u) = A + B
        /\ \A k \in 1 .. A + B : u[k] = IF k <= A THEN s[k] ELSE t[k - A]
    BY LenProperties, ConcatProperties
  <1> HIDE DEF A, B, u
  <1>2. T = {k \in 1 .. B : ~OfCode(t[k])} /\ S = {k \in 1 .. A : ~OfCode(s[k])}
        /\ U = {k \in 1 .. A + B : ~OfCode(u[k])}
    BY <1>1 DEF ReplyPlaces, A, B
  <1>3. \A k \in 1 .. B : A + k \in A + 1 .. A + B /\ u[A + k] = t[k]
    <2> TAKE k \in 1 .. B
    <2>1. A + k \in 1 .. A + B /\ ~(A + k <= A) /\ (A + k) - A = k /\ A + k \in A + 1 .. A + B
      BY <1>1
    <2> QED
      BY <2>1, <1>1
  <1>4. f \in Bijection(T, V)
    <2> HIDE DEF S, U
    <2>1. f \in [T -> V]
      BY <1>2, <1>3
    <2>2. \A k, l \in T : f[k] = f[l] => k = l
      BY <1>1, <1>2
    <2>3. ASSUME NEW v \in V PROVE \E k \in T : f[k] = v
      <3>1. v - A \in 1 .. B /\ A + (v - A) = v
        BY <1>1
      <3>2. v - A \in T
        BY <3>1, <1>2, <1>3
      <3> QED
        BY <3>1, <3>2
    <2> HIDE DEF f, T, V
    <2> QED
      BY <2>1, <2>2, <2>3 DEF Bijection, Injection, Surjection, IsInjective
  <1>5. U = S \cup V /\ S \cap V = {}
    <2>1. \A k \in 1 .. A : k \in 1 .. A + B /\ u[k] = s[k]
      BY <1>1
    <2>2. \A k \in 1 .. A + B : k \in 1 .. A \/ k \in A + 1 .. A + B
      BY <1>1
    <2>3. \A k \in A + 1 .. A + B : k \in 1 .. A + B /\ k \notin 1 .. A
      BY <1>1
    <2> HIDE DEF S, T, U
    <2> QED
      BY <2>1, <2>2, <2>3, <1>2
  <1>6. IsFiniteSet(S) /\ IsFiniteSet(T)
    BY RepliedType
  <1> HIDE DEF f, S, T, U, V
  <1>7. IsFiniteSet(V) /\ Cardinality(V) = Cardinality(T)
    <2>1. ExistsBijection(T, V)
      BY <1>4 DEF ExistsBijection
    <2> QED
      BY <2>1, <1>6, FS_Bijection
  <1>8. Cardinality(U) = Cardinality(S) + Cardinality(V)
    <2>1. Cardinality(U) = Cardinality(S) + Cardinality(V) - Cardinality(S \cap V)
      BY <1>5, <1>6, <1>7, FS_Union
    <2>2. Cardinality(S) \in Nat /\ Cardinality(V) \in Nat
      BY <1>6, <1>7, FS_CardinalityType
    <2>3. Cardinality(S \cap V) = 0
      BY <1>5, FS_EmptySet
    <2> QED
      BY <2>1, <2>2, <2>3
  <1> QED
    BY <1>7, <1>8 DEF Replied, S, T, U, u

\* What the first k bytes count for.
LEMMA RepliedRest ==
  ASSUME NEW s \in Seq(Byte), NEW t \in Seq(Byte), NEW k \in 0 .. Len(s), Rest(s, k, t)
  PROVE  /\ Replied(t) <= Replied(s)
         /\ (\A i \in 1 .. k : ~OfCode(s[i])) => Replied(s) = k + Replied(t)
         /\ (\A i \in 1 .. k : OfCode(s[i])) => Replied(s) = Replied(t)
  <1> DEFINE p == [i \in 1 .. k |-> s[i]]
  <1>1. Len(s) \in Nat /\ Len(t) \in Nat /\ k \in Nat /\ Len(s) = k + Len(t)
    BY LenProperties DEF Rest
  <1>2. p \in Seq(Byte) /\ Len(p) = k /\ \A i \in 1 .. k : p[i] = s[i]
    <2>1. \A i \in 1 .. k : s[i] \in Byte
      BY <1>1, ElementOfSeq
    <2> QED
      BY <2>1, <1>1
  <1> HIDE DEF p
  <1>3. p \o t = s
    <2>1. /\ p \o t \in Seq(Byte) /\ Len(p \o t) = Len(s)
          /\ \A i \in 1 .. k + Len(t) : (p \o t)[i] = IF i <= k THEN p[i] ELSE t[i - k]
      BY <1>1, <1>2, ConcatProperties
    <2>2. ASSUME NEW i \in 1 .. Len(s) PROVE (p \o t)[i] = s[i]
      <3>1. CASE i <= k
        BY <3>1, <2>1, <1>1, <1>2
      <3>2. CASE ~(i <= k)
        <4>1. i - k \in 1 .. Len(t) /\ k + (i - k) = i /\ i \in 1 .. k + Len(t)
          BY <3>2, <1>1
        <4>2. t[i - k] = s[k + (i - k)]
          BY <4>1 DEF Rest
        <4> QED
          BY <4>1, <4>2, <3>2, <2>1
      <3> QED
        BY <3>1, <3>2
    <2> QED
      BY <2>1, <2>2, SeqEqual
  <1>4. Replied(s) = Replied(p) + Replied(t)
    BY <1>2, <1>3, RepliedJoins
  <1>5. /\ Replied(p) \in Nat /\ Replied(t) \in Nat
        /\ (\A i \in 1 .. k : OfCode(s[i])) => Replied(p) = 0
        /\ (\A i \in 1 .. k : ~OfCode(s[i])) => Replied(p) = k
    BY <1>2, RepliedType
  <1> QED
    BY <1>1, <1>4, <1>5

\* A byte at the end, at the front.
Counts(byte) == IF OfCode(byte) THEN 0 ELSE 1

LEMMA RepliedByte ==
  ASSUME NEW s \in Seq(Byte)
  PROVE  /\ \A b \in Byte : Replied(Append(s, b)) = Replied(s) + Counts(b)
         /\ s # <<>> => Replied(s) = Replied(Tail(s)) + Counts(Head(s))
  <1>1. ASSUME NEW b \in Byte PROVE Replied(Append(s, b)) = Replied(s) + Counts(b)
    <2> DEFINE t == <<b>>
    <2>1. t \in Seq(Byte) /\ Len(t) = 1 /\ \A k \in 1 .. 1 : t[k] = b
      OBVIOUS
    <2>2. Append(s, b) = s \o t
      BY AppendIsConcat
    <2> HIDE DEF t
    <2>3. Replied(t) = Counts(b)
      <3>1. /\ (\A k \in 1 .. Len(t) : OfCode(t[k])) => Replied(t) = 0
            /\ (\A k \in 1 .. Len(t) : ~OfCode(t[k])) => Replied(t) = Len(t)
        BY <2>1, RepliedType
      <3> QED
        BY <3>1, <2>1 DEF Counts
    <2> QED
      BY <2>1, <2>2, <2>3, RepliedJoins
  <1>2. ASSUME s # <<>> PROVE Replied(s) = Replied(Tail(s)) + Counts(Head(s))
    <2> DEFINE t == Tail(s)
    <2>1. /\ t \in Seq(Byte) /\ Head(s) = s[1] /\ Rest(s, 1, t)
          /\ 1 \in 0 .. Len(s) /\ \A i \in 1 .. 1 : s[i] = Head(s)
      BY <1>2, TailTyped
    <2> HIDE DEF t
    <2>2. Replied(t) \in Nat
      BY <2>1, RepliedType
    <2>3. /\ (\A i \in 1 .. 1 : ~OfCode(s[i])) => Replied(s) = 1 + Replied(t)
          /\ (\A i \in 1 .. 1 : OfCode(s[i])) => Replied(s) = Replied(t)
      BY <2>1, RepliedRest
    <2>4. Replied(s) = Replied(t) + Counts(Head(s))
      BY <2>1, <2>2, <2>3 DEF Counts
    <2> QED
      BY <2>4 DEF t
  <1> QED
    BY <1>1, <1>2

\* What a trigger's reads collect beside replies is less than the code it is of, which
\* is not at its end.
LEMMA CodeFits ==
  ASSUME LinkTypeOK, LinkInv, own
  PROVE  \/ Len(buffer) = Replied(buffer)
         \/ \E id \in 1 .. codes : Len(buffer) < FrameLen(id) + Replied(buffer)
  <1> DEFINE N == 1 .. Len(buffer)  C == N \ ReplyPlaces(buffer)
  <1>1. /\ buffer \in Seq(Byte) /\ Len(buffer) \in Nat /\ wire \in Seq(Byte)
        /\ Framed(stream, codes) /\ NoEol(buffer)
    BY StreamTyped, LenProperties DEF LinkInv
  <1>2. /\ IsFiniteSet(C) /\ Cardinality(C) = Len(buffer) - Replied(buffer)
        /\ Replied(buffer) \in Nat
    <2>1. IsFiniteSet(N) /\ Cardinality(N) = Len(buffer)
      <3>1. 1 \in Int /\ Len(buffer) \in Int /\ (1 > Len(buffer) => Len(buffer) = 0)
            /\ Len(buffer) - 1 + 1 = Len(buffer)
        BY <1>1
      <3> QED
        BY <3>1, FS_Interval
    <2>2. N \cap ReplyPlaces(buffer) = ReplyPlaces(buffer)
      BY DEF ReplyPlaces
    <2> DEFINE R == ReplyPlaces(buffer)
    <2>3. Replied(buffer) \in Nat /\ Replied(buffer) = Cardinality(R)
      BY <1>1, RepliedType DEF Replied
    <2> HIDE DEF N, R
    <2>4. IsFiniteSet(N \ R) /\ Cardinality(N \ R) = Cardinality(N) - Cardinality(N \cap R)
      BY <2>1, FS_Difference
    <2>5. N \cap R = R
      BY <2>2 DEF R
    <2> QED
      BY <2>1, <2>3, <2>4, <2>5 DEF R
  <1>3. \A k \in C : OfCode(buffer[k])
    BY DEF ReplyPlaces
  <1>4. CASE C = {}
    BY <1>1, <1>2, <1>4, FS_EmptySet
  <1>5. CASE C # {}
    <2>1. PICK c \in C : TRUE
      BY <1>5
    <2> DEFINE id == FrameOf(buffer[c])
    <2>2. id \in 1 .. codes /\ codes \in 0 .. MaxCodes /\ id \in 0 .. MaxCodes
      <3>1. buffer[c] \in Byte
        BY <1>1, ElementOfSeq
      <3>2. c \in 1 .. Len(stream) /\ stream[c] = buffer[c]
        <4>1. /\ Len(stream) = Len(buffer) + Len(wire)
              /\ \A i \in 1 .. Len(buffer) + Len(wire) :
                   stream[i] = IF i <= Len(buffer) THEN buffer[i] ELSE wire[i - Len(buffer)]
          BY <1>1, ConcatProperties DEF stream
        <4>2. c \in 1 .. Len(buffer) + Len(wire) /\ c <= Len(buffer)
          BY <1>1, LenProperties
        <4> QED
          BY <4>1, <4>2
      <3>3. id <= codes
        BY <3>2, <1>1 DEF Framed, Known
      <3>4. codes \in 0 .. MaxCodes
        BY DEF LinkTypeOK
      <3> QED
        BY <3>1, <3>3, <3>4, <1>3, ByteShape, LinkAssumption
    <2> DEFINE z == FrameLen(id)  P == 1 .. z - 1  f == [k \in C |-> At(buffer[k])]
    <2>3. z \in Nat \ {0}
      BY <2>2, FrameLenPositive
    <2>4. ASSUME NEW k \in C PROVE FrameOf(buffer[k]) = id /\ At(buffer[k]) \in P
      <3>1. FrameOf(buffer[k]) = id
        <4>1. k < c => buffer[c] = <<FrameOf(buffer[k]), At(buffer[k]) + (c - k)>>
          BY <1>3, CodeGoesOn
        <4>2. c < k => buffer[k] = <<FrameOf(buffer[c]), At(buffer[c]) + (k - c)>>
          BY <1>3, CodeGoesOn
        <4>3. k < c \/ k = c \/ c < k
          BY <1>1
        <4> QED
          BY <4>1, <4>2, <4>3 DEF FrameOf
      <3>2. buffer[k] \in Byte /\ ~IsEol(buffer[k])
        BY <1>1, ElementOfSeq DEF NoEol
      <3>3. At(buffer[k]) \in 1 .. z /\ At(buffer[k]) # z
        BY <3>1, <3>2, <2>2, ByteShape
      <3> HIDE DEF z
      <3> QED
        BY <3>1, <3>3, <2>3
    <2>5. ASSUME NEW k \in C, NEW l \in C, k < l PROVE At(buffer[k]) # At(buffer[l])
      <3>1. buffer[l] = <<FrameOf(buffer[k]), At(buffer[k]) + (l - k)>>
        BY <2>5, <1>3, CodeGoesOn
      <3>2. At(buffer[l]) = At(buffer[k]) + (l - k)
        BY <3>1 DEF At
      <3>3. At(buffer[k]) \in Int /\ k \in Int /\ l \in Int
        <4> HIDE DEF z
        <4> QED
          BY <2>3, <2>4, <1>1
      <3> QED
        BY <3>2, <3>3, <2>5
    <2> HIDE DEF id, z
    <2>6. f \in Injection(C, P)
      <3>1. f \in [C -> P]
        BY <2>4
      <3>2. ASSUME NEW k \in C, NEW l \in C, f[k] = f[l] PROVE k = l
        <4>1. k < l \/ k = l \/ l < k
          BY <1>1
        <4> QED
          BY <4>1, <3>2, <2>5
      <3> HIDE DEF f, C, P
      <3> QED
        BY <3>1, <3>2 DEF Injection, IsInjective
    <2>7. IsFiniteSet(P) /\ Cardinality(P) = z - 1
      BY <2>3, FS_Interval
    <2>8. Cardinality(C) <= Cardinality(P)
      <3> HIDE DEF f, C, P
      <3> QED
        BY <2>6, <2>7, FS_Injection
    <2>9. Len(buffer) < z + Replied(buffer)
      <3> HIDE DEF C, P
      <3> QED
        BY <2>3, <2>7, <2>8, <1>1, <1>2
    <2> QED
      BY <2>2, <2>9 DEF z
  <1> QED
    BY <1>4, <1>5

----------------------------------------------------------------------------
(* The lists of the on-device tests *)

DriverCall == {"init", "access", "stop", "trigger", "read", "cancel"}
Step ==
  [call : DriverCall, when : {"always", "unread", "timed out"}, judge : Test \cup {"none"}]
    \cup [call : {"gate"}, tests : SUBSET Test]

\* The test to judge after a step.
Due(step) == IF step.call = "gate" THEN "none" ELSE step.judge
Answered == {"ping_after_init", "trigger_and_stop"}
Timeout == "read_scan_timeout"
Rapid == "rapid_triggers"

TriggerStep == Do("trigger")
ReadStep == Do("read")
CancelStep == Do("cancel")
TimeoutCancel == DoWhen("timed out", "cancel")
TimeoutStop == Judge("stop", Timeout)
RapidStop == Judge("stop", Rapid)

\* What a verdict needs of the calls before it, as far as they are in the list.
Fits(s, k) ==
  /\ Due(s[k]) \in Answered => s[k].call \in {"access", "stop"} /\ s[k].when = "always"
  /\ Due(s[k]) = Timeout =>
       /\ s[k] = TimeoutStop
       /\ k > 1 => s[k - 1] = TimeoutCancel
       /\ k > 2 => s[k - 2] = ReadStep
       /\ k > 3 => s[k - 3] = TriggerStep
  /\ Due(s[k]) = Rapid =>
       /\ s[k] = RapidStop
       /\ k > 1 => s[k - 1] = CancelStep
WellMade(s) == s \in Seq(Step) /\ \A k \in 1 .. Len(s) : Fits(s, k)

\* And nothing of it is missing.
Complete(s) ==
  \A k \in 1 .. Len(s) : (Due(s[k]) = Timeout => k > 3) /\ (Due(s[k]) = Rapid => k > 1)

LEMMA StepShape ==
  /\ \A call \in DriverCall : Do(call) \in Step /\ Due(Do(call)) = "none"
  /\ \A call \in DriverCall, when \in {"always", "unread", "timed out"} :
       DoWhen(when, call) \in Step /\ Due(DoWhen(when, call)) = "none"
  /\ \A call \in DriverCall, test \in Test :
       /\ Judge(call, test) \in Step /\ Due(Judge(call, test)) = test
       /\ Judge(call, test).call = call /\ Judge(call, test).when = "always"
  /\ \A tests \in SUBSET Test :
       HaltUnless(tests) \in Step /\ Due(HaltUnless(tests)) = "none"
  /\ Timeout \in Test /\ Rapid \in Test /\ Answered \subseteq Test
  /\ "none" \notin Answered \cup {Timeout, Rapid}
  <1> DEFINE When == {"always", "unread", "timed out"}
             Made(s, c, w, j) == /\ s \in Step /\ Due(s) = j /\ s.call = c /\ s.when = w
  <1>1. ASSUME NEW c \in DriverCall, NEW w \in When, NEW j \in Test \cup {"none"}
        PROVE  Made([call |-> c, when |-> w, judge |-> j], c, w, j)
    <2> DEFINE s == [call |-> c, when |-> w, judge |-> j]
    <2>1. s \in [call : DriverCall, when : When, judge : Test \cup {"none"}]
      OBVIOUS
    <2>2. s.call = c /\ s.judge = j /\ s.when = w
      OBVIOUS
    <2>3. c # "gate"
      BY DEF DriverCall
    <2> QED
      BY <2>1, <2>2, <2>3 DEF Step, Due
  <1>2. ASSUME NEW tests \in SUBSET Test
        PROVE  HaltUnless(tests) \in Step /\ Due(HaltUnless(tests)) = "none"
    BY DEF HaltUnless, Step, Due
  <1>3. /\ Timeout \in Test /\ Rapid \in Test /\ Answered \subseteq Test
        /\ "none" \notin Answered \cup {Timeout, Rapid}
    BY DEF Timeout, Rapid, Answered, Test, CoreTest, ExtendedTest
  <1>4. "always" \in When /\ "none" \in Test \cup {"none"}
    OBVIOUS
  <1>5. ASSUME NEW call \in DriverCall, NEW when \in When
        PROVE  DoWhen(when, call) \in Step /\ Due(DoWhen(when, call)) = "none"
    <2>1. Made(DoWhen(when, call), call, when, "none")
      <3> HIDE DEF Made
      <3> QED
        BY <1>1, <1>4 DEF DoWhen
    <2> QED
      BY <2>1
  <1>6. ASSUME NEW call \in DriverCall
        PROVE  Do(call) \in Step /\ Due(Do(call)) = "none"
    <2>1. Made(Do(call), call, "always", "none")
      <3> HIDE DEF Made
      <3> QED
        BY <1>1, <1>4 DEF Do
    <2> QED
      BY <2>1
  <1>7. ASSUME NEW call \in DriverCall, NEW test \in Test
        PROVE  /\ Judge(call, test) \in Step /\ Due(Judge(call, test)) = test
               /\ Judge(call, test).call = call /\ Judge(call, test).when = "always"
    <2>1. Made(Judge(call, test), call, "always", test)
      <3> HIDE DEF Made
      <3> QED
        BY <1>1, <1>4 DEF Judge
    <2> QED
      BY <2>1
  <1> HIDE DEF Made
  <1> QED
    BY <1>2, <1>3, <1>5, <1>6, <1>7

\* Nothing is asked of a step after which no such test is judged.
LEMMA PlainSteps ==
  ASSUME NEW s \in Seq(Step),
         \A k \in 1 .. Len(s) : Due(s[k]) \notin Answered \cup {Timeout, Rapid}
  PROVE  WellMade(s) /\ Complete(s)
  BY DEF WellMade, Complete, Fits

LEMMA ListsJoin ==
  ASSUME NEW a, NEW b, WellMade(a), WellMade(b), Complete(a), Complete(b)
  PROVE  WellMade(a \o b) /\ Complete(a \o b)
  <1> DEFINE A == Len(a)  B == Len(b)  s == a \o b
  <1>1. /\ a \in Seq(Step) /\ b \in Seq(Step) /\ A \in Nat /\ B \in Nat
        /\ s \in Seq(Step) /\ Len(s) = A + B
        /\ \A k \in 1 .. A + B : s[k] = IF k <= A THEN a[k] ELSE b[k - A]
    BY LenProperties, ConcatProperties DEF WellMade
  <1>2. /\ \A k \in 1 .. A : Fits(a, k) /\ (Due(a[k]) = Timeout => k > 3)
                              /\ (Due(a[k]) = Rapid => k > 1)
        /\ \A k \in 1 .. B : Fits(b, k) /\ (Due(b[k]) = Timeout => k > 3)
                              /\ (Due(b[k]) = Rapid => k > 1)
    BY DEF WellMade, Complete
  <1> HIDE DEF s, A, B
  <1>3. ASSUME NEW k \in 1 .. A + B
        PROVE  /\ Fits(s, k)
               /\ (Due(s[k]) = Timeout => k > 3) /\ (Due(s[k]) = Rapid => k > 1)
    <2>1. CASE k <= A
      <3>1. k \in 1 .. A /\ s[k] = a[k]
        BY <2>1, <1>1
      <3>2. /\ k > 1 => s[k - 1] = a[k - 1]
            /\ k > 2 => s[k - 2] = a[k - 2]
            /\ k > 3 => s[k - 3] = a[k - 3]
        <4>1. k > 1 => k - 1 \in 1 .. A + B /\ k - 1 <= A
          BY <2>1, <1>1
        <4>2. k > 2 => k - 2 \in 1 .. A + B /\ k - 2 <= A
          BY <2>1, <1>1
        <4>3. k > 3 => k - 3 \in 1 .. A + B /\ k - 3 <= A
          BY <2>1, <1>1
        <4> QED
          BY <4>1, <4>2, <4>3, <1>1
      <3> QED
        BY <3>1, <3>2, <1>2 DEF Fits
    <2>2. CASE ~(k <= A)
      <3> DEFINE j == k - A
      <3>1. j \in 1 .. B /\ s[k] = b[j] /\ (j > 1 => k > 1) /\ (j > 2 => k > 2) /\ (j > 3 => k > 3)
        BY <2>2, <1>1
      <3>2. /\ j > 1 => s[k - 1] = b[j - 1]
            /\ j > 2 => s[k - 2] = b[j - 2]
            /\ j > 3 => s[k - 3] = b[j - 3]
        <4>1. j > 1 => k - 1 \in 1 .. A + B /\ ~(k - 1 <= A) /\ (k - 1) - A = j - 1
          BY <2>2, <1>1
        <4>2. j > 2 => k - 2 \in 1 .. A + B /\ ~(k - 2 <= A) /\ (k - 2) - A = j - 2
          BY <2>2, <1>1
        <4>3. j > 3 => k - 3 \in 1 .. A + B /\ ~(k - 3 <= A) /\ (k - 3) - A = j - 3
          BY <2>2, <1>1
        <4> QED
          BY <4>1, <4>2, <4>3, <1>1
      <3> HIDE DEF j
      <3>3. j \in Nat
        BY <3>1, <1>1
      <3>4. Due(s[k]) = Timeout => j > 3 /\ j > 2 /\ j > 1
        BY <3>1, <3>3, <1>2
      <3>5. Due(s[k]) = Rapid => j > 1
        BY <3>1, <1>2
      <3>6. Fits(b, j)
        BY <3>1, <1>2
      <3> QED
        BY <3>1, <3>2, <3>4, <3>5, <3>6 DEF Fits
    <2> QED
      BY <2>1, <2>2
  <1> QED
    BY <1>1, <1>3 DEF WellMade, Complete, s

\* What follows in a list is as well made.
LEMMA ListGoesOn ==
  ASSUME NEW s, WellMade(s), s # <<>>
  PROVE  /\ WellMade(Tail(s)) /\ Head(s) \in Step /\ Head(s) = s[1] /\ Fits(s, 1)
         /\ Len(s) \in Nat \ {0} /\ Len(Tail(s)) = Len(s) - 1
         /\ \A k \in 1 .. Len(Tail(s)) : Tail(s)[k] = s[k + 1] /\ Fits(s, k + 1)
  <1> DEFINE t == Tail(s)
  <1>1. /\ s \in Seq(Step) /\ t \in Seq(Step) /\ Head(s) \in Step /\ Head(s) = s[1]
        /\ Len(s) \in Nat \ {0} /\ Len(t) = Len(s) - 1
        /\ \A k \in 1 .. Len(t) : t[k] = s[k + 1]
    BY HeadTailProperties, EmptySeq DEF WellMade
  <1>2. 1 \in 1 .. Len(s) /\ \A k \in 1 .. Len(t) : k + 1 \in 1 .. Len(s)
    BY <1>1
  <1>3. Fits(s, 1) /\ \A k \in 1 .. Len(t) : Fits(s, k + 1)
    BY <1>2 DEF WellMade
  <1> HIDE DEF t
  <1>4. ASSUME NEW k \in 1 .. Len(t) PROVE Fits(t, k)
    <2>1. t[k] = s[k + 1] /\ Fits(s, k + 1) /\ k \in Nat
      BY <1>1, <1>3
    <2>2. k > 1 => t[k - 1] = s[(k + 1) - 1] /\ k + 1 > 1
      <3> HAVE k > 1
      <3>1. k - 1 \in 1 .. Len(t) /\ (k - 1) + 1 = (k + 1) - 1
        BY <1>1
      <3> QED
        BY <3>1, <1>1
    <2>3. k > 2 => t[k - 2] = s[(k + 1) - 2] /\ k + 1 > 2
      <3> HAVE k > 2
      <3>1. k - 2 \in 1 .. Len(t) /\ (k - 2) + 1 = (k + 1) - 2
        BY <1>1
      <3> QED
        BY <3>1, <1>1
    <2>4. k > 3 => t[k - 3] = s[(k + 1) - 3] /\ k + 1 > 3
      <3> HAVE k > 3
      <3>1. k - 3 \in 1 .. Len(t) /\ (k - 3) + 1 = (k + 1) - 3
        BY <1>1
      <3> QED
        BY <3>1, <1>1
    <2>5. (k > 2 => k > 1) /\ (k > 3 => k > 2)
      BY <2>1
    <2> QED
      BY <2>1, <2>2, <2>3, <2>4, <2>5 DEF Fits
  <1> QED
    BY <1>1, <1>3, <1>4 DEF WellMade, t

\* A repeated list has the steps of the list.
LEMMA TimesPlain ==
  ASSUME NEW n \in Nat, NEW p, NEW q,
         p \in Step, q \in Step,
         Due(p) \notin Answered \cup {Timeout, Rapid},
         Due(q) \notin Answered \cup {Timeout, Rapid}
  PROVE  WellMade(Times(n, <<p, q>>)) /\ Complete(Times(n, <<p, q>>))
  <1> DEFINE steps == <<p, q>>  s == Times(n, steps)
  <1>1. Len(steps) = 2 /\ \A i \in 1 .. 2 : steps[i] \in {p, q}
    OBVIOUS
  <1>2. s = [i \in 1 .. n * 2 |-> steps[((i - 1) % 2) + 1]]
    BY <1>1 DEF Times
  <1>3. \A i \in 1 .. n * 2 : ((i - 1) % 2) + 1 \in 1 .. 2
    OBVIOUS
  <1>4. \A i \in 1 .. n * 2 : steps[((i - 1) % 2) + 1] \in {p, q}
    BY <1>1, <1>3
  <1> HIDE DEF steps
  <1>5. n * 2 \in Nat
    OBVIOUS
  <1> HIDE DEF s
  <1>6. \A i \in 1 .. n * 2 : s[i] \in {p, q}
    BY <1>2, <1>4
  <1>7. s \in Seq({p, q}) /\ Len(s) = n * 2
    BY <1>2, <1>4, <1>5
  <1>8. s \in Seq(Step)
    BY <1>7, SeqMonotonic
  <1>9. WellMade(s) /\ Complete(s)
    BY <1>6, <1>7, <1>8, PlainSteps
  <1> QED
    BY <1>9 DEF s, steps

\* The tests' own lists.
LEMMA TestsMade ==
  /\ WellMade(test_init) /\ Complete(test_init)
  /\ WellMade(test_ping) /\ Complete(test_ping)
  /\ WellMade(test_trigger_stop) /\ Complete(test_trigger_stop)
  /\ WellMade(test_read_scan_timeout) /\ Complete(test_read_scan_timeout)
  /\ WellMade(test_state_transitions) /\ Complete(test_state_transitions)
  /\ WellMade(test_cancel_then_rescan) /\ Complete(test_cancel_then_rescan)
  /\ WellMade(test_rapid_triggers) /\ Complete(test_rapid_triggers)
  /\ WellMade(test_read_idle_no_trigger) /\ Complete(test_read_idle_no_trigger)
  <1>0. /\ \A a \in Step : <<a>> \in Seq(Step) /\ Len(<<a>>) = 1 /\ <<a>>[1] = a
        /\ \A a, b \in Step :
             <<a, b>> \in Seq(Step) /\ Len(<<a, b>>) = 2 /\ <<a, b>>[1] = a /\ <<a, b>>[2] = b
        /\ \A a, b, c \in Step :
             /\ <<a, b, c>> \in Seq(Step) /\ Len(<<a, b, c>>) = 3
             /\ <<a, b, c>>[1] = a /\ <<a, b, c>>[2] = b /\ <<a, b, c>>[3] = c
    OBVIOUS
  <1>1. /\ "init" \in DriverCall /\ "access" \in DriverCall /\ "stop" \in DriverCall
        /\ "trigger" \in DriverCall /\ "read" \in DriverCall /\ "cancel" \in DriverCall
        /\ "timed out" \in {"always", "unread", "timed out"}
    BY DEF DriverCall
  <1>a. /\ Do("trigger") \in Step /\ Due(Do("trigger")) = "none"
        /\ Do("stop") \in Step /\ Due(Do("stop")) = "none"
        /\ Do("read") \in Step /\ Due(Do("read")) = "none"
        /\ Do("cancel") \in Step /\ Due(Do("cancel")) = "none"
        /\ DoWhen("timed out", "cancel") \in Step /\ Due(DoWhen("timed out", "cancel")) = "none"
    <2>1. \A c \in DriverCall : Do(c) \in Step /\ Due(Do(c)) = "none"
      BY StepShape
    <2>2. DoWhen("timed out", "cancel") \in Step /\ Due(DoWhen("timed out", "cancel")) = "none"
      BY <1>1, StepShape
    <2> QED
      BY <2>1, <2>2, <1>1
  <1>b. /\ Judge("access", "ping_after_init") \in Step
        /\ Due(Judge("access", "ping_after_init")) = "ping_after_init"
        /\ Judge("access", "ping_after_init").call = "access"
        /\ Judge("access", "ping_after_init").when = "always"
    BY DEF Judge, Step, Due, DriverCall, Test, CoreTest
  <1>c. /\ Judge("stop", "trigger_and_stop") \in Step
        /\ Due(Judge("stop", "trigger_and_stop")) = "trigger_and_stop"
        /\ Judge("stop", "trigger_and_stop").call = "stop"
        /\ Judge("stop", "trigger_and_stop").when = "always"
    BY DEF Judge, Step, Due, DriverCall, Test, CoreTest
  <1>d. /\ Judge("stop", Timeout) \in Step /\ Due(Judge("stop", Timeout)) = Timeout
        /\ Judge("stop", Rapid) \in Step /\ Due(Judge("stop", Rapid)) = Rapid
        /\ Judge("stop", "cancel_then_rescan") \in Step
        /\ Due(Judge("stop", "cancel_then_rescan")) = "cancel_then_rescan"
    BY DEF Judge, Step, Due, DriverCall, Test, CoreTest, ExtendedTest, Timeout, Rapid
  <1>2. ASSUME NEW call \in DriverCall, NEW test \in Test, test \notin Answered \cup {Timeout, Rapid}
        PROVE  WellMade(<<Judge(call, test)>>) /\ Complete(<<Judge(call, test)>>)
    <2> DEFINE a == Judge(call, test)
    <2>1. a \in Step /\ Due(a) = test
      BY StepShape
    <2> HIDE DEF a
    <2>2. <<a>> \in Seq(Step) /\ \A k \in 1 .. Len(<<a>>) : <<a>>[k] = a
      BY <2>1, <1>0
    <2>3. WellMade(<<a>>) /\ Complete(<<a>>)
      BY <2>1, <2>2, <1>2, PlainSteps
    <2> QED
      BY <2>3 DEF a
  <1>3. /\ "init_detects_scanner" \in Test \ (Answered \cup {Timeout, Rapid})
        /\ "state_transitions" \in Test \ (Answered \cup {Timeout, Rapid})
        /\ "read_idle_no_trigger" \in Test \ (Answered \cup {Timeout, Rapid})
        /\ "cancel_then_rescan" \in Test \ (Answered \cup {Timeout, Rapid})
        /\ "ping_after_init" \in Answered \ {Timeout, Rapid}
        /\ "ping_after_init" \in Test /\ "trigger_and_stop" \in Test
        /\ "trigger_and_stop" \in Answered \ {Timeout, Rapid}
        /\ Timeout \notin Answered /\ Rapid \notin Answered /\ Timeout # Rapid
        /\ "none" \notin Answered /\ Timeout # "none" /\ Rapid # "none"
        /\ Timeout \in Test /\ Rapid \in Test /\ Answered \subseteq Test
    BY DEF Test, CoreTest, ExtendedTest, Answered, Timeout, Rapid
  <1>4. /\ WellMade(test_init) /\ Complete(test_init)
        /\ WellMade(test_state_transitions) /\ Complete(test_state_transitions)
        /\ WellMade(test_read_idle_no_trigger) /\ Complete(test_read_idle_no_trigger)
    BY <1>1, <1>2, <1>3 DEF test_init, test_state_transitions, test_read_idle_no_trigger
  <1>5. WellMade(test_ping) /\ Complete(test_ping)
    <2> DEFINE a == Judge("access", "ping_after_init")
    <2>1. /\ a \in Step /\ Due(a) = "ping_after_init" /\ a.call = "access" /\ a.when = "always"
      BY <1>a, <1>b, <1>c, <1>d
    <2> HIDE DEF a
    <2>2. /\ <<a>> \in Seq(Step) /\ \A k \in 1 .. Len(<<a>>) : <<a>>[k] = a
      BY <2>1, <1>0
    <2>3. WellMade(<<a>>) /\ Complete(<<a>>)
      BY <2>1, <2>2, <1>3 DEF WellMade, Complete, Fits
    <2> QED
      BY <2>3 DEF a, test_ping
  <1>6. WellMade(test_trigger_stop) /\ Complete(test_trigger_stop)
    <2> DEFINE a == Do("trigger")  b == Judge("stop", "trigger_and_stop")
    <2>1. /\ a \in Step /\ Due(a) = "none" /\ b \in Step
          /\ Due(b) = "trigger_and_stop" /\ b.call = "stop" /\ b.when = "always"
      BY <1>a, <1>b, <1>c, <1>d
    <2> HIDE DEF a, b
    <2>2. <<a, b>> \in Seq(Step) /\ \A k \in 1 .. Len(<<a, b>>) : <<a, b>>[k] \in {a, b}
      BY <2>1, <1>0
    <2>3. ASSUME NEW k \in 1 .. Len(<<a, b>>)
          PROVE  /\ Fits(<<a, b>>, k) /\ Due(<<a, b>>[k]) # Timeout /\ Due(<<a, b>>[k]) # Rapid
      <3>1. CASE <<a, b>>[k] = a
        BY <3>1, <2>1, <1>3 DEF Fits
      <3>2. CASE <<a, b>>[k] = b
        BY <3>2, <2>1, <1>3 DEF Fits
      <3> QED
        BY <3>1, <3>2, <2>2
    <2>4. WellMade(<<a, b>>) /\ Complete(<<a, b>>)
      BY <2>2, <2>3 DEF WellMade, Complete
    <2> QED
      BY <2>4 DEF a, b, test_trigger_stop
  <1>7. WellMade(test_read_scan_timeout) /\ Complete(test_read_scan_timeout)
    <2> DEFINE s == <<TriggerStep, ReadStep, TimeoutCancel, TimeoutStop>>
    <2>1. /\ TriggerStep \in Step /\ ReadStep \in Step /\ TimeoutCancel \in Step /\ TimeoutStop \in Step
          /\ Due(TriggerStep) = "none" /\ Due(ReadStep) = "none"
          /\ Due(TimeoutCancel) = "none" /\ Due(TimeoutStop) = Timeout
      BY <1>a, <1>d DEF TriggerStep, ReadStep, TimeoutCancel, TimeoutStop
    <2>2. /\ s \in Seq(Step) /\ Len(s) = 4
          /\ s[1] = TriggerStep /\ s[2] = ReadStep /\ s[3] = TimeoutCancel /\ s[4] = TimeoutStop
      BY <2>1
    <2> HIDE DEF s
    <2>3. ASSUME NEW k \in 1 .. 4
          PROVE  /\ Fits(s, k) /\ (Due(s[k]) = Timeout => k > 3) /\ (Due(s[k]) = Rapid => k > 1)
      <3>1. CASE k = 1 \/ k = 2 \/ k = 3
        <4>1. Due(s[k]) = "none"
          BY <3>1, <2>1, <2>2
        <4> QED
          BY <4>1, <1>3 DEF Fits
      <3>2. CASE k = 4
        <4>0. k - 1 = 3 /\ k - 2 = 2 /\ k - 3 = 1
          BY <3>2
        <4>1. /\ s[k] = TimeoutStop /\ s[k - 1] = TimeoutCancel /\ s[k - 2] = ReadStep
              /\ s[k - 3] = TriggerStep
          BY <4>0, <3>2, <2>2
        <4> QED
          BY <4>1, <3>2, <2>1, <1>3 DEF Fits
      <3> QED
        BY <3>1, <3>2
    <2>4. WellMade(s) /\ Complete(s)
      BY <2>2, <2>3 DEF WellMade, Complete
    <2> QED
      BY <2>4 DEF s, test_read_scan_timeout, TriggerStep, ReadStep, TimeoutCancel, TimeoutStop,
         Timeout
  <1>8. WellMade(test_cancel_then_rescan) /\ Complete(test_cancel_then_rescan)
    <2> DEFINE a == Do("trigger")  b == Do("read")  c == Do("cancel")  d == Do("stop")
               e == Judge("stop", "cancel_then_rescan")  s == <<a, b, c, d, a, b, e>>
    <2>1. /\ a \in Step /\ b \in Step /\ c \in Step /\ d \in Step /\ e \in Step
          /\ Due(a) = "none" /\ Due(b) = "none" /\ Due(c) = "none" /\ Due(d) = "none"
          /\ Due(e) = "cancel_then_rescan"
      BY <1>a, <1>b, <1>c, <1>d
    <2>2. s \in Seq(Step) /\ \A k \in 1 .. Len(s) : s[k] \in {a, b, c, d, e}
      <3> HIDE DEF a, b, c, d, e
      <3> QED
        BY <2>1
    <2>3. \A x \in {a, b, c, d, e} : Due(x) \notin Answered \cup {Timeout, Rapid}
      <3> HIDE DEF a, b, c, d, e
      <3> QED
        BY <2>1, <1>3
    <2> HIDE DEF s
    <2>4. WellMade(s) /\ Complete(s)
      BY <2>2, <2>3, PlainSteps
    <2> QED
      BY <2>4 DEF s, test_cancel_then_rescan
  <1>9. WellMade(test_rapid_triggers) /\ Complete(test_rapid_triggers)
    <2> DEFINE p == Do("trigger")  q == Do("stop")  s == <<ReadStep, CancelStep, RapidStop>>
    <2>1. /\ p \in Step /\ q \in Step
          /\ ReadStep \in Step /\ CancelStep \in Step /\ RapidStop \in Step
          /\ Due(p) = "none" /\ Due(q) = "none"
          /\ Due(ReadStep) = "none" /\ Due(CancelStep) = "none" /\ Due(RapidStop) = Rapid
      BY <1>a, <1>d DEF ReadStep, CancelStep, RapidStop
    <2>2. /\ s \in Seq(Step) /\ Len(s) = 3
          /\ s[1] = ReadStep /\ s[2] = CancelStep /\ s[3] = RapidStop
      BY <2>1
    <2> HIDE DEF s
    <2>3. ASSUME NEW k \in 1 .. 3
          PROVE  /\ Fits(s, k) /\ (Due(s[k]) = Timeout => k > 3) /\ (Due(s[k]) = Rapid => k > 1)
      <3>1. CASE k = 1 \/ k = 2
        <4>1. Due(s[k]) = "none"
          BY <3>1, <2>1, <2>2
        <4> QED
          BY <4>1, <1>3 DEF Fits
      <3>2. CASE k = 3
        <4>0. k - 1 = 2
          BY <3>2
        <4>1. s[k] = RapidStop /\ s[k - 1] = CancelStep
          BY <4>0, <3>2, <2>2
        <4> QED
          BY <4>1, <3>2, <2>1, <1>3 DEF Fits
      <3> QED
        BY <3>1, <3>2
    <2>4. WellMade(s) /\ Complete(s)
      BY <2>2, <2>3 DEF WellMade, Complete
    <2>5. WellMade(Times(RapidTriggers, <<p, q>>)) /\ Complete(Times(RapidTriggers, <<p, q>>))
      <3>1. RapidTriggers \in Nat
        BY SuiteAssumption
      <3> HIDE DEF p, q
      <3> QED
        BY <3>1, <2>1, TimesPlain, StepShape
    <2>6. test_rapid_triggers = Times(RapidTriggers, <<p, q>>) \o s
      BY DEF test_rapid_triggers, s, Rapid, ReadStep, CancelStep, RapidStop
    <2> QED
      BY <2>4, <2>5, <2>6, ListsJoin
  <1> QED
    BY <1>4, <1>5, <1>6, <1>7, <1>8, <1>9

LEMMA NoSteps == WellMade(<<>>) /\ Complete(<<>>)
  <1> DEFINE s == <<>>
  <1>1. s \in Seq(Step) /\ Len(s) = 0
    BY EmptySeq
  <1> HIDE DEF s
  <1>2. WellMade(s) /\ Complete(s)
    BY <1>1 DEF WellMade, Complete
  <1> QED
    BY <1>2 DEF s

Made(s) == WellMade(s) /\ Complete(s)

\* The whole list of either program is well made.
LEMMA MainMade == WellMade(main) /\ Complete(main)
  <1>0. ASSUME NEW a, NEW b, Made(a), Made(b) PROVE Made(a \o b)
    BY <1>0, ListsJoin DEF Made
  <1>1. ASSUME NEW s \in Seq(Step), \A k \in 1 .. Len(s) : Due(s[k]) \notin Answered \cup {Timeout, Rapid}
        PROVE  Made(s)
    BY <1>1, PlainSteps DEF Made
  <1>2. "none" \notin Answered \cup {Timeout, Rapid} /\ "qr" \notin Answered \cup {Timeout, Rapid}
    BY DEF Answered, Timeout, Rapid
  <1>3. ASSUME NEW a \in Step, Due(a) \notin Answered \cup {Timeout, Rapid} PROVE Made(<<a>>)
    <2>1. <<a>> \in Seq(Step) /\ \A k \in 1 .. Len(<<a>>) : <<a>>[k] = a
      OBVIOUS
    <2> QED
      BY <2>1, <1>1, <1>3
  <1>4. Made(<<>>)
    BY NoSteps DEF Made
  <1>5. ASSUME NEW tests \in SUBSET Test PROVE Made(<<HaltUnless(tests)>>)
    <2>1. HaltUnless(tests) \in Step /\ Due(HaltUnless(tests)) = "none"
      BY StepShape
    <2> QED
      BY <2>1, <1>2, <1>3
  <1>6. {"init_detects_scanner"} \in SUBSET Test /\ CoreTest \in SUBSET Test
        /\ ExtendedTest \in SUBSET Test
    BY DEF Test, CoreTest, ExtendedTest
  <1>7. Made(run_hil_tests)
    <2> DEFINE gate == <<HaltUnless({"init_detects_scanner"})>>
    <2>1. Made(gate)
      BY <1>5, <1>6
    <2> HIDE DEF gate
    <2>2. /\ Made(test_init) /\ Made(test_ping) /\ Made(test_trigger_stop)
          /\ Made(test_read_scan_timeout) /\ Made(test_state_transitions)
      BY TestsMade DEF Made
    <2>3. Made(test_init \o gate)
      BY <2>1, <2>2, <1>0
    <2>4. Made(test_init \o gate \o test_ping)
      BY <2>2, <2>3, <1>0
    <2>5. Made(test_init \o gate \o test_ping \o test_trigger_stop)
      BY <2>2, <2>4, <1>0
    <2>6. Made(test_init \o gate \o test_ping \o test_trigger_stop \o test_read_scan_timeout)
      BY <2>2, <2>5, <1>0
    <2>7. Made(test_init \o gate \o test_ping \o test_trigger_stop \o test_read_scan_timeout
                 \o test_state_transitions)
      BY <2>2, <2>6, <1>0
    <2> QED
      BY <2>7 DEF run_hil_tests, gate
  <1>8. Made(run_extended_hil_tests)
    <2>1. /\ Made(test_cancel_then_rescan) /\ Made(test_rapid_triggers)
          /\ Made(test_read_idle_no_trigger)
      BY TestsMade DEF Made
    <2>2. Made(test_cancel_then_rescan \o test_rapid_triggers)
      BY <2>1, <1>0
    <2>3. Made(test_cancel_then_rescan \o test_rapid_triggers \o test_read_idle_no_trigger)
      BY <2>1, <2>2, <1>0
    <2> QED
      BY <2>3 DEF run_extended_hil_tests
  <1>9. Made(run_hil_test_with_qr)
    <2> DEFINE a == Do("trigger")  b == Do("read")
               p == DoWhen("unread", "trigger")  q == DoWhen("unread", "read")
               again == IF driver = "sync" THEN Times(QrTries - 1, <<p, q>>) ELSE <<>>
    <2>1. a \in Step /\ Due(a) = "none" /\ b \in Step /\ Due(b) = "none"
      BY DEF Do, Step, Due, DriverCall
    <2>2. p \in Step /\ Due(p) = "none" /\ q \in Step /\ Due(q) = "none"
      BY DEF DoWhen, Step, Due, DriverCall
    <2>3. QrTries - 1 \in Nat
      BY SuiteAssumption
    <2> HIDE DEF a, b, p, q
    <2>4. Made(again)
      BY <2>2, <2>3, <1>2, <1>4, TimesPlain DEF Made
    <2>5. <<a, b>> \in Seq(Step) /\ \A k \in 1 .. Len(<<a, b>>) : <<a, b>>[k] \in {a, b}
      BY <2>1
    <2>6. Made(<<a, b>>)
      BY <2>1, <2>5, <1>1, <1>2
    <2> HIDE DEF again
    <2>7. Made(<<a, b>> \o again)
      BY <2>4, <2>6, <1>0
    <2> QED
      BY <2>7 DEF run_hil_test_with_qr, a, b, p, q, again
  <1> DEFINE first == IF driver = "async" THEN run_extended_hil_tests ELSE <<>>
             gate == <<HaltUnless(CoreTest)>>
             second == IF driver = "async"
                         THEN run_extended_hil_tests \o <<HaltUnless(ExtendedTest)>> ELSE <<>>
             access == <<Do("access")>>
             last == <<Judge("access", "qr")>>
  <1>10. Made(first)
    BY <1>4, <1>8
  <1>11. Made(gate)
    BY <1>5, <1>6
  <1>12. Made(second)
    <2>1. Made(<<HaltUnless(ExtendedTest)>>)
      BY <1>5, <1>6
    <2>2. Made(run_extended_hil_tests \o <<HaltUnless(ExtendedTest)>>)
      BY <2>1, <1>0, <1>8
    <2> QED
      BY <2>2, <1>4
  <1>13. Made(access)
    <2>1. Do("access") \in Step /\ Due(Do("access")) = "none"
      BY DEF Do, Step, Due, DriverCall
    <2> QED
      BY <2>1, <1>2, <1>3
  <1>14. Made(last)
    <2>1. Judge("access", "qr") \in Step /\ Due(Judge("access", "qr")) = "qr"
      BY DEF Judge, Step, Due, DriverCall, Test
    <2> QED
      BY <2>1, <1>2, <1>3
  <1> HIDE DEF first, gate, second, access, last
  <1>15. Made(run_hil_tests \o first)
    BY <1>0, <1>7, <1>10
  <1>16. Made(run_hil_tests \o first \o gate)
    BY <1>0, <1>11, <1>15
  <1>17. Made(run_hil_tests \o first \o gate \o second)
    BY <1>0, <1>12, <1>16
  <1>18. Made(run_hil_tests \o first \o gate \o second \o access)
    BY <1>0, <1>13, <1>17
  <1>19. Made(run_hil_tests \o first \o gate \o second \o access \o run_hil_test_with_qr)
    BY <1>0, <1>9, <1>18
  <1>20. Made(run_hil_tests \o first \o gate \o second \o access \o run_hil_test_with_qr \o last)
    BY <1>0, <1>14, <1>19
  <1>21. Made(main)
    BY <1>20 DEF main, first, gate, second, access, last
  <1> QED
    BY <1>21 DEF Made

----------------------------------------------------------------------------
(* The on-device tests *)

NoCode(s) == \A k \in 1 .. Len(s) : ~OfCode(s[k])
\* While no code was read there are no bytes of one.
NothingSeen == codes = 0 => NoCode(ring) /\ NoCode(line)

SuiteTypes ==
  /\ result \in {"none", "code", "failed"}
  /\ answers \subseteq BOOLEAN
  /\ unheard \in Nat
  /\ faulty \in BOOLEAN
  /\ due \in Test \cup {"none"}
  /\ verdict \in [Test -> {"none", "pass", "fail"}]
  /\ WellMade(suite)

\* Replies that are on the way, and those that commands will still bring, are owed by
\* commands that were not answered in time, or by the one that waits.
Promised == Len(inbox) * RespLen
Late == Replied(buffer) + Replied(ring) + Replied(line) + Promised
Waits == IF pc = "reply" THEN 1 ELSE 0
RepliesOwed == ~Firmware => Late <= (unheard + Waits) * RespLen

\* A read that is over returned a code, left Cancelled, or failed for a reason that
\* AmbientTolerated names.
Excused == lost \/ faulty \/ (driver = "sync" /\ Overfull)
TimedOut == ReadOrTimedOut \/ (result = "failed" /\ Excused)

\* How far the calls have come that a verdict asks for.
Placed ==
  /\ Len(suite) >= 1 /\ Due(suite[1]) = Timeout => pc = "idle" /\ TimedOut
  /\ Len(suite) >= 2 /\ Due(suite[2]) = Timeout =>
       \/ pc = "read_scan" /\ (own \/ lost)
       \/ pc = "idle" /\ (driver = "async" \/ TimedOut)
  /\ Len(suite) >= 3 /\ Due(suite[3]) = Timeout =>
       pc \in {"idle", "send", "reply"} /\ (own \/ lost)
  /\ Len(suite) >= 1 /\ Due(suite[1]) = Rapid => pc = "idle" /\ state = "Cancelled"
  /\ due = Timeout => pc \in {"idle", "send", "reply"} /\ TimedOut
  /\ due = Rapid => pc \in {"idle", "send", "reply"} /\ state = "Cancelled"
  /\ due \in Answered => pc \in {"send", "reply"} \/ (pc = "idle" /\ answers # {})

Heard ==
  /\ unheard = 0 => FALSE \notin answers
  /\ codes = 0 => result # "code"
  /\ unheard = 0 /\ codes = 0 /\ ~faulty => result # "failed"

Verdicts == QuietBenchPasses /\ AmbientTolerated
SuiteInv == NothingSeen /\ SuiteTypes /\ RepliesOwed /\ Placed /\ Heard /\ Verdicts

LEMMA CodesGrow ==
  ASSUME LinkTypeOK, LinkStep
  PROVE  /\ codes \in Nat /\ codes' \in Nat /\ codes <= codes' /\ (lost => lost')
         /\ UNCHANGED driver
         /\ codes' = 0 => codes = 0 /\ ~ModuleReads
  <1>0. codes \in Nat
    BY LinkAssumption DEF LinkTypeOK
  <1>1. CASE ModuleReads
    <2>1. codes' = codes + 1 /\ UNCHANGED <<lost, driver>>
      BY <1>1 DEF ModuleReads, histVars, callVars
    <2> QED
      BY <2>1, <1>0
  <1>2. CASE ~ModuleReads
    <2>1. UNCHANGED <<codes, driver>> /\ (lost => lost')
      <3>1. CASE CallBegins
        BY <3>1, CallBeginsShape DEF CallShape, moduleVars
      <3>2. CASE Arrive
        BY <3>2 DEF Arrive, histVars, callVars
      <3>3. CASE ~CallBegins /\ ~Arrive
        <4>1. UNCHANGED <<codes, lost, driver>>
          BY <1>2, <3>3 DEF LinkStep, ModuleAnswers, SendCommand, ReadReply, ReplyTimeout,
             StartRead, ReadByte, ReadEnds, ReadFails, poll_uart, reset_to_ready, StateMoves, vars,
             moduleVars, histVars, callVars
        <4> QED
          BY <4>1
      <3> QED
        BY <3>1, <3>2, <3>3
    <2> QED
      BY <2>1, <1>2, <1>0
  <1> QED
    BY <1>1, <1>2

LEMMA NoCodeRest ==
  ASSUME NEW s \in Seq(Byte), NEW t \in Seq(Byte), NEW k \in Nat, Rest(s, k, t), NoCode(s)
  PROVE  NoCode(t)
  <1>1. Len(s) \in Nat /\ Len(t) \in Nat /\ Len(s) = k + Len(t)
        /\ \A i \in 1 .. Len(t) : t[i] = s[k + i]
    BY LenProperties DEF Rest
  <1>2. \A i \in 1 .. Len(t) : k + i \in 1 .. Len(s)
    BY <1>1
  <1> QED
    BY <1>1, <1>2 DEF NoCode

LEMMA NothingSeenStep ==
  ASSUME LinkTypeOK, LinkTypeOK', NothingSeen, LinkStep
  PROVE  NothingSeen'
  <1> SUFFICES ASSUME codes' = 0 PROVE NoCode(ring') /\ NoCode(line')
    BY DEF NothingSeen
  <1>0. /\ ring \in Seq(Byte) /\ line \in Seq(Byte) /\ ring' \in Seq(Byte) /\ line' \in Seq(Byte)
        /\ NoCode(ring) /\ NoCode(line) /\ ~ModuleReads /\ NoCode(<<>>)
        /\ Len(ring) \in Nat
    <2>1. Len(<<>>) = 0
      BY EmptySeq
    <2>2. NoCode(<<>>)
      BY <2>1 DEF NoCode
    <2> QED
      BY <2>2, CodesGrow, StreamTyped, LenProperties DEF NothingSeen
  <1>1. CASE UNCHANGED <<ring, line>>
    BY <1>0, <1>1
  <1>2. CASE ModuleAnswers
    <2>1. CASE line' = line \o Reply
      <3>1. /\ Reply \in Seq(Byte) /\ Len(Reply) = FrameLen(0)
            /\ \A i \in 1 .. FrameLen(0) : Reply[i] = <<0, i>>
        BY FrameShape
      <3>2. /\ Len(line) \in Nat /\ Len(line') = Len(line) + Len(Reply)
            /\ \A i \in 1 .. Len(line) + Len(Reply) :
                 line'[i] = IF i <= Len(line) THEN line[i] ELSE Reply[i - Len(line)]
        BY <2>1, <3>1, <1>0, LenProperties, ConcatProperties
      <3>3. \A i \in 1 .. Len(Reply) : ~OfCode(Reply[i])
        BY <3>1 DEF OfCode
      <3>4. ASSUME NEW i \in 1 .. Len(line) + Len(Reply) PROVE ~OfCode(line'[i])
        <4>1. CASE i <= Len(line)
          <5>1. i \in 1 .. Len(line) /\ line'[i] = line[i]
            BY <4>1, <3>2
          <5> QED
            BY <5>1, <1>0 DEF NoCode
        <4>2. CASE ~(i <= Len(line))
          <5>1. Len(Reply) \in Nat
            BY <3>1, LenProperties
          <5>2. i - Len(line) \in 1 .. Len(Reply)
            BY <4>2, <5>1, <3>2
          <5>3. line'[i] = Reply[i - Len(line)]
            BY <4>2, <3>2
          <5> QED
            BY <5>2, <5>3, <3>3
        <4> QED
          BY <4>1, <4>2
      <3>5. ring' = ring
        BY <1>2 DEF ModuleAnswers
      <3> QED
        BY <3>2, <3>4, <3>5, <1>0 DEF NoCode
    <2> QED
      BY <1>1, <1>2, <2>1 DEF ModuleAnswers
  <1>3. CASE Arrive
    <2>1. line # <<>> /\ line' = Tail(line)
      BY <1>3 DEF Arrive
    <2>2. NoCode(line') /\ Head(line) = line[1] /\ Head(line) \in Byte /\ Len(line) \in Nat \ {0}
      BY <2>1, <1>0, TailTyped, NoCodeRest
    <2>3. ~OfCode(Head(line))
      <3>1. 1 \in 1 .. Len(line)
        BY <2>2
      <3> QED
        BY <3>1, <2>2, <1>0 DEF NoCode
    <2>4. CASE ring' = Append(ring, Head(line))
      <3>1. /\ Len(ring') = Len(ring) + 1 /\ ring'[Len(ring) + 1] = Head(line)
            /\ \A i \in 1 .. Len(ring) : ring'[i] = ring[i]
        BY <2>2, <2>4, <1>0, AppendProperties
      <3>2. ASSUME NEW i \in 1 .. Len(ring) + 1 PROVE ~OfCode(ring'[i])
        <4>1. CASE i = Len(ring) + 1
          BY <4>1, <3>1, <2>3
        <4>2. CASE i \in 1 .. Len(ring)
          BY <4>2, <3>1, <1>0 DEF NoCode
        <4> QED
          BY <4>1, <4>2, <1>0
      <3> QED
        BY <3>1, <3>2, <2>2 DEF NoCode
    <2> QED
      BY <1>0, <1>3, <2>2, <2>4 DEF Arrive
  <1>4. CASE CallBegins
    BY <1>1, <1>4, CallBeginsShape DEF CallShape, moduleVars
  <1>5. CASE SendCommand
    <2>1. CASE drain_uart
      BY <1>0, <2>1, DrainShape, NoCodeRest
    <2> QED
      BY <1>1, <1>5, <2>1 DEF SendCommand
  <1>6. CASE ReadReply
    <2>1. Len(ring) >= RespLen /\ ring' = SubSeq(ring, RespLen + 1, Len(ring)) /\ line' = line
      BY <1>6 DEF ReadReply, moduleVars
    <2>2. RespLen \in 0 .. Len(ring) /\ RespLen \in Nat
      BY <2>1, <1>0, LinkAssumption
    <2>3. Rest(ring, RespLen, ring')
      BY <2>1, <2>2, <1>0, RestTyped
    <2> QED
      BY <2>1, <2>2, <2>3, <1>0, NoCodeRest
  <1>7. CASE ReplyTimeout
    BY <1>0, <1>7 DEF ReplyTimeout, moduleVars
  <1>8. CASE ReadByte \/ poll_uart
    <2>1. ring # <<>> /\ ring' = Tail(ring) /\ line' = line
      BY <1>8 DEF ReadByte, poll_uart, moduleVars
    <2>2. Rest(ring, 1, ring')
      BY <2>1, <1>0, TailTyped
    <2> QED
      BY <2>1, <2>2, <1>0, NoCodeRest
  <1>9. CASE (\E how \in {"read_scan", "try_read_scan"} : StartRead(how)) \/ ReadEnds \/ ReadFails
               \/ reset_to_ready \/ StateMoves \/ UNCHANGED vars
    <2>1. UNCHANGED <<ring, line>>
      BY <1>9 DEF StartRead, ReadEnds, ReadFails, reset_to_ready, StateMoves, vars, moduleVars
    <2> QED
      BY <2>1, <1>1
  <1> QED
    BY <1>0, <1>2, <1>3, <1>4, <1>5, <1>6, <1>7, <1>8, <1>9 DEF LinkStep

LEMMA LateType ==
  ASSUME LinkTypeOK
  PROVE  /\ Replied(buffer) \in Nat /\ Replied(ring) \in Nat /\ Replied(line) \in Nat
         /\ Len(inbox) \in Nat /\ Promised \in Nat /\ RespLen \in Nat \ {0}
         /\ Late \in Nat
  <1>1. /\ Replied(buffer) \in Nat /\ Replied(ring) \in Nat /\ Replied(line) \in Nat
        /\ Len(inbox) \in Nat
    BY RepliedType, LenProperties DEF LinkTypeOK
  <1>2. RespLen \in Nat \ {0} /\ Promised \in Nat
    BY <1>1, Products, LinkAssumption DEF Promised
  <1> QED
    BY <1>1, <1>2 DEF Late

LEMMA LateTypeNext ==
  ASSUME LinkTypeOK'
  PROVE  Late' \in Nat
  <1>1. /\ buffer' \in Seq(Byte) /\ ring' \in Seq(Byte) /\ line' \in Seq(Byte)
        /\ inbox' \in Seq({"enable", "stop", "other"})
    BY DEF LinkTypeOK
  <1>2. Len(inbox') \in Nat
    BY <1>1, LenProperties
  <1>3. Promised' \in Nat
    BY <1>2, Products DEF Promised
  <1>4. Replied(buffer') \in Nat /\ Replied(ring') \in Nat /\ Replied(line') \in Nat
    BY <1>1, RepliedType
  <1> QED
    BY <1>3, <1>4 DEF Late

\* More replies take more bytes.
LEMMA MoreReplies ==
  ASSUME NEW m \in Nat, NEW n \in Nat, m <= n
  PROVE  m * RespLen \in Nat /\ n * RespLen \in Nat /\ m * RespLen <= n * RespLen
  <1>1. m * RespLen \in Nat /\ n * RespLen \in Nat /\ RespLen \in Nat
    BY Products, LinkAssumption
  <1>2. CASE m = n
    BY <1>1, <1>2
  <1>3. CASE m \in 0 .. n - 1
    <2>1. m * RespLen + RespLen <= n * RespLen
      BY <1>3, Products
    <2> QED
      BY <2>1, <1>1
  <1> QED
    BY <1>2, <1>3

LEMMA NoBytesReplied == <<>> \in Seq(Byte) /\ Replied(<<>>) = 0
  <1> DEFINE s == <<>>
  <1>1. s \in Seq(Byte) /\ Len(s) = 0
    BY EmptySeq
  <1> HIDE DEF s
  <1>2. Replied(s) \in Nat /\ Replied(s) <= Len(s)
    BY <1>1, RepliedType
  <1>3. Replied(s) = 0
    BY <1>1, <1>2
  <1> QED
    BY <1>1, <1>3 DEF s

\* Only commands bring more replies.
OtherStep ==
  \/ ModuleReads \/ ModuleAnswers \/ Arrive
  \/ CallBegins
  \/ \E how \in {"read_scan", "try_read_scan"} : StartRead(how)
  \/ ReadByte \/ ReadEnds \/ ReadFails
  \/ poll_uart \/ reset_to_ready \/ StateMoves
  \/ UNCHANGED vars

LEMMA LateKept ==
  ASSUME LinkTypeOK, LinkTypeOK', OtherStep
  PROVE  Late' <= Late /\ (pc' = "reply" <=> pc = "reply")
  <1>0. /\ Replied(buffer) \in Nat /\ Replied(ring) \in Nat /\ Replied(line) \in Nat
        /\ Promised \in Nat /\ Replied(<<>>) = 0
    BY LateType, NoBytesReplied
  <1>10. /\ Len(inbox) \in Nat /\ RespLen \in Nat \ {0} /\ Len(ring) \in Nat
         /\ buffer \in Seq(Byte) /\ ring \in Seq(Byte) /\ line \in Seq(Byte)
    BY LateType, LenProperties DEF LinkTypeOK
  <1>1. ASSUME UNCHANGED <<buffer, ring, line, inbox>> PROVE Late' <= Late
    BY <1>0, <1>10, <1>1 DEF Late, Promised
  <1>2. CASE ModuleReads
    <2>1. codes' \in 1 .. MaxCodes /\ line' = line \o Code(codes')
          /\ UNCHANGED <<buffer, ring, inbox, pc>>
      BY <1>2, LinkAssumption DEF ModuleReads, LinkTypeOK
    <2>2. /\ Code(codes') \in Seq(Byte)
          /\ \A k \in 1 .. Len(Code(codes')) : OfCode(Code(codes')[k])
      <3>1. /\ Code(codes') \in Seq(Byte) /\ Len(Code(codes')) = FrameLen(codes')
            /\ \A k \in 1 .. FrameLen(codes') : Code(codes')[k] = <<codes', k>>
        BY <2>1, FrameShape
      <3>2. codes' # 0
        BY <2>1, LinkAssumption
      <3> QED
        BY <3>1, <3>2 DEF OfCode
    <2> DEFINE c == Code(codes')
    <2> HIDE DEF c
    <2>3. Replied(c) = 0
      BY <2>2, RepliedType DEF c
    <2>4. Replied(line') = Replied(line) + Replied(c)
      BY <2>1, <2>2, <1>0, <1>10, RepliedJoins DEF c
    <2> QED
      BY <2>1, <2>3, <2>4, <1>0 DEF Late, Promised
  <1>3. CASE ModuleAnswers
    <2>1. inbox # <<>> /\ inbox' = Tail(inbox) /\ line' \in {line, line \o Reply}
          /\ UNCHANGED <<buffer, ring, pc>>
      BY <1>3 DEF ModuleAnswers
    <2>2. Len(inbox') \in Nat /\ Len(inbox) = Len(inbox') + 1
      <3>1. inbox \in Seq({"enable", "stop", "other"})
        BY DEF LinkTypeOK
      <3> QED
        BY <3>1, <2>1, HeadTailProperties, EmptySeq
    <2>3. Promised' \in Nat /\ Promised = Promised' + RespLen
      BY <2>2, Products DEF Promised
    <2>4. Replied(line') <= Replied(line) + RespLen
      <3>1. Reply \in Seq(Byte) /\ Len(Reply) = RespLen
        BY FrameShape DEF FrameLen
      <3>2. Replied(Reply) \in Nat /\ Replied(Reply) <= RespLen
        BY <3>1, RepliedType
      <3>3. Replied(line \o Reply) = Replied(line) + Replied(Reply)
        BY <3>1, <1>0, <1>10, RepliedJoins
      <3>4. CASE line' = line
        BY <3>4, <1>0, <1>10
      <3>5. CASE line' = line \o Reply
        BY <3>5, <3>2, <3>3, <1>0, <1>10
      <3> QED
        BY <2>1, <3>4, <3>5
    <2>5. Replied(line') \in Nat
      BY LateType, RepliedType DEF LinkTypeOK
    <2>6. Replied(buffer') = Replied(buffer) /\ Replied(ring') = Replied(ring) /\ RespLen \in Nat
      BY <2>1, <1>10
    <2>7. Late' <= Late
      BY <2>3, <2>4, <2>5, <2>6, <1>0 DEF Late
    <2> QED
      BY <2>1, <2>7
  <1>4. CASE Arrive
    <2>1. /\ line # <<>> /\ line' = Tail(line) /\ ring' \in {ring, Append(ring, Head(line))}
          /\ UNCHANGED <<buffer, inbox, pc>>
      BY <1>4 DEF Arrive
    <2>2. /\ Replied(line) = Replied(line') + Counts(Head(line))
          /\ Head(line) \in Byte /\ line' \in Seq(Byte)
      BY <2>1, <1>0, <1>10, RepliedByte, TailTyped
    <2>3. Replied(line') \in Nat /\ Counts(Head(line)) \in 0 .. 1
      BY <2>2, RepliedType DEF Counts
    <2>4. Replied(Append(ring, Head(line))) = Replied(ring) + Counts(Head(line))
      BY <2>2, <1>0, <1>10, RepliedByte
    <2>5. Replied(ring') \in Nat /\ Replied(ring') <= Replied(ring) + Counts(Head(line))
      <3>1. CASE ring' = ring
        BY <3>1, <2>3, <1>0, <1>10
      <3>2. CASE ring' = Append(ring, Head(line))
        BY <3>2, <2>3, <2>4, <1>0, <1>10
      <3> QED
        BY <2>1, <3>1, <3>2
    <2>6. Replied(buffer') = Replied(buffer) /\ Promised' = Promised
      BY <2>1 DEF Promised
    <2>7. Late' <= Late
      <3>1. \A b, r, r1, l1, c, p \in Nat : r1 <= r + c => b + r1 + l1 + p <= b + r + (l1 + c) + p
        OBVIOUS
      <3> QED
        <4>1. /\ Replied(buffer) \in Nat /\ Replied(ring) \in Nat /\ Promised \in Nat
              /\ Counts(Head(line)) \in Nat
          BY <1>0, <2>3
        <4>2. Replied(buffer) + Replied(ring') + Replied(line') + Promised
                <= Replied(buffer) + Replied(ring) + (Replied(line') + Counts(Head(line))) + Promised
          BY ONLY <2>3, <2>5, <3>1, <4>1
        <4> QED
          BY <2>2, <2>6, <4>2 DEF Late
    <2> QED
      BY <2>1, <2>7
  <1>5. CASE CallBegins
    <2>1. buffer' \in {buffer, <<>>} /\ UNCHANGED <<ring, line, inbox>> /\ pc = "idle" /\ pc' = "send"
      BY <1>5, CallBeginsShape DEF CallShape, moduleVars
    <2> QED
      BY <2>1, <1>0 DEF Late, Promised
  <1>6. CASE ReadByte
    <2>1. /\ ring # <<>> /\ ring' = Tail(ring) /\ UNCHANGED <<line, inbox>>
          /\ buffer' \in {buffer, <<>>, Append(buffer, Head(ring))}
          /\ pc # "reply" /\ pc' # "reply"
      BY <1>6 DEF ReadByte, Overflow, Push, moduleVars
    <2>2. /\ Replied(ring) = Replied(ring') + Counts(Head(ring))
          /\ Head(ring) \in Byte /\ ring' \in Seq(Byte)
      BY <2>1, <1>0, <1>10, RepliedByte, TailTyped
    <2>3. Replied(ring') \in Nat /\ Counts(Head(ring)) \in 0 .. 1
      BY <2>2, RepliedType DEF Counts
    <2>4. Replied(Append(buffer, Head(ring))) = Replied(buffer) + Counts(Head(ring))
      BY <2>2, <1>0, <1>10, RepliedByte
    <2>5. Replied(buffer') \in Nat /\ Replied(buffer') <= Replied(buffer) + Counts(Head(ring))
      <3>1. CASE buffer' = buffer
        BY <3>1, <2>3, <1>0, <1>10
      <3>2. CASE buffer' = <<>>
        BY <3>2, <2>3, <1>0, <1>10
      <3>3. CASE buffer' = Append(buffer, Head(ring))
        BY <3>3, <2>3, <2>4, <1>0, <1>10
      <3> QED
        BY <2>1, <3>1, <3>2, <3>3
    <2>6. Replied(line') = Replied(line) /\ Promised' = Promised
      BY <2>1 DEF Promised
    <2>7. Late' <= Late
      <3>1. \A b, b1, r1, l, c, p \in Nat : b1 <= b + c => b1 + r1 + l + p <= b + (r1 + c) + l + p
        OBVIOUS
      <3>2. /\ Late = Replied(buffer) + (Replied(ring') + Counts(Head(ring))) + Replied(line)
                         + Promised
            /\ Late' = Replied(buffer') + Replied(ring') + Replied(line) + Promised
        BY <2>2, <2>6 DEF Late
      <3>3. Counts(Head(ring)) \in Nat
        BY <2>3
      <3> QED
        BY <2>3, <2>5, <1>0, <3>1, <3>2, <3>3
    <2> QED
      BY <2>1, <2>7
  <1>7. CASE poll_uart
    <2>1. ring # <<>> /\ ring' = Tail(ring) /\ UNCHANGED <<buffer, line, inbox, pc>>
      BY <1>7 DEF poll_uart, moduleVars
    <2>2. Replied(ring) = Replied(ring') + Counts(Head(ring)) /\ ring' \in Seq(Byte)
      BY <2>1, <1>0, <1>10, RepliedByte, TailTyped
    <2>3. Replied(ring') \in Nat /\ Counts(Head(ring)) \in 0 .. 1
      BY <2>2, RepliedType DEF Counts
    <2> QED
      BY <2>1, <2>2, <2>3, <1>0 DEF Late, Promised
  <1>8. CASE (\E how \in {"read_scan", "try_read_scan"} : StartRead(how)) \/ reset_to_ready
    <2>1. /\ buffer' \in {buffer, <<>>} /\ UNCHANGED <<ring, line, inbox>>
          /\ pc = "idle" /\ pc' # "reply"
      BY <1>8 DEF StartRead, reset_to_ready, ClearBuffer, moduleVars
    <2> QED
      BY <2>1, <1>0 DEF Late, Promised
  <1>9. CASE ReadEnds \/ ReadFails \/ StateMoves \/ UNCHANGED vars
    <2>1. UNCHANGED <<buffer, ring, line, inbox>> /\ (pc' = "reply" <=> pc = "reply")
      BY <1>9 DEF ReadEnds, ReadFails, StateMoves, vars, moduleVars
    <2> QED
      BY <2>1, <1>1
  <1> QED
    BY <1>2, <1>3, <1>4, <1>5, <1>6, <1>7, <1>8, <1>9 DEF OtherStep

\* A command brings one reply at most; a reply in time is one that came.
LEMMA LateMoves ==
  ASSUME LinkTypeOK, LinkTypeOK'
  PROVE  /\ SendCommand => pc # "reply" /\ Late' <= Late + RespLen
         /\ ReadReply =>
              /\ pc = "reply" /\ pc' # "reply" /\ Late' <= Late
              /\ IsReply(SubSeq(ring, 1, RespLen)) => Late' + RespLen <= Late
         /\ ReplyTimeout => pc = "reply" /\ pc' # "reply" /\ Late' <= Late
  <1>0. /\ Replied(buffer) \in Nat /\ Replied(ring) \in Nat /\ Replied(line) \in Nat
        /\ Promised \in Nat /\ Replied(<<>>) = 0
    BY LateType, NoBytesReplied
  <1>10. /\ Len(inbox) \in Nat /\ RespLen \in Nat \ {0} /\ Len(ring) \in Nat
         /\ buffer \in Seq(Byte) /\ ring \in Seq(Byte) /\ line \in Seq(Byte)
    BY LateType, LenProperties DEF LinkTypeOK
  <1>1. ASSUME SendCommand PROVE pc # "reply" /\ Late' <= Late + RespLen
    <2>1. pc = "send" /\ UNCHANGED buffer
      BY <1>1 DEF SendCommand
    <2>2. Replied(ring') <= Replied(ring) /\ Replied(ring') \in Nat
          /\ Replied(line') <= Replied(line) /\ Replied(line') \in Nat
      <3>1. CASE drain_uart
        <4>1. PICK n \in 0 .. Len(line) : ring' = <<>> /\ line' \in Seq(Byte) /\ Rest(line, n, line')
          BY <3>1, DrainShape
        <4> QED
          BY <4>1, <1>0, <1>10, RepliedRest, RepliedType
      <3>2. CASE UNCHANGED <<ring, line>>
        BY <3>2, <1>0, <1>10
      <3> QED
        BY <1>1, <3>1, <3>2 DEF SendCommand
    <2>3. inbox' = inbox \/ inbox' = Append(inbox, Head(todo).cmd)
      BY <1>1 DEF SendCommand
    <2>4. Promised' <= Promised + RespLen /\ Promised' \in Nat
      <3>1. CASE inbox' = inbox
        BY <3>1, <1>0, <1>10 DEF Promised
      <3>2. CASE inbox' = Append(inbox, Head(todo).cmd)
        <4>1. Head(todo) \in Command
          <5>1. todo \in Seq(Command) /\ todo # <<>>
            BY <2>1 DEF LinkTypeOK
          <5> QED
            BY <5>1, HeadTailProperties
        <4>2. Len(inbox') = Len(inbox) + 1
          BY <3>2 DEF LinkTypeOK
        <4> QED
          BY <4>2, <1>0, <1>10, Products DEF Promised
      <3> QED
        BY <2>3, <3>1, <3>2
    <2>5. Replied(buffer') = Replied(buffer)
      BY <2>1
    <2>6. RespLen \in Nat
      BY <1>10
    <2>7. Late' <= Late + RespLen
      BY <2>2, <2>4, <2>5, <2>6, <1>0 DEF Late
    <2> QED
      BY <2>1, <2>7
  <1>2. ASSUME ReadReply
        PROVE  /\ pc = "reply" /\ pc' # "reply" /\ Late' <= Late
               /\ IsReply(SubSeq(ring, 1, RespLen)) => Late' + RespLen <= Late
    <2>1. /\ pc = "reply" /\ pc' # "reply" /\ UNCHANGED <<buffer, line, inbox>>
          /\ Len(ring) >= RespLen /\ ring' = SubSeq(ring, RespLen + 1, Len(ring))
      BY <1>2 DEF ReadReply, NextCommand, Entered, moduleVars
    <2>2. RespLen \in 0 .. Len(ring) /\ ring' \in Seq(Byte) /\ Rest(ring, RespLen, ring')
      <3>1. RespLen \in 0 .. Len(ring)
        BY <2>1, <1>0, <1>10
      <3> QED
        BY <3>1, <2>1, <1>0, <1>10, RestTyped
    <2>3. /\ Replied(ring') <= Replied(ring) /\ Replied(ring') \in Nat
          /\ (\A i \in 1 .. RespLen : ~OfCode(ring[i])) => Replied(ring) = RespLen + Replied(ring')
      BY <2>2, <1>0, <1>10, RepliedRest, RepliedType
    <2>4. ASSUME IsReply(SubSeq(ring, 1, RespLen)), NEW i \in 1 .. RespLen PROVE ~OfCode(ring[i])
      <3>1. SubSeq(ring, 1, RespLen) = [k \in 1 .. RespLen |-> ring[k]]
        BY <2>1, <1>0, <1>10
      <3>2. ring[i] = <<0, i>>
        BY <2>4, <3>1 DEF IsReply
      <3> QED
        BY <3>2 DEF OfCode
    <2>5. /\ Replied(buffer') = Replied(buffer) /\ Replied(line') = Replied(line)
          /\ Promised' = Promised
      BY <2>1 DEF Promised
    <2>6. IsReply(SubSeq(ring, 1, RespLen)) => Replied(ring) = RespLen + Replied(ring')
      BY <2>3, <2>4
    <2>7. Replied(ring') <= Replied(ring) /\ Replied(ring') \in Nat
      BY <2>3
    <2>8. RespLen \in Nat
      BY <1>10
    <2>9. Late' <= Late
      BY <2>5, <2>7, <1>0 DEF Late
    <2>10. Replied(ring) = RespLen + Replied(ring') => Late' + RespLen <= Late
      BY <2>5, <2>7, <2>8, <1>0 DEF Late
    <2> QED
      BY <2>1, <2>6, <2>9, <2>10
  <1>3. ASSUME ReplyTimeout PROVE pc = "reply" /\ pc' # "reply" /\ Late' <= Late
    <2>1. /\ pc = "reply" /\ pc' # "reply" /\ UNCHANGED <<buffer, line, inbox>> /\ ring' = <<>>
      BY <1>3 DEF ReplyTimeout, NextCommand, Entered, moduleVars
    <2> QED
      BY <2>1, <1>0 DEF Late, Promised
  <1> QED
    BY <1>1, <1>2, <1>3

LEMMA OwedStep ==
  ASSUME LinkTypeOK, LinkTypeOK', SuiteTypes, RepliesOwed, [SuiteNext]_<<vars, suiteVars>>
  PROVE  RepliesOwed'
  <1> DEFINE n == unheard + Waits
  <1>0. /\ unheard \in Nat /\ Waits \in 0 .. 1 /\ n \in Nat /\ RespLen \in Nat
        /\ Late \in Nat /\ Late' \in Nat
    <2>1. unheard \in Nat /\ Waits \in 0 .. 1 /\ RespLen \in Nat
      BY LateType DEF SuiteTypes, Waits
    <2> QED
      BY <2>1, LateType, LateTypeNext
  <1>1. CASE Firmware /\ UNCHANGED suiteVars
    BY <1>1 DEF Firmware, suiteVars, RepliesOwed
  <1>2. CASE ~Firmware /\ Commanding
    <2>1. Late <= n * RespLen
      BY <1>2 DEF RepliesOwed
    <2>2. n * RespLen \in Nat /\ (n + 1) * RespLen = n * RespLen + RespLen
      <3> HIDE DEF n
      <3> QED
        BY <1>0, Products
    <2>3. CASE SendCommand /\ (IF pc' = "reply" THEN UNCHANGED <<answers, unheard>> ELSE Missed)
      <3>1. unheard' + Waits' = n + 1
        <4>1. pc # "reply"
          BY <2>3, LateMoves
        <4>2. CASE pc' = "reply"
          BY <2>3, <4>1, <4>2, <1>0 DEF Waits
        <4>3. CASE pc' # "reply"
          BY <2>3, <4>1, <4>3, <1>0 DEF Waits, Missed
        <4> QED
          BY <4>2, <4>3
      <3>2. Late' <= Late + RespLen
        BY <2>3, LateMoves
      <3> HIDE DEF n
      <3>3. Late' <= (n + 1) * RespLen
        BY <3>2, <2>1, <2>2, <1>0
      <3> QED
        BY <3>1, <3>3 DEF RepliesOwed
    <2>4. CASE \/ ReadReply /\ ~IsReply(SubSeq(ring, 1, RespLen)) /\ Missed
               \/ ReplyTimeout /\ Missed
      <3>1. Late' <= Late /\ pc = "reply" /\ pc' # "reply"
        BY <2>4, LateMoves
      <3>2. unheard' + Waits' = n
        <4>1. Waits = 1 /\ Waits' = 0 /\ unheard' = unheard + 1
          BY <2>4, <3>1 DEF Waits, Missed
        <4> QED
          BY <4>1, <1>0
      <3> HIDE DEF n
      <3>3. Late' <= n * RespLen
        BY <3>1, <2>1, <2>2, <1>0
      <3> QED
        BY <3>2, <3>3 DEF RepliesOwed
    <2>5. CASE ReadReply /\ IsReply(SubSeq(ring, 1, RespLen)) /\ UNCHANGED unheard
      <3>1. Late' + RespLen <= Late /\ pc = "reply" /\ pc' # "reply"
        BY <2>5, LateMoves
      <3>2. unheard' + Waits' = unheard /\ n = unheard + 1
        BY <2>5, <3>1, <1>0 DEF Waits
      <3>3. unheard * RespLen \in Nat /\ n * RespLen = unheard * RespLen + RespLen
        BY <3>2, <1>0, Products
      <3> DEFINE p == unheard * RespLen
      <3>4. p \in Nat /\ Late <= p + RespLen
        BY <3>3, <2>1
      <3> HIDE DEF n, p
      <3>5. Late \in Nat /\ Late' \in Nat /\ RespLen \in Nat /\ Late' + RespLen <= Late
        BY <3>1, <1>0
      <3>6. \A a, b, c, d \in Nat : a + d <= b /\ b <= c + d => a <= c
        OBVIOUS
      <3>7. Late' <= p
        BY <3>4, <3>5, <3>6
      <3> QED
        BY <3>2, <3>7 DEF RepliesOwed, p
    <2> QED
      BY <1>2, <2>3, <2>4, <2>5 DEF Commanding
  <1>3. ASSUME ~Firmware, OtherStep, UNCHANGED unheard PROVE RepliesOwed'
    <2>1. Late <= n * RespLen /\ n * RespLen \in Nat
      <3>1. Late <= n * RespLen
        BY <1>3 DEF RepliesOwed
      <3> HIDE DEF n
      <3> QED
        BY <3>1, <1>0, Products
    <2>2. Late' <= Late /\ unheard' + Waits' = n
      BY <1>3, LateKept DEF Waits
    <2> HIDE DEF n
    <2>3. Late' <= n * RespLen
      BY <2>1, <2>2, <1>0
    <2> QED
      BY <2>2, <2>3 DEF RepliesOwed
  <1>4. CASE ~Firmware /\ ModuleStep /\ UNCHANGED suiteVars
    BY <1>3, <1>4 DEF ModuleStep, OtherStep, suiteVars
  <1>5. CASE ~Firmware /\ MakeCall
    <2>1. CASE UNCHANGED vars
      BY <1>3, <1>5, <2>1 DEF OtherStep, MakeCall
    <2>2. CASE Makes(Head(suite).call)
      <3>1. CallBegins \/ StartRead("read_scan") \/ StateMoves
        BY <2>2 DEF Makes, CallBegins, cancel_scan, StateMoves, State
      <3> QED
        BY <1>3, <1>5, <3>1 DEF OtherStep, MakeCall
    <2> QED
      BY <1>5, <2>1, <2>2 DEF MakeCall
  <1>6. CASE ~Firmware /\ (Gate \/ Halted \/ UNCHANGED <<vars, suiteVars>>)
    <2>1. UNCHANGED vars /\ UNCHANGED unheard
      BY <1>6 DEF Gate, Halted, suiteVars
    <2> QED
      BY <1>3, <1>6, <2>1 DEF OtherStep
  <1>7. CASE ~Firmware /\ Reading
    BY <1>3, <1>7 DEF Reading, OtherStep
  <1>8. CASE ~Firmware /\ JudgeTest
    <2>1. StateMoves /\ UNCHANGED unheard
      BY <1>8 DEF JudgeTest, StateMoves, State, LinkTypeOK
    <2> QED
      BY <1>3, <1>8, <2>1 DEF OtherStep
  <1>9. CASE Firmware /\ UNCHANGED <<vars, suiteVars>>
    BY <1>1, <1>9
  <1> QED
    BY <1>1, <1>2, <1>4, <1>5, <1>6, <1>7, <1>8, <1>9 DEF SuiteNext, SuiteStep

\* A trigger's read fills the buffer only where the code is too long, or would have been
\* short enough without the replies that were missed.  On a quiet bench it has no byte.
LEMMA ReadOverflows ==
  ASSUME LinkTypeOK, LinkInv, SuiteTypes, NothingSeen, RepliesOwed,
         ~Firmware, pc \in {"read_scan", "try_read_scan"}, ring # <<>>
  PROVE  /\ own /\ PushFails => Overfull
         /\ ~(unheard = 0 /\ codes = 0)
  <1>1. /\ ring \in Seq(Byte) /\ buffer \in Seq(Byte) /\ Len(buffer) \in Nat
        /\ Head(ring) \in Byte /\ Head(ring) = ring[1] /\ 1 \in 1 .. Len(ring)
        /\ wire \in Seq(Byte) /\ unheard \in Nat
    BY StreamTyped, TailTyped, LenProperties DEF SuiteTypes
  <1>2. /\ Replied(buffer) \in Nat /\ Replied(ring) \in Nat
        /\ Replied(buffer) + Replied(ring) <= LateBytes /\ LateBytes \in Nat
    <2>1. Late <= LateBytes
      <3>1. unheard + Waits = unheard
        BY <1>1 DEF Waits
      <3> QED
        BY <3>1 DEF RepliesOwed, LateBytes
    <2>2. /\ Replied(buffer) \in Nat /\ Replied(ring) \in Nat /\ Replied(line) \in Nat
          /\ Promised \in Nat
      BY LateType
    <2>3. LateBytes \in Nat
      BY <1>1, Products DEF LateBytes
    <2>4. Late = Replied(buffer) + Replied(ring) + Replied(line) + Promised
      BY DEF Late
    <2> QED
      BY <2>1, <2>2, <2>3, <2>4
  <1>3. ~OfCode(Head(ring)) => Replied(ring) >= 1
    <2>1. /\ Replied(ring) = Replied(Tail(ring)) + Counts(Head(ring))
          /\ Replied(Tail(ring)) \in Nat
      BY <1>1, RepliedByte, TailTyped, RepliedType
    <2> QED
      BY <2>1 DEF Counts
  <1>4. ASSUME unheard = 0, codes = 0 PROVE FALSE
    <2>1. LateBytes = 0
      BY <1>4, LinkAssumption DEF LateBytes
    <2>2. ~OfCode(Head(ring))
      BY <1>1, <1>4 DEF NothingSeen, NoCode
    <2> QED
      BY <2>1, <2>2, <1>2, <1>3
  <1>5. ASSUME own, PushFails PROVE Overfull
    <2>1. Len(buffer) = MaxScan
      BY <1>5 DEF PushFails
    <2>2. CASE Len(buffer) = Replied(buffer) /\ ~OfCode(Head(ring))
      <3>1. LateBytes > MaxScan
        BY <2>1, <2>2, <1>1, <1>2, <1>3
      <3> QED
        BY <3>1 DEF Overfull
    <2>3. CASE Len(buffer) = Replied(buffer) /\ OfCode(Head(ring))
      <3> DEFINE id == FrameOf(Head(ring))
      <3>1. id \in 1 .. codes /\ id \in 0 .. MaxCodes
        <4>1. ring[1] = wire[1] /\ 1 \in 1 .. Len(wire)
          <5>1. /\ Len(wire) = Len(ring) + Len(line) /\ Len(line) \in Nat /\ Len(ring) \in Nat
                /\ \A i \in 1 .. Len(ring) + Len(line) :
                     wire[i] = IF i <= Len(ring) THEN ring[i] ELSE line[i - Len(ring)]
            BY <1>1, StreamTyped, ConcatProperties, LenProperties DEF wire
          <5>2. 1 \in 1 .. Len(ring) + Len(line) /\ 1 <= Len(ring)
            BY <5>1, <1>1
          <5> QED
            BY <5>1, <5>2
        <4>2. Framed(wire, codes)
          BY <1>5 DEF LinkInv
        <4>3. id <= codes
          BY <4>1, <4>2, <1>1 DEF Framed, Known
        <4>4. id \in 0 .. MaxCodes /\ id # 0 /\ codes \in 0 .. MaxCodes
          BY <1>1, <2>3, ByteShape DEF LinkTypeOK
        <4> HIDE DEF id
        <4> QED
          BY <4>3, <4>4, LinkAssumption
      <3>2. FrameLen(id) \in Nat \ {0}
        BY <3>1, FrameLenPositive
      <3> HIDE DEF id
      <3>3. FrameLen(id) + LateBytes > MaxScan
        BY <3>2, <2>1, <2>3, <1>1, <1>2
      <3> QED
        BY <3>1, <3>3 DEF Overfull
    <2>4. CASE \E id \in 1 .. codes : Len(buffer) < FrameLen(id) + Replied(buffer)
      <3>1. PICK id \in 1 .. codes : Len(buffer) < FrameLen(id) + Replied(buffer)
        BY <2>4
      <3>2. FrameLen(id) \in Nat \ {0}
        <4>1. id \in 0 .. MaxCodes
          BY LinkAssumption DEF LinkTypeOK
        <4> QED
          BY <4>1, FrameLenPositive
      <3>3. FrameLen(id) + LateBytes > MaxScan
        BY <3>1, <3>2, <2>1, <1>1, <1>2
      <3> QED
        BY <3>3 DEF Overfull
    <2> QED
      BY <1>5, <2>2, <2>3, <2>4, CodeFits
  <1> QED
    BY <1>4, <1>5

\* What excuses a failed read, or rules it out, stays.
LEMMA ExcusesStay ==
  ASSUME LinkTypeOK, SuiteTypes, LinkStep, UNCHANGED driver,
         unheard' \in Nat, unheard <= unheard', faulty => faulty'
  PROVE  /\ Overfull => Overfull'
         /\ Excused => Excused'
         /\ AmbientTolerated /\ UNCHANGED verdict => AmbientTolerated'
  <1>1. codes \in Nat /\ codes' \in Nat /\ codes <= codes' /\ (lost => lost')
        /\ codes \in 0 .. MaxCodes
    BY CodesGrow DEF LinkTypeOK
  <1>2. LateBytes \in Nat /\ LateBytes' \in Nat /\ LateBytes <= LateBytes'
    <2>1. unheard \in Nat
      BY DEF SuiteTypes
    <2>2. unheard * RespLen \in Nat /\ unheard' * RespLen \in Nat
          /\ unheard * RespLen <= unheard' * RespLen
      BY <2>1, MoreReplies
    <2> QED
      BY <2>2 DEF LateBytes
  <1>3. Overfull => Overfull'
    <2>1. LateBytes > MaxScan => LateBytes' > MaxScan
      BY <1>2, LinkAssumption
    <2>2. ASSUME NEW id \in 1 .. codes, FrameLen(id) + LateBytes > MaxScan
          PROVE  id \in 1 .. codes' /\ FrameLen(id) + LateBytes' > MaxScan
      <3>1. id \in 0 .. MaxCodes /\ id \in 1 .. codes'
        BY <1>1, LinkAssumption
      <3>2. FrameLen(id) \in Nat /\ MaxScan \in Nat
        BY <3>1, FrameLenPositive, LinkAssumption
      <3> QED
        BY <2>2, <3>1, <3>2, <1>2
    <2> QED
      BY <2>1, <2>2 DEF Overfull
  <1>4. Excused => Excused'
    BY <1>1, <1>3 DEF Excused
  <1> QED
    BY <1>1, <1>3, <1>4 DEF AmbientTolerated

\* A step that leaves the calls, and what they brought, as they are.
LEMMA SuiteRests ==
  ASSUME SuiteInv, LinkTypeOK, LinkTypeOK', RepliesOwed', LinkStep, UNCHANGED suiteVars,
         (UNCHANGED <<state, pc>> /\ (own \/ lost => own' \/ lost')) \/ Firmware
  PROVE  SuiteInv'
  <1>0. NothingSeen' /\ (codes' = 0 => codes = 0) /\ UNCHANGED driver
    BY NothingSeenStep, CodesGrow DEF SuiteInv
  <1>1. SuiteTypes' /\ Heard'
    BY <1>0 DEF SuiteInv, SuiteTypes, Heard, suiteVars
  <1>2. (Excused => Excused') /\ AmbientTolerated'
    <2>1. unheard' \in Nat /\ unheard <= unheard' /\ faulty' = faulty /\ UNCHANGED verdict
      BY DEF SuiteInv, SuiteTypes, suiteVars
    <2> QED
      BY <1>0, <2>1, ExcusesStay DEF SuiteInv, Verdicts
  <1>3. Placed'
    <2>1. CASE UNCHANGED <<state, pc>> /\ (own \/ lost => own' \/ lost')
      <3>1. TimedOut => TimedOut'
        BY <2>1, <1>0, <1>2 DEF TimedOut, ReadOrTimedOut, suiteVars
      <3> QED
        BY <2>1, <1>0, <3>1 DEF SuiteInv, Placed, suiteVars
    <2>2. CASE Firmware
      <3>1. Len(suite') = 0 /\ due' = "none"
        BY <2>2, EmptySeq DEF Firmware, suiteVars
      <3>2. due' # Timeout /\ due' # Rapid /\ due' \notin Answered
        BY <3>1 DEF Timeout, Rapid, Answered
      <3> QED
        BY <3>1, <3>2 DEF Placed
    <2> QED
      BY <2>1, <2>2
  <1>4. QuietBenchPasses'
    BY <1>0 DEF SuiteInv, Verdicts, QuietBenchPasses, suiteVars
  <1> QED
    BY <1>0, <1>1, <1>2, <1>3, <1>4 DEF SuiteInv, Verdicts

\* What the places of a list say of its head.
LEMMA HeadOfPlace ==
  ASSUME SuiteInv, suite # <<>>
  PROVE  LET t == Tail(suite) IN
         /\ WellMade(t) /\ Head(suite) \in Step
         /\ Len(t) >= 1 /\ Due(t[1]) = Timeout =>
              /\ Head(suite) = TimeoutCancel
              /\ pc = "read_scan" \/ (pc = "idle" /\ (driver = "async" \/ TimedOut))
         /\ Len(t) >= 2 /\ Due(t[2]) = Timeout => Head(suite) = ReadStep /\ (own \/ lost)
         /\ Len(t) >= 3 /\ Due(t[3]) = Timeout => Head(suite) = TriggerStep
         /\ Len(t) >= 1 /\ Due(t[1]) = Rapid => Head(suite) = CancelStep
         /\ Due(Head(suite)) = Timeout => Head(suite) = TimeoutStop /\ TimedOut
         /\ Due(Head(suite)) = Rapid => Head(suite) = RapidStop /\ state = "Cancelled"
         /\ Due(Head(suite)) \in Answered =>
              Head(suite).call \in {"access", "stop"} /\ Head(suite).when = "always"
  <1> DEFINE t == Tail(suite)
  <1>1. /\ WellMade(t) /\ Head(suite) \in Step /\ Head(suite) = suite[1] /\ Fits(suite, 1)
        /\ Len(suite) \in Nat \ {0} /\ Len(t) = Len(suite) - 1
        /\ \A k \in 1 .. Len(t) : t[k] = suite[k + 1] /\ Fits(suite, k + 1)
    BY ListGoesOn DEF SuiteInv, SuiteTypes
  <1> HIDE DEF t
  <1>2. Len(t) >= 1 => t[1] = suite[2] /\ Fits(suite, 2) /\ Len(suite) >= 2
    <2> HAVE Len(t) >= 1
    <2>1. 1 \in 1 .. Len(t) /\ 1 + 1 = 2
      BY <1>1
    <2> QED
      BY <2>1, <1>1
  <1>3. Len(t) >= 2 => t[2] = suite[3] /\ Fits(suite, 3) /\ Len(suite) >= 3
    <2> HAVE Len(t) >= 2
    <2>1. 2 \in 1 .. Len(t) /\ 2 + 1 = 3
      BY <1>1
    <2> QED
      BY <2>1, <1>1
  <1>9. Len(t) >= 3 => t[3] = suite[4] /\ Fits(suite, 4)
    <2> HAVE Len(t) >= 3
    <2>1. 3 \in 1 .. Len(t) /\ 3 + 1 = 4
      BY <1>1
    <2> QED
      BY <2>1, <1>1
  <1>4. Len(t) >= 1 /\ Due(t[1]) = Timeout =>
          /\ Head(suite) = TimeoutCancel
          /\ pc = "read_scan" \/ (pc = "idle" /\ (driver = "async" \/ TimedOut))
    <2>1. 2 > 1 /\ 2 - 1 = 1
      OBVIOUS
    <2> QED
      BY <2>1, <1>1, <1>2 DEF Fits, SuiteInv, Placed
  <1>5. Len(t) >= 2 /\ Due(t[2]) = Timeout => Head(suite) = ReadStep /\ (own \/ lost)
    <2>1. 3 > 2 /\ 3 - 2 = 1
      OBVIOUS
    <2>2. Len(t) >= 2 /\ Due(t[2]) = Timeout => Head(suite) = ReadStep
      BY <2>1, <1>1, <1>3 DEF Fits
    <2>3. Len(t) >= 2 /\ Due(t[2]) = Timeout => own \/ lost
      BY <1>3 DEF SuiteInv, Placed
    <2> QED
      BY <2>2, <2>3
  <1>10. Len(t) >= 3 /\ Due(t[3]) = Timeout => Head(suite) = TriggerStep
    <2>1. 4 > 3 /\ 4 - 3 = 1
      OBVIOUS
    <2> QED
      BY <2>1, <1>1, <1>9 DEF Fits
  <1>6. Len(t) >= 1 /\ Due(t[1]) = Rapid => Head(suite) = CancelStep
    <2>1. 2 > 1 /\ 2 - 1 = 1
      OBVIOUS
    <2> QED
      BY <2>1, <1>1, <1>2 DEF Fits
  <1>7. Len(suite) >= 1
    BY <1>1
  <1>8. /\ Due(Head(suite)) = Timeout => Head(suite) = TimeoutStop /\ TimedOut
        /\ Due(Head(suite)) = Rapid => Head(suite) = RapidStop /\ state = "Cancelled"
        /\ Due(Head(suite)) \in Answered =>
             Head(suite).call \in {"access", "stop"} /\ Head(suite).when = "always"
    BY <1>1, <1>7 DEF Fits, SuiteInv, Placed
  <1> QED
    BY <1>1, <1>4, <1>5, <1>6, <1>8, <1>10 DEF t

\* The records of the steps that the places name.
LEMMA NamedSteps ==
  /\ TriggerStep.call = "trigger" /\ TriggerStep.when = "always"
  /\ ReadStep.call = "read" /\ ReadStep.when = "always"
  /\ CancelStep.call = "cancel" /\ CancelStep.when = "always"
  /\ TimeoutCancel.call = "cancel" /\ TimeoutCancel.when = "timed out"
  /\ TimeoutStop.call = "stop" /\ TimeoutStop.when = "always"
  /\ RapidStop.call = "stop" /\ RapidStop.when = "always"
  BY DEF TriggerStep, ReadStep, CancelStep, TimeoutCancel, TimeoutStop, RapidStop, Do, DoWhen, Judge

LEMMA NamedTests ==
  /\ "none" # Timeout /\ "none" # Rapid /\ "none" \notin Answered /\ "none" \notin Test
  /\ Timeout # Rapid /\ Timeout \notin Answered /\ Rapid \notin Answered
  /\ Timeout \in Test /\ Rapid \in Test
  BY DEF Timeout, Rapid, Answered, Test, CoreTest, ExtendedTest

LEMMA GateStep ==
  ASSUME SuiteInv, LinkTypeOK, RepliesOwed', Gate
  PROVE  SuiteInv'
  <1>0. /\ pc = "idle" /\ due = "none" /\ suite # <<>> /\ Head(suite).call = "gate"
        /\ suite' \in {Tail(suite), <<>>}
        /\ UNCHANGED <<driver, state, pc, codes, ring, line, own, lost>>
        /\ UNCHANGED <<due, verdict, answers, result, unheard, faulty>>
    BY DEF Gate, Ready, vars, moduleVars, histVars
  <1> DEFINE t == Tail(suite)
  <1>1. /\ WellMade(t)
        /\ ~(Len(t) >= 1 /\ Due(t[1]) = Timeout) /\ ~(Len(t) >= 2 /\ Due(t[2]) = Timeout)
        /\ ~(Len(t) >= 3 /\ Due(t[3]) = Timeout)
        /\ ~(Len(t) >= 1 /\ Due(t[1]) = Rapid)
    BY <1>0, HeadOfPlace, NamedSteps
  <1> HIDE DEF t
  <1>2. Len(<<>>) = 0 /\ WellMade(<<>>)
    BY EmptySeq, NoSteps
  <1>3. /\ WellMade(suite')
        /\ ~(Len(suite') >= 1 /\ Due(suite'[1]) = Timeout)
        /\ ~(Len(suite') >= 2 /\ Due(suite'[2]) = Timeout)
        /\ ~(Len(suite') >= 3 /\ Due(suite'[3]) = Timeout)
        /\ ~(Len(suite') >= 1 /\ Due(suite'[1]) = Rapid)
    <2>1. CASE suite' = t
      BY <1>1, <2>1
    <2>2. CASE suite' = <<>>
      BY <1>2, <2>2
    <2> QED
      BY <2>1, <2>2, <1>0 DEF t
  <1>4. Placed'
    BY <1>0, <1>3, NamedTests DEF Placed
  <1>5. SuiteTypes'
    BY <1>0, <1>3 DEF SuiteInv, SuiteTypes
  <1>6. NothingSeen' /\ Heard' /\ Verdicts'
    BY <1>0 DEF SuiteInv, NothingSeen, Heard, Verdicts, QuietBenchPasses, AmbientTolerated,
       Overfull, LateBytes
  <1> QED
    BY <1>4, <1>5, <1>6 DEF SuiteInv

\* What a call does to what the verdicts are about.
LEMMA MakesShape ==
  ASSUME LinkTypeOK, SuiteTypes, NEW call, Makes(call)
  PROVE  /\ call \in DriverCall
         /\ pc = "idle" /\ UNCHANGED driver
         /\ answers' \in {answers, {}} /\ result' \in {result, "none"}
         /\ call \in {"access", "stop"} =>
              pc' = "send" /\ UNCHANGED <<state, result>>
         /\ call = "read" => pc' = "read_scan" /\ UNCHANGED <<own, lost>>
         /\ call = "trigger" => pc' = "send" /\ (own' \/ lost')
         /\ call = "cancel" => pc' = "idle" /\ state' = "Cancelled"
  <1> DEFINE Sending == \/ call = "init" /\ init
                        \/ call = "access" /\ access_register
                        \/ call = "stop" /\ stop_scan
                        \/ call = "trigger" /\ trigger_scan
             Starting == /\ call = "read" /\ StartRead("read_scan")
                         /\ result' = "none" /\ UNCHANGED answers
             Cancelling == call = "cancel" /\ cancel_scan /\ UNCHANGED <<answers, result>>
  <1>1. CASE Sending
    <2>1. CallBegins
      BY <1>1 DEF CallBegins
    <2>2. pc = "idle" /\ pc' = "send" /\ UNCHANGED driver
      BY <2>1, CallBeginsShape DEF CallShape
    <2>3. call \in {"access", "stop"} => UNCHANGED state
      BY <1>1 DEF access_register, stop_scan, Keeps
    <2>4. answers' \in {answers, {}} /\ result' \in {result, "none"}
          /\ (call \in {"access", "stop"} => UNCHANGED result)
      BY <1>1 DEF Makes
    <2>5. call = "trigger" => own' \/ lost'
      <3> HAVE call = "trigger"
      <3>1. own' = ~lost /\ lost' = lost /\ lost \in BOOLEAN
        BY <1>1 DEF trigger_scan, Call, LinkTypeOK
      <3> QED
        BY <3>1
    <2> QED
      BY <1>1, <2>2, <2>3, <2>4, <2>5 DEF DriverCall
  <1>2. CASE Starting
    BY <1>2 DEF StartRead, callVars, DriverCall
  <1>3. CASE Cancelling
    BY <1>3 DEF cancel_scan, callVars, DriverCall
  <1>4. Sending \/ Starting \/ Cancelling
    BY DEF Makes
  <1> QED
    BY <1>1, <1>2, <1>3, <1>4

\* The suite makes its next call, or leaves it out.
LEMMA MakeCallStep ==
  ASSUME SuiteInv, LinkTypeOK, LinkTypeOK', RepliesOwed', LinkStep, MakeCall
  PROVE  SuiteInv'
  <1> DEFINE h == Head(suite)  t == Tail(suite)
  <1>0. /\ pc = "idle" /\ due = "none" /\ suite # <<>> /\ suite' = t /\ h.call # "gate"
        /\ UNCHANGED <<verdict, unheard, faulty>>
    BY DEF MakeCall, Ready
  <1>1. NothingSeen' /\ (codes' = 0 => codes = 0) /\ UNCHANGED driver
    BY NothingSeenStep, CodesGrow DEF SuiteInv
  <1>2. /\ WellMade(t) /\ h \in Step
        /\ Len(t) >= 1 /\ Due(t[1]) = Timeout => h = TimeoutCancel /\ (driver = "async" \/ TimedOut)
        /\ Len(t) >= 2 /\ Due(t[2]) = Timeout => h = ReadStep /\ (own \/ lost)
        /\ Len(t) >= 3 /\ Due(t[3]) = Timeout => h = TriggerStep
        /\ Len(t) >= 1 /\ Due(t[1]) = Rapid => h = CancelStep
        /\ Due(h) = Timeout => h = TimeoutStop /\ TimedOut
        /\ Due(h) = Rapid => h = RapidStop /\ state = "Cancelled"
        /\ Due(h) \in Answered => h.call \in {"access", "stop"} /\ h.when = "always"
    BY <1>0, HeadOfPlace
  <1>3. h.judge = Due(h) /\ h.judge \in Test \cup {"none"}
    BY <1>0, <1>2 DEF Due, Step
  <1>4. result \in {"none", "code", "failed"} /\ answers \subseteq BOOLEAN
    BY DEF SuiteInv, SuiteTypes
  <1>8. (Excused => Excused') /\ AmbientTolerated'
    <2>1. unheard' \in Nat /\ unheard <= unheard'
      BY <1>0 DEF SuiteInv, SuiteTypes
    <2> QED
      BY <1>0, <1>1, <2>1, ExcusesStay DEF SuiteInv, Verdicts
  <1>5. Verdicts'
    BY <1>0, <1>1, <1>8 DEF SuiteInv, Verdicts, QuietBenchPasses
  <1>6. CASE ~Wanted(h)
    <2>1. UNCHANGED <<driver, state, pc, due, answers, result>>
      BY <1>6 DEF MakeCall, vars
    <2>2. h.when # "always" /\ (h.when = "timed out" => result # "none" \/ driver # "async")
      BY <1>4, <1>6 DEF Wanted
    <2>3. /\ Len(t) >= 1 /\ Due(t[1]) = Timeout => TimedOut
          /\ ~(Len(t) >= 2 /\ Due(t[2]) = Timeout)
          /\ ~(Len(t) >= 3 /\ Due(t[3]) = Timeout)
          /\ ~(Len(t) >= 1 /\ Due(t[1]) = Rapid)
      BY <1>2, <1>4, <2>2, NamedSteps DEF TimedOut, ReadOrTimedOut
    <2> HIDE DEF h, t
    <2>4. Placed'
      <3>1. TimedOut => TimedOut'
        BY <1>8, <2>1 DEF TimedOut, ReadOrTimedOut
      <3> QED
        BY <1>0, <2>1, <2>3, <3>1, NamedTests DEF Placed
    <2>5. SuiteTypes' /\ Heard'
      BY <1>0, <1>1, <1>2, <2>1 DEF SuiteInv, SuiteTypes, Heard
    <2> QED
      BY <1>1, <1>5, <2>4, <2>5 DEF SuiteInv
  <1>7. CASE Wanted(h)
    <2>1. Makes(h.call) /\ due' = h.judge
      BY <1>7 DEF MakeCall
    <2>2. SuiteTypes
      BY DEF SuiteInv
    <2> HIDE DEF h, t
    <2>3. /\ UNCHANGED driver
          /\ answers' \in {answers, {}} /\ result' \in {result, "none"}
          /\ h.call \in {"access", "stop"} => pc' = "send" /\ UNCHANGED <<state, result>>
          /\ h.call = "read" => pc' = "read_scan" /\ UNCHANGED <<own, lost>>
          /\ h.call = "trigger" => pc' = "send" /\ (own' \/ lost')
          /\ h.call = "cancel" => pc' = "idle" /\ state' = "Cancelled"
      BY <2>1, <2>2, MakesShape
    <2>4. SuiteTypes'
      BY <1>0, <1>2, <1>3, <1>4, <2>1, <2>2, <2>3 DEF SuiteTypes
    <2>5. Heard'
      BY <1>0, <1>1, <2>3 DEF SuiteInv, Heard
    <2>6. Placed'
      <3>1. Len(suite') >= 1 /\ Due(suite'[1]) = Timeout => pc' = "idle" /\ TimedOut'
        BY <1>0, <1>2, <2>3, NamedSteps DEF TimedOut, ReadOrTimedOut
      <3>2. Len(suite') >= 2 /\ Due(suite'[2]) = Timeout => pc' = "read_scan" /\ (own' \/ lost')
        <4> HAVE Len(suite') >= 2 /\ Due(suite'[2]) = Timeout
        <4>1. h = ReadStep /\ (own \/ lost)
          BY <1>0, <1>2
        <4>2. h.call = "read"
          BY <4>1, NamedSteps
        <4> QED
          BY <4>1, <4>2, <2>3
      <3>7. Len(suite') >= 3 /\ Due(suite'[3]) = Timeout => pc' = "send" /\ (own' \/ lost')
        BY <1>0, <1>2, <2>3, NamedSteps
      <3>3. Len(suite') >= 1 /\ Due(suite'[1]) = Rapid => pc' = "idle" /\ state' = "Cancelled"
        BY <1>0, <1>2, <2>3, NamedSteps
      <3>4. due' = Timeout => pc' = "send" /\ TimedOut'
        BY <1>1, <1>2, <1>3, <1>8, <2>1, <2>3, NamedSteps DEF TimedOut, ReadOrTimedOut
      <3>5. due' = Rapid => pc' = "send" /\ state' = "Cancelled"
        BY <1>2, <1>3, <2>1, <2>3, NamedSteps
      <3>6. due' \in Answered => pc' = "send"
        BY <1>2, <1>3, <2>1, <2>3
      <3> QED
        BY <3>1, <3>2, <3>3, <3>4, <3>5, <3>6, <3>7 DEF Placed
    <2> QED
      BY <1>1, <1>5, <2>4, <2>5, <2>6 DEF SuiteInv
  <1> QED
    BY <1>6, <1>7

\* A command is sent or answered: nothing is missed while unheard is 0, and a
\* call that is over has had answers.
LEMMA CommandingStep ==
  ASSUME SuiteInv, LinkTypeOK, LinkTypeOK', RepliesOwed', LinkStep, Commanding
  PROVE  SuiteInv'
  <1>1. NothingSeen' /\ (codes' = 0 => codes = 0) /\ UNCHANGED driver
    BY NothingSeenStep, CodesGrow DEF SuiteInv
  <1>2. unheard \in Nat /\ answers \subseteq BOOLEAN
    BY DEF SuiteInv, SuiteTypes
  <1>3. UNCHANGED <<suite, due, verdict, result, faulty>>
    BY DEF Commanding
  <1>4. /\ pc \in {"send", "reply"} /\ UNCHANGED <<state, own, lost>>
        /\ pc' \in {"idle", "send", "reply"}
    BY DEF Commanding, SendCommand, ReadReply, ReplyTimeout, NextCommand, Entered, callVars
  <1>5. \/ pc' = "reply" /\ UNCHANGED <<answers, unheard>>
        \/ answers' = answers \cup {TRUE} /\ UNCHANGED unheard
        \/ answers' = answers \cup {FALSE} /\ unheard' = unheard + 1
    BY DEF Commanding, Missed
  <1>6. /\ unheard' \in Nat /\ answers' \subseteq BOOLEAN
        /\ unheard <= unheard'
        /\ unheard' = 0 => unheard = 0 /\ (FALSE \in answers' => FALSE \in answers)
        /\ pc' # "reply" => answers' # {}
    <2>0. unheard <= unheard /\ TRUE # FALSE
      BY <1>2
    <2>1. CASE pc' = "reply" /\ UNCHANGED <<answers, unheard>>
      BY <1>2, <2>0, <2>1
    <2>2. CASE answers' = answers \cup {TRUE} /\ UNCHANGED unheard
      <3>1. answers' \subseteq BOOLEAN /\ answers' # {} /\ (FALSE \in answers' => FALSE \in answers)
        BY <1>2, <2>0, <2>2
      <3>2. unheard' = unheard
        BY <2>2
      <3> QED
        BY <1>2, <2>0, <3>1, <3>2
    <2>3. CASE answers' = answers \cup {FALSE} /\ unheard' = unheard + 1
      <3>1. unheard' \in Nat \ {0} /\ unheard <= unheard'
        BY <1>2, <2>3
      <3>2. answers' \subseteq BOOLEAN /\ answers' # {}
        BY <1>2, <2>3
      <3> QED
        BY <3>1, <3>2
    <2> QED
      BY <1>5, <2>1, <2>2, <2>3
  <1>7. SuiteTypes' /\ Heard'
    BY <1>1, <1>3, <1>6 DEF SuiteInv, SuiteTypes, Heard
  <1>8. (Excused => Excused') /\ AmbientTolerated'
    BY <1>1, <1>3, <1>6, ExcusesStay DEF SuiteInv, Verdicts
  <1>9. Placed'
    <2>1. TimedOut => TimedOut'
      BY <1>1, <1>3, <1>4, <1>8 DEF TimedOut, ReadOrTimedOut
    <2> QED
      BY <1>3, <1>4, <1>6, <2>1 DEF SuiteInv, Placed
  <1>10. QuietBenchPasses'
    BY <1>1, <1>3, <1>6 DEF SuiteInv, Verdicts, QuietBenchPasses
  <1> QED
    BY <1>1, <1>7, <1>8, <1>9, <1>10 DEF SuiteInv, Verdicts

\* A read goes on or ends: with a code, of which there are bytes only if one was read;
\* with an error, of which a full buffer is one; or dropped, in the async driver only.
LEMMA ReadingStep ==
  ASSUME SuiteInv, LinkTypeOK, LinkTypeOK', LinkInv, RepliesOwed', LinkStep, ~Firmware, Reading
  PROVE  SuiteInv'
  <1>1. NothingSeen' /\ (codes' = 0 => codes = 0) /\ UNCHANGED driver
    BY NothingSeenStep, CodesGrow DEF SuiteInv
  <1>2. /\ UNCHANGED <<suite, due, verdict, answers, unheard>>
        /\ faulty' \in BOOLEAN /\ (faulty => faulty') /\ faulty \in BOOLEAN
    <2>1. faulty' = faulty \/ faulty' = TRUE
      BY DEF Reading
    <2> QED
      BY <2>1 DEF Reading, SuiteInv, SuiteTypes
  <1>3. /\ pc \in {"read_scan", "try_read_scan"}
        /\ pc' \in {pc, "idle"} /\ result' \in {"none", "code", "failed"}
    BY DEF Reading, ReadByte, Overflow, Push, ReadEnds, ReadFails
  <1>4. (Excused => Excused') /\ AmbientTolerated'
    <2>1. unheard' \in Nat /\ unheard <= unheard'
      BY <1>2 DEF SuiteInv, SuiteTypes
    <2> QED
      BY <1>1, <1>2, <2>1, ExcusesStay DEF SuiteInv, Verdicts
  <1> DEFINE Went ==
        /\ result' = "code" => codes' # 0
        /\ unheard' = 0 /\ codes' = 0 /\ ~faulty' => result' # "failed"
        /\ pc = "read_scan" /\ (own \/ lost) =>
             \/ pc' = "read_scan" /\ (own' \/ lost')
             \/ pc' = "idle" /\ (driver' = "async" \/ TimedOut')
  <1>5. ASSUME ReadByte, UNCHANGED faulty,
               result' = (CASE pc' # "idle" -> "none" [] PushFails -> "failed" [] OTHER -> "code")
        PROVE  Went
    <2>1. /\ ring # <<>> /\ UNCHANGED lost
          /\ pc' # "idle" => pc' = pc /\ own' = own
          /\ pc' = "idle" /\ ~PushFails => IsEol(Head(ring))
      BY <1>5 DEF ReadByte, Overflow, Push
    <2>2. ~(unheard = 0 /\ codes = 0) /\ (own /\ PushFails => Overfull)
      BY <1>3, <2>1, ReadOverflows DEF SuiteInv
    <2>3. Head(ring) = ring[1] /\ 1 \in 1 .. Len(ring)
      BY <2>1, TailTyped, StreamTyped
    <2>4. result' = "code" => codes' # 0
      <3> SUFFICES ASSUME result' = "code", codes' = 0 PROVE FALSE
        OBVIOUS
      <3>1. IsEol(Head(ring))
        BY <1>5, <2>1
      <3>2. ~OfCode(ring[1])
        BY <1>1, <2>3 DEF SuiteInv, NothingSeen, NoCode
      <3> QED
        BY <3>1, <3>2, <2>3 DEF IsEol
    <2>5. unheard' = 0 /\ codes' = 0 => FALSE
      BY <1>1, <1>2, <2>2
    <2>6. pc = "read_scan" /\ (own \/ lost) =>
            \/ pc' = "read_scan" /\ (own' \/ lost')
            \/ pc' = "idle" /\ (driver' = "async" \/ TimedOut')
      <3> HAVE pc = "read_scan" /\ (own \/ lost)
      <3>1. CASE pc' # "idle"
        BY <2>1, <3>1
      <3>2. CASE pc' = "idle" /\ ~PushFails
        BY <1>5, <3>2 DEF TimedOut, ReadOrTimedOut
      <3>3. CASE pc' = "idle" /\ PushFails
        <4>1. result' = "failed"
          BY <1>5, <3>3
        <4>2. driver = "sync" => Excused
          BY <2>2, <3>3 DEF Excused
        <4>3. driver \in {"sync", "async"}
          BY DEF LinkTypeOK
        <4> QED
          BY <1>1, <1>4, <3>3, <4>1, <4>2, <4>3 DEF TimedOut
      <3> QED
        BY <3>1, <3>2, <3>3
    <2> QED
      BY <2>4, <2>5, <2>6
  <1>6. ASSUME ReadEnds, result' = "none" PROVE Went
    <2>1. pc' = "idle" /\ (pc = "read_scan" => driver = "async" \/ state' = "Cancelled")
      BY <1>6 DEF ReadEnds
    <2> QED
      BY <1>1, <1>6, <2>1 DEF TimedOut, ReadOrTimedOut
  <1>7. ASSUME ReadFails, result' = "failed", faulty' = TRUE PROVE Went
    <2>1. pc' = "idle" /\ TimedOut'
      BY <1>7 DEF ReadFails, TimedOut, Excused
    <2> QED
      BY <1>7, <2>1
  <1>8. Went
    BY <1>5, <1>6, <1>7 DEF Reading
  <1>9. SuiteTypes' /\ Heard'
    BY <1>1, <1>2, <1>3, <1>8 DEF SuiteInv, SuiteTypes, Heard
  <1>10. Placed'
    <2>1. /\ ~(Len(suite) >= 1 /\ Due(suite[1]) = Timeout)
          /\ ~(Len(suite) >= 3 /\ Due(suite[3]) = Timeout)
          /\ ~(Len(suite) >= 1 /\ Due(suite[1]) = Rapid)
          /\ due # Timeout /\ due # Rapid /\ due \notin Answered
          /\ Len(suite) >= 2 /\ Due(suite[2]) = Timeout => pc = "read_scan" /\ (own \/ lost)
      BY <1>3 DEF SuiteInv, Placed
    <2>2. suite' = suite /\ due' = due
      BY <1>2
    <2> QED
      BY <1>8, <2>1, <2>2 DEF Placed
  <1>11. QuietBenchPasses'
    BY <1>1, <1>2 DEF SuiteInv, Verdicts, QuietBenchPasses
  <1> QED
    BY <1>1, <1>4, <1>9, <1>10, <1>11 DEF SuiteInv, Verdicts

\* The verdict that is due: where nothing was missed or read it is a pass, and a read that
\* was not timed out has an excuse.
LEMMA JudgeStep ==
  ASSUME SuiteInv, LinkTypeOK, RepliesOwed', JudgeTest
  PROVE  SuiteInv'
  <1>0. /\ pc = "idle" /\ due \in Test /\ due' = "none"
        /\ UNCHANGED <<driver, pc, ring, line, codes, lost, own, suite>>
        /\ UNCHANGED <<answers, result, unheard, faulty>>
    BY DEF JudgeTest, callVars, moduleVars, histVars
  <1>1. PICK ok \in Outcomes(due) :
          /\ verdict' = [verdict EXCEPT ![due] = IF ok THEN "pass" ELSE "fail"]
          /\ state' = IF state # "Detecting" THEN state ELSE IF ok THEN "Ready" ELSE "InitFailed"
    BY DEF JudgeTest
  <1>2. state = "Cancelled" => state' = "Cancelled"
    BY <1>1
  <1>3. /\ verdict \in [Test -> {"none", "pass", "fail"}]
        /\ result \in {"none", "code", "failed"} /\ answers \subseteq BOOLEAN
    BY DEF SuiteInv, SuiteTypes
  <1>4. due = Timeout /\ ok # TRUE => result = "failed" /\ Excused
    <2> HAVE due = Timeout /\ ok # TRUE
    <2>1. ok = ReadOrTimedOut /\ TimedOut
      BY <1>1 DEF SuiteInv, Placed, Timeout, Outcomes
    <2> QED
      BY <2>1 DEF TimedOut
  <1>5. unheard = 0 /\ codes = 0 /\ ~faulty /\ due # "qr" => ok = TRUE
    <2> SUFFICES ASSUME unheard = 0, codes = 0, ~faulty, due # "qr" PROVE ok = TRUE
      OBVIOUS
    <2>0. FALSE \notin answers /\ answers \subseteq BOOLEAN /\ result = "none"
      BY <1>3 DEF SuiteInv, Heard
    <2>1. CASE due \in {"init_detects_scanner", "state_transitions"}
      BY <1>1, <2>0, <2>1 DEF Outcomes
    <2>2. CASE due \in Answered
      <3>1. answers # {}
        BY <1>0, <2>2 DEF SuiteInv, Placed
      <3>2. answers = {TRUE}
        BY <2>0, <3>1
      <3> QED
        BY <1>1, <2>2, <3>2 DEF Outcomes, Answered
    <2>3. CASE due = Timeout
      BY <1>4, <2>0, <2>3
    <2>4. CASE due = "cancel_then_rescan"
      BY <1>1, <2>4 DEF Outcomes
    <2>5. CASE due = Rapid
      BY <1>1, <2>5 DEF Outcomes, SuiteInv, Placed, Rapid
    <2>6. CASE due = "read_idle_no_trigger"
      BY <1>1, <2>0, <2>6 DEF Outcomes
    <2> QED
      BY <1>0, <2>1, <2>2, <2>3, <2>4, <2>5, <2>6
         DEF Test, CoreTest, ExtendedTest, Answered, Timeout, Rapid
  <1>6. \A t \in Test : verdict'[t] = IF t = due THEN (IF ok THEN "pass" ELSE "fail") ELSE verdict[t]
    BY <1>1, <1>3
  <1>7. SuiteTypes'
    <2>1. verdict' \in [Test -> {"none", "pass", "fail"}]
      BY <1>1, <1>3
    <2> QED
      BY <1>0, <2>1 DEF SuiteInv, SuiteTypes
  <1>8. (Overfull <=> Overfull') /\ (Excused <=> Excused')
    BY <1>0 DEF Excused, Overfull, LateBytes
  <1>9. Placed'
    <2>1. TimedOut => TimedOut'
      BY <1>0, <1>2, <1>8 DEF TimedOut, ReadOrTimedOut
    <2> QED
      BY <1>0, <1>2, <2>1, NamedTests DEF SuiteInv, Placed
  <1>10. NothingSeen' /\ Heard'
    BY <1>0 DEF SuiteInv, NothingSeen, Heard
  <1>11. QuietBenchPasses'
    <2> SUFFICES ASSUME unheard' = 0, codes' = 0, ~faulty', NEW t \in Test \ {"qr"}
                 PROVE  verdict'[t] # "fail"
      BY DEF QuietBenchPasses
    <2> QED
      BY <1>0, <1>5, <1>6 DEF SuiteInv, Verdicts, QuietBenchPasses
  <1>12. AmbientTolerated'
    <2> SUFFICES ASSUME ~lost', ~faulty', verdict'[Timeout] = "fail"
                 PROVE  driver' = "sync" /\ Overfull'
      BY DEF AmbientTolerated, Timeout
    <2>1. CASE due = Timeout
      <3>1. Excused /\ ~lost /\ ~faulty
        BY <1>0, <1>4, <1>6, <2>1
      <3> QED
        BY <1>0, <1>8, <3>1 DEF Excused
    <2>2. CASE due # Timeout
      <3>1. verdict[Timeout] = "fail"
        BY <1>6, <2>2, NamedTests
      <3> QED
        BY <1>0, <1>8, <3>1 DEF SuiteInv, Verdicts, AmbientTolerated, Timeout
    <2> QED
      BY <2>1, <2>2
  <1> QED
    BY <1>7, <1>9, <1>10, <1>11, <1>12 DEF SuiteInv, Verdicts

LEMMA SuiteInvInit ==
  ASSUME SuiteInit
  PROVE  SuiteInv
  <1>1. Len(<<>>) = 0
    BY EmptySeq
  <1>2. /\ buffer = <<>> /\ ring = <<>> /\ line = <<>> /\ inbox = <<>> /\ pc = "idle"
        /\ suite \in {<<>>, main} /\ due = "none" /\ verdict = [t \in Test |-> "none"]
        /\ answers = {} /\ result = "none" /\ unheard = 0 /\ faulty = FALSE
    BY DEF SuiteInit, Init
  <1>3. NothingSeen
    BY <1>1, <1>2 DEF NothingSeen, NoCode
  <1>4. WellMade(suite) /\ Complete(suite)
    BY <1>2, MainMade, NoSteps
  <1>5. /\ ~(Len(suite) >= 1 /\ Due(suite[1]) = Timeout)
        /\ ~(Len(suite) >= 2 /\ Due(suite[2]) = Timeout)
        /\ ~(Len(suite) >= 3 /\ Due(suite[3]) = Timeout)
        /\ ~(Len(suite) >= 1 /\ Due(suite[1]) = Rapid)
    <2>1. Len(suite) \in Nat
      BY <1>4, LenProperties DEF WellMade
    <2>2. /\ Len(suite) >= 1 => 1 \in 1 .. Len(suite)
          /\ Len(suite) >= 2 => 2 \in 1 .. Len(suite)
          /\ Len(suite) >= 3 => 3 \in 1 .. Len(suite)
      BY <2>1
    <2> QED
      BY <1>4, <2>2 DEF Complete
  <1>6. Placed
    BY <1>2, <1>5, NamedTests DEF Placed
  <1>7. SuiteTypes
    BY <1>2, <1>4 DEF SuiteTypes
  <1>8. Heard /\ QuietBenchPasses /\ AmbientTolerated
    BY <1>2, NamedTests DEF Heard, QuietBenchPasses, AmbientTolerated, Timeout
  <1>9. RepliesOwed
    <2>1. Late = 0 /\ Waits = 0 /\ unheard = 0
      BY <1>1, <1>2, NoBytesReplied, LinkAssumption DEF Late, Promised, Waits
    <2> QED
      BY <2>1, LinkAssumption DEF RepliesOwed
  <1> QED
    BY <1>3, <1>6, <1>7, <1>8, <1>9 DEF SuiteInv, Verdicts

LEMMA SuiteInvStep ==
  ASSUME SuiteInv, LinkTypeOK, LinkTypeOK', LinkInv, [SuiteNext]_<<vars, suiteVars>>
  PROVE  SuiteInv'
  <1>0. LinkStep /\ RepliesOwed'
    BY SuiteNextIsLinkStep, OwedStep DEF SuiteInv
  <1>1. CASE ModuleStep /\ UNCHANGED suiteVars
    <2>1. UNCHANGED <<state, pc>> /\ (own \/ lost => own' \/ lost')
      BY <1>1 DEF ModuleStep, ModuleReads, ModuleAnswers, Arrive, histVars
    <2> QED
      BY <1>0, <1>1, <2>1, SuiteRests
  <1>2. CASE Firmware /\ UNCHANGED suiteVars
    BY <1>0, <1>2, SuiteRests
  <1>3. CASE MakeCall
    BY <1>0, <1>3, MakeCallStep
  <1>4. CASE Gate
    BY <1>0, <1>4, GateStep
  <1>5. CASE Commanding
    BY <1>0, <1>5, CommandingStep
  <1>6. CASE ~Firmware /\ Reading
    BY <1>0, <1>6, ReadingStep
  <1>7. CASE JudgeTest
    BY <1>0, <1>7, JudgeStep
  <1>8. CASE UNCHANGED <<vars, suiteVars>>
    <2>1. UNCHANGED <<state, pc, own, lost>> /\ UNCHANGED suiteVars
      BY <1>8 DEF vars, histVars
    <2> QED
      BY <1>0, <2>1, SuiteRests
  <1>9. CASE Halted
    BY <1>8, <1>9 DEF Halted
  <1> QED
    BY <1>1, <1>2, <1>3, <1>4, <1>5, <1>6, <1>7, <1>8, <1>9 DEF SuiteNext, SuiteStep

LEMMA SuiteAlways == SuiteSpec => []SuiteInv
  <1>1. SuiteInit => SuiteInv
    BY SuiteInvInit
  <1>2. SuiteInv /\ LinkTypeOK /\ LinkTypeOK' /\ LinkInv /\ [SuiteNext]_<<vars, suiteVars>>
          => SuiteInv'
    BY SuiteInvStep
  <1> QED
    BY <1>1, <1>2, SuiteLinkAlways, PTL DEF SuiteSpec

\* On a bench where no code is in view, every command is answered in time and the UART
\* works, no test of run_hil_tests or run_extended_hil_tests fails because of what an
\* earlier one left behind, for any number of triggers and tries.
THEOREM QuietBench == SuiteSpec => []QuietBenchPasses
  <1>1. SuiteInv => QuietBenchPasses
    BY DEF SuiteInv, Verdicts
  <1> QED
    BY <1>1, SuiteAlways, PTL

\* On a link that loses nothing and with a UART that works, read_scan_timeout fails in the
\* sync driver only, and only where a code does not fit the scan buffer together with the
\* replies that came too late: for any codes, buffer, ring and number of tries.
THEOREM AmbientCodes == SuiteSpec => []AmbientTolerated
  <1>1. SuiteInv => AmbientTolerated
    BY DEF SuiteInv, Verdicts
  <1> QED
    BY <1>1, SuiteAlways, PTL

============================================================================
