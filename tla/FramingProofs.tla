--------------------------- MODULE FramingProofs ---------------------------
(***************************************************************************)
(* Proofs about Framing, for every header size, frame limit, receive       *)
(* buffer size and byte stream.                                            *)
(***************************************************************************)
EXTENDS Framing, SequenceTheorems, TLAPS

(* A run of stream bytes is a sequence of positions. *)
LEMMA BytesSeq ==
  ASSUME NEW from \in Nat, NEW n \in Nat
  PROVE  /\ Bytes(from, n) \in Seq(Nat)
         /\ Len(Bytes(from, n)) = n
         /\ \A k \in 1..n : Bytes(from, n)[k] = from + k - 1
  BY DEF Bytes

(* memcpy behind the bytes that precede it in the stream keeps the run. *)
LEMMA BytesConcat ==
  ASSUME NEW from \in Nat, NEW m \in Nat, NEW n \in Nat
  PROVE  Bytes(from, m) \o Bytes(from + m, n) = Bytes(from, m + n)
<1> DEFINE s == Bytes(from, m)
           t == Bytes(from + m, n)
           u == Bytes(from, m + n)
<1>1. /\ s \in Seq(Nat) /\ Len(s) = m
      /\ \A k \in 1..m : s[k] = from + k - 1
  BY BytesSeq
<1>2. /\ t \in Seq(Nat) /\ Len(t) = n
      /\ \A k \in 1..n : t[k] = from + m + k - 1
  <2>1. from + m \in Nat OBVIOUS
  <2> QED BY <2>1, BytesSeq
<1>3. /\ u \in Seq(Nat) /\ Len(u) = m + n
      /\ \A k \in 1..m + n : u[k] = from + k - 1
  <2>1. m + n \in Nat OBVIOUS
  <2> QED BY <2>1, BytesSeq
<1> HIDE DEF s, t, u
<1>4. /\ s \o t \in Seq(Nat)
      /\ Len(s \o t) = m + n
      /\ \A k \in 1..m + n : (s \o t)[k] = IF k <= m THEN s[k] ELSE t[k - m]
  BY <1>1, <1>2, ConcatProperties
<1>5. ASSUME NEW k \in 1..m + n PROVE (s \o t)[k] = u[k]
  <2>1. k \in Nat /\ (k <= m \/ k > m) /\ u[k] = from + k - 1
    BY <1>3, <1>5
  <2>2. CASE k <= m
    <3>1. s[k] = from + k - 1 BY <1>1, <2>1, <2>2, <1>5
    <3>2. (s \o t)[k] = s[k] BY <1>4, <1>5, <2>2
    <3> QED BY <2>1, <3>1, <3>2
  <2>3. CASE k > m
    <3>1. k - m \in 1..n /\ ~(k <= m) BY <1>5, <2>1, <2>3
    <3>2. t[k - m] = from + m + (k - m) - 1 BY <1>2, <3>1
    <3>3. (s \o t)[k] = t[k - m] BY <1>4, <1>5, <3>1
    <3>4. from + m + (k - m) - 1 = from + k - 1 BY <2>1
    <3> QED BY <2>1, <3>2, <3>3, <3>4
  <2> QED BY <2>1, <2>2, <2>3
<1>6. s \o t = u BY <1>3, <1>4, <1>5, SeqEqual
<1> QED BY <1>6 DEF s, t, u

(* memmove of the rest to the front keeps the run, without its first bytes. *)
LEMMA BytesRest ==
  ASSUME NEW from \in Nat, NEW m \in Nat, NEW o \in 0..m
  PROVE  SubSeq(Bytes(from, m), o + 1, m) = Bytes(from + o, m - o)
<1> DEFINE s == Bytes(from, m)
           t == SubSeq(s, o + 1, m)
           u == Bytes(from + o, m - o)
<1>1. /\ s \in Seq(Nat) /\ Len(s) = m
      /\ \A k \in 1..m : s[k] = from + k - 1
  BY BytesSeq
<1>2. /\ u \in Seq(Nat) /\ Len(u) = m - o
      /\ \A k \in 1..m - o : u[k] = from + o + k - 1
  <2>1. from + o \in Nat /\ m - o \in Nat OBVIOUS
  <2> QED BY <2>1, BytesSeq
<1> HIDE DEF s, u
<1>3. /\ t \in Seq(Nat) /\ Len(t) = m - o
      /\ \A k \in 1..m - o : t[k] = s[o + k]
  BY <1>1
<1> HIDE DEF t
<1>4. ASSUME NEW k \in 1..m - o PROVE t[k] = u[k]
  <2>1. o + k \in 1..m OBVIOUS
  <2> QED BY <1>1, <1>2, <1>3, <2>1
<1>5. t = u BY <1>2, <1>3, <1>4, SeqEqual
<1> QED BY <1>5 DEF s, t, u

(* NextAt after one more frame. *)
LEMMA NextAtAppend ==
  ASSUME NEW S, NEW d \in Seq(S), NEW f \in S
  PROVE  FS!NextAt(Append(d, f)) = f.at + HDR + f.len
<1>1. /\ Append(d, f) # <<>>
      /\ Len(Append(d, f)) = Len(d) + 1
      /\ Append(d, f)[Len(d) + 1] = f
  OBVIOUS
<1> QED BY <1>1 DEF FS!NextAt

-----------------------------------------------------------------------------
(***************************************************************************)
(* The inductive invariant.  The checked invariants are almost inductive:  *)
(* what they lack is that the drain loop only runs on an occupied slot and *)
(* that offset is 0 outside of it.                                         *)
(***************************************************************************)
LoopState ==
  /\ pc = "drain" => open
  /\ pc = "select" => offset = 0

IInv == TypeOK /\ BufferInStep /\ NoStuckFrame /\ DroppedForCause /\ LoopState

(* The header the loop looks at is the one of the next frame due. *)
LEMMA HeaderOfNext ==
  ASSUME IInv, open, offset < Len(inbuf)
  PROVE  /\ inbuf[offset + 1] = NextAt
         /\ NextAt \in 0..StreamLen
         /\ len = stream[NextAt]
         /\ len \in Nat
<1>1. /\ inbuf = Bytes(rcvd - Len(inbuf), Len(inbuf))
      /\ Len(inbuf) <= rcvd
      /\ NextAt = rcvd - Len(inbuf) + offset
  BY DEF IInv, BufferInStep
<1>2. /\ Len(inbuf) \in Nat /\ rcvd \in Nat /\ rcvd <= StreamLen
      /\ offset \in Nat /\ stream \in Streams
  BY FramingAssumption DEF IInv, TypeOK
<1>3. inbuf[offset + 1] = rcvd - Len(inbuf) + (offset + 1) - 1
  <2>1. rcvd - Len(inbuf) \in Nat /\ offset + 1 \in 1..Len(inbuf)
    BY <1>1, <1>2
  <2>2. \A k \in 1..Len(inbuf) :
           Bytes(rcvd - Len(inbuf), Len(inbuf))[k] = rcvd - Len(inbuf) + k - 1
    BY <1>2, <2>1, BytesSeq
  <2> QED BY <1>1, <2>1, <2>2
<1>4. inbuf[offset + 1] = NextAt /\ NextAt \in 0..StreamLen
  BY <1>1, <1>2, <1>3, FramingAssumption
<1>5. stream[NextAt] \in Nat
  BY <1>2, <1>4, FramingAssumption DEF Streams
<1> QED BY <1>4, <1>5 DEF len

LEMMA InitIInv == Init => IInv
<1> SUFFICES ASSUME Init PROVE IInv OBVIOUS
<1> USE FramingAssumption DEF Init
<1>1. TypeOK BY DEF TypeOK, INBUF_CAP, Fates
<1>2. BufferInStep /\ NoStuckFrame /\ DroppedForCause /\ LoopState
  BY DEF BufferInStep, NoStuckFrame, FrameWaiting, DroppedForCause, LoopState, open
<1> QED BY <1>1, <1>2 DEF IInv

LEMMA StepClientsAdd == IInv /\ ClientsAdd => IInv'
<1> SUFFICES ASSUME IInv, ClientsAdd PROVE IInv' OBVIOUS
<1> USE FramingAssumption DEF ClientsAdd
<1>1. TypeOK' BY DEF IInv, TypeOK, INBUF_CAP, Fates, LoopState
<1>2. NextAt' = 0 BY DEF NextAt, FS!NextAt
<1>3. BufferInStep'
  <2>1. Bytes(0, 0) = <<>> BY DEF Bytes
  <2>2. inbuf' = <<>> /\ rcvd' = 0 /\ offset' = 0 BY DEF IInv, LoopState
  <2>3. Len(inbuf') = 0
    <3>1. Len(<<>>) = 0 OBVIOUS
    <3> QED BY <2>2, <3>1, Zenon
  <2>4. 0 - 0 = 0 /\ 0 - 0 + 0 = 0 /\ 0 <= 0 OBVIOUS
  <2> QED BY <1>2, <2>1, <2>2, <2>3, <2>4, Zenon DEF BufferInStep
<1>4. NoStuckFrame' BY <1>2 DEF NoStuckFrame, FrameWaiting
<1>5. DroppedForCause' /\ LoopState' BY DEF DroppedForCause, LoopState, IInv, open
<1> QED BY <1>1, <1>3, <1>4, <1>5 DEF IInv

(* Emptying the slot outside of the loop, for a reason other than "large". *)
LEMMA StepRemove ==
  ASSUME IInv, NEW why \in {"peer", "overflow"}, pc = "select", open,
         clients_remove(why), UNCHANGED <<stream, rcvd, pc, offset, delivered>>
  PROVE  IInv'
<1>1. TypeOK'
  BY FramingAssumption DEF IInv, TypeOK, INBUF_CAP, Fates, clients_remove, LoopState
<1>2. ~open' /\ fate' # "large" BY DEF clients_remove, open
<1>3. LoopState' BY DEF IInv, LoopState
<1> QED BY <1>1, <1>2, <1>3
        DEF IInv, BufferInStep, NoStuckFrame, FrameWaiting, DroppedForCause

LEMMA StepFeedFrames ==
  ASSUME IInv, NEW n \in Chunks, FeedFrames(n)
  PROVE  IInv'
<1> USE FramingAssumption
<1>1. /\ n \in Nat \ {0} /\ rcvd \in Nat /\ rcvd + n <= StreamLen
      /\ rcvd' = rcvd + n /\ offset = 0 /\ offset' = 0
      /\ inbuf \in Seq(0..StreamLen) /\ Len(inbuf) + n <= INBUF_CAP
      /\ Len(inbuf) \in Nat
  BY DEF FeedFrames, Chunks, IInv, TypeOK, LoopState, Overflows, INBUF_CAP
<1>2. /\ Bytes(rcvd, n) \in Seq(0..StreamLen)
      /\ Len(Bytes(rcvd, n)) = n
  BY <1>1 DEF Bytes
<1>3. /\ inbuf' \in Seq(0..StreamLen)
      /\ Len(inbuf') = Len(inbuf) + n
  <2>1. inbuf' = inbuf \o Bytes(rcvd, n) BY DEF FeedFrames
  <2> HIDE DEF Bytes
  <2> QED BY <1>1, <1>2, <2>1, ConcatProperties
<1>4. TypeOK'
  BY <1>1, <1>3 DEF FeedFrames, IInv, TypeOK, INBUF_CAP
<1>5. NextAt' = NextAt BY DEF FeedFrames, NextAt
<1>6. BufferInStep'
  <2>1. /\ inbuf = Bytes(rcvd - Len(inbuf), Len(inbuf))
        /\ Len(inbuf) <= rcvd
        /\ NextAt = rcvd - Len(inbuf) + 0
    BY <1>1 DEF IInv, BufferInStep, FeedFrames
  <2>2. Bytes(rcvd - Len(inbuf), Len(inbuf)) \o Bytes(rcvd - Len(inbuf) + Len(inbuf), n)
          = Bytes(rcvd - Len(inbuf), Len(inbuf) + n)
    <3>1. rcvd - Len(inbuf) \in Nat BY <1>1, <2>1
    <3> QED BY <1>1, <3>1, BytesConcat
  <2>3. rcvd - Len(inbuf) + Len(inbuf) = rcvd BY <1>1
  <2>4. inbuf' = Bytes(rcvd - Len(inbuf), Len(inbuf) + n)
    BY <2>1, <2>2, <2>3 DEF FeedFrames
  <2>5. rcvd' - Len(inbuf') = rcvd - Len(inbuf) BY <1>1, <1>3
  <2>6. inbuf' = Bytes(rcvd' - Len(inbuf'), Len(inbuf'))
    BY <1>3, <2>4, <2>5
  <2>7. Len(inbuf') <= rcvd' /\ NextAt' = rcvd' - Len(inbuf') + offset'
    BY <1>1, <1>3, <1>5, <2>1, <2>5
  <2> QED BY <2>6, <2>7 DEF BufferInStep
<1>7. NoStuckFrame' /\ DroppedForCause' /\ LoopState'
  BY DEF FeedFrames, NoStuckFrame, DroppedForCause, LoopState, open
<1> QED BY <1>4, <1>6, <1>7 DEF IInv

LEMMA StepDrainDeliver == IInv /\ DrainDeliver => IInv'
<1> SUFFICES ASSUME IInv, DrainDeliver PROVE IInv' OBVIOUS
<1> USE FramingAssumption
<1>1. /\ offset \in Nat /\ Len(inbuf) \in Nat /\ offset <= Len(inbuf)
      /\ Len(inbuf) - offset >= HDR /\ ~(len > MAX_FRAME_SIZE)
      /\ Len(inbuf) - offset >= HDR + len
      /\ offset' = offset + HDR + len /\ inbuf' = inbuf
      /\ pc = "drain" /\ open
  BY DEF DrainDeliver, HeaderThere, TooLarge, WholeFrameThere, IInv, TypeOK, LoopState
<1>2. /\ inbuf[offset + 1] = NextAt /\ NextAt \in 0..StreamLen /\ len \in Nat
  BY <1>1, HeaderOfNext
<1>3. offset' \in 0..Len(inbuf') BY <1>1, <1>2
<1> DEFINE F == [at : 0..StreamLen, len : 0..MAX_FRAME_SIZE]
           f == [at |-> NextAt, len |-> len]
<1>4. f \in F BY <1>1, <1>2
<1>5. delivered' = Append(delivered, f) /\ delivered \in Seq(F)
  BY <1>2 DEF DrainDeliver, IInv, TypeOK
<1>6. delivered' \in Seq(F) BY <1>4, <1>5
<1>7. TypeOK' BY <1>3, <1>6 DEF DrainDeliver, IInv, TypeOK
<1>8. NextAt' = NextAt + HDR + len
  <2>1. FS!NextAt(Append(delivered, f)) = f.at + HDR + f.len
    BY <1>4, <1>5, NextAtAppend
  <2> QED BY <1>5, <2>1 DEF NextAt
<1>9. BufferInStep'
  <2>1. /\ inbuf = Bytes(rcvd - Len(inbuf), Len(inbuf))
        /\ Len(inbuf) <= rcvd
        /\ NextAt = rcvd - Len(inbuf) + offset
    BY <1>1 DEF IInv, BufferInStep
  <2>2. rcvd' = rcvd /\ rcvd \in Nat BY DEF DrainDeliver, IInv, TypeOK
  <2>3. NextAt' = rcvd' - Len(inbuf') + offset'
    BY <1>1, <1>2, <1>8, <2>1, <2>2
  <2> QED BY <1>1, <2>1, <2>2, <2>3 DEF BufferInStep
<1>10. NoStuckFrame' /\ DroppedForCause' /\ LoopState'
  BY <1>1 DEF DrainDeliver, NoStuckFrame, DroppedForCause, LoopState, open
<1> QED BY <1>7, <1>9, <1>10 DEF IInv

LEMMA StepDrainTooLarge == IInv /\ DrainTooLarge => IInv'
<1> SUFFICES ASSUME IInv, DrainTooLarge PROVE IInv' OBVIOUS
<1> USE FramingAssumption
<1>1. TypeOK'
  BY DEF DrainTooLarge, IInv, TypeOK, INBUF_CAP, Fates, clients_remove
<1>2. ~open' BY DEF DrainTooLarge, clients_remove, open
<1>3. LoopState' BY DEF DrainTooLarge, LoopState
<1>4. stream'[NextAt'] > MAX_FRAME_SIZE
  <2>1. open /\ offset < Len(inbuf)
    BY DEF DrainTooLarge, HeaderThere, IInv, TypeOK, LoopState
  <2>2. len = stream[NextAt] BY <2>1, HeaderOfNext
  <2> QED BY <2>2 DEF DrainTooLarge, TooLarge, NextAt
<1> QED BY <1>1, <1>2, <1>3, <1>4
        DEF IInv, BufferInStep, NoStuckFrame, FrameWaiting, DroppedForCause

LEMMA StepDrainEnd == IInv /\ DrainEnd => IInv'
<1> SUFFICES ASSUME IInv, DrainEnd PROVE IInv' OBVIOUS
<1> USE FramingAssumption
<1>1. /\ open /\ inbuf \in Seq(0..StreamLen) /\ Len(inbuf) \in Nat
      /\ offset \in 0..Len(inbuf) /\ offset \in Nat /\ offset <= Len(inbuf)
      /\ Len(inbuf) <= INBUF_CAP /\ INBUF_CAP \in Nat
      /\ rcvd \in Nat /\ rcvd' = rcvd /\ offset' = 0
  BY DEF DrainEnd, IInv, TypeOK, LoopState, INBUF_CAP
<1>2. /\ inbuf' = SubSeq(inbuf, offset + 1, Len(inbuf))
      /\ inbuf' \in Seq(0..StreamLen)
      /\ Len(inbuf') = Len(inbuf) - offset
  BY <1>1 DEF DrainEnd, Compacted
<1>3. TypeOK' BY <1>1, <1>2 DEF DrainEnd, IInv, TypeOK, INBUF_CAP
<1>4. NextAt' = NextAt BY DEF DrainEnd, NextAt
<1>5. /\ inbuf = Bytes(rcvd - Len(inbuf), Len(inbuf))
      /\ Len(inbuf) <= rcvd
      /\ NextAt = rcvd - Len(inbuf) + offset
  BY <1>1 DEF IInv, BufferInStep
<1>6. BufferInStep'
  <2>1. rcvd - Len(inbuf) \in Nat BY <1>1, <1>5
  <2>2. SubSeq(Bytes(rcvd - Len(inbuf), Len(inbuf)), offset + 1, Len(inbuf))
          = Bytes(rcvd - Len(inbuf) + offset, Len(inbuf) - offset)
    BY <1>1, <2>1, BytesRest
  <2>3. rcvd' - Len(inbuf') = rcvd - Len(inbuf) + offset
    <3>1. Len(inbuf') = Len(inbuf) - offset /\ rcvd' = rcvd BY <1>1, <1>2
    <3> QED BY <1>1, <3>1
  <2>4. inbuf' = Bytes(rcvd' - Len(inbuf'), Len(inbuf'))
    BY <1>2, <1>5, <2>2, <2>3
  <2>5. Len(inbuf') <= rcvd' /\ NextAt' = rcvd' - Len(inbuf') + offset'
    <3>1. Len(inbuf') = Len(inbuf) - offset BY <1>2
    <3>2. Len(inbuf') <= rcvd' BY <1>1, <1>5, <3>1
    <3>3. NextAt' = rcvd' - Len(inbuf') + offset'
      BY <1>1, <1>4, <1>5, <2>3, <3>1
    <3> QED BY <3>2, <3>3
  <2> QED BY <2>4, <2>5 DEF BufferInStep
<1>7. NoStuckFrame'
  <2> SUFFICES ASSUME NextAt + HDR <= rcvd, stream[NextAt] <= MAX_FRAME_SIZE,
                      NextAt + HDR + stream[NextAt] <= rcvd
               PROVE  FALSE
    BY <1>1, <1>4 DEF NoStuckFrame, FrameWaiting, DrainEnd
  <2>1. Len(inbuf) - offset >= HDR BY <1>1, <1>5
  <2>2. len = stream[NextAt] /\ len \in Nat
    <3>1. offset < Len(inbuf) BY <1>1, <2>1
    <3> QED BY <1>1, <3>1, HeaderOfNext
  <2>3. Len(inbuf) - offset >= HDR + len
    <3>1. rcvd - Len(inbuf) + offset + HDR + len <= rcvd BY <1>5, <2>2
    <3> QED BY <1>1, <2>2, <3>1
  <2> QED BY <2>1, <2>2, <2>3 DEF DrainEnd, HeaderThere, TooLarge, WholeFrameThere
<1>8. DroppedForCause' /\ LoopState'
  BY <1>1 DEF DrainEnd, DroppedForCause, LoopState, open
<1> QED BY <1>3, <1>6, <1>7, <1>8 DEF IInv

LEMMA NextIInv == IInv /\ [Next]_vars => IInv'
<1> SUFFICES ASSUME IInv, [Next]_vars PROVE IInv' OBVIOUS
<1>1. CASE ClientsAdd BY <1>1, StepClientsAdd
<1>2. CASE PeerGone BY <1>2, StepRemove DEF PeerGone
<1>3. ASSUME NEW n \in Chunks, FeedOverflow(n) PROVE IInv'
  BY <1>3, StepRemove DEF FeedOverflow
<1>4. ASSUME NEW n \in Chunks, FeedFrames(n) PROVE IInv'
  BY <1>4, StepFeedFrames
<1>5. CASE Drain BY <1>5, StepDrainDeliver, StepDrainTooLarge, StepDrainEnd DEF Drain
<1>6. CASE UNCHANGED vars
  BY <1>6 DEF vars, IInv, TypeOK, BufferInStep, NoStuckFrame, FrameWaiting,
              DroppedForCause, LoopState, NextAt, open
<1> QED BY <1>1, <1>2, <1>3, <1>4, <1>5, <1>6 DEF Next

LEMMA Invariance == Spec => []IInv
BY InitIInv, NextIInv, PTL DEF Spec

(* The receive path keeps its types; in particular recv()'s bytes never    *)
(* run over the end of inbuf, whatever the peer sends.                     *)
THEOREM TypeCorrect == Spec => []TypeOK
BY Invariance, PTL DEF IInv

(* in_used, offset and the buffer's content agree with the stream.         *)
THEOREM BufferStaysInStep == Spec => []BufferInStep
BY Invariance, PTL DEF IInv

(* No complete message is ever left behind in the buffer.                  *)
THEOREM NothingStuck == Spec => []NoStuckFrame
BY Invariance, PTL DEF IInv

(* "frame too large" is only said of a frame that is.                      *)
THEOREM DropsForCause == Spec => []DroppedForCause
BY Invariance, PTL DEF IInv

-----------------------------------------------------------------------------
(* Every step of the receive path is a step of FrameStream or a stutter.   *)

LEMMA MapInit == Init => FS!Init
BY FramingAssumption DEF Init, FS!Init, Streams, FS!Streams, open

LEMMA MapClose ==
  ASSUME NEW why \in {"peer", "overflow", "large"}, open, clients_remove(why),
         UNCHANGED <<stream, rcvd, delivered>>
  PROVE  FS!Close
BY DEF FS!Close, clients_remove, open

LEMMA MapFeed ==
  ASSUME IInv, NEW n \in Chunks, FeedFrames(n)
  PROVE  FS!Arrive
<1>1. /\ n \in Nat \ {0} /\ rcvd \in Nat /\ rcvd + n <= StreamLen
      /\ StreamLen \in Nat
  BY FramingAssumption DEF Chunks, IInv, TypeOK
<1>2. rcvd' = rcvd + n /\ rcvd' \in rcvd+1 .. StreamLen
  BY <1>1 DEF FeedFrames
<1> QED BY <1>2 DEF FeedFrames, FS!Arrive, open

LEMMA MapDeliver ==
  ASSUME IInv, DrainDeliver
  PROVE  FS!Deliver
<1> USE FramingAssumption
<1>1. /\ offset \in Nat /\ Len(inbuf) \in Nat /\ rcvd \in Nat
      /\ Len(inbuf) - offset >= HDR /\ ~(len > MAX_FRAME_SIZE)
      /\ Len(inbuf) - offset >= HDR + len
      /\ open
  BY DEF DrainDeliver, HeaderThere, TooLarge, WholeFrameThere, IInv, TypeOK, LoopState
<1>2. /\ inbuf[offset + 1] = NextAt /\ NextAt \in 0..StreamLen
      /\ len = stream[NextAt] /\ len \in Nat
  BY <1>1, HeaderOfNext
<1>3. NextAt = rcvd - Len(inbuf) + offset
  BY <1>1 DEF IInv, BufferInStep
<1>4. /\ NextAt + HDR <= rcvd
      /\ stream[NextAt] <= MAX_FRAME_SIZE
      /\ NextAt + HDR + stream[NextAt] <= rcvd
  <2>1. rcvd - Len(inbuf) + offset + HDR <= rcvd BY <1>1
  <2>2. rcvd - Len(inbuf) + offset + HDR + len <= rcvd BY <1>1, <1>2
  <2>3. len <= MAX_FRAME_SIZE BY <1>1, <1>2
  <2> QED BY <1>2, <1>3, <2>1, <2>2, <2>3
<1>5. delivered' = Append(delivered, [at |-> NextAt, len |-> stream[NextAt]])
  BY <1>2 DEF DrainDeliver
<1>6. open' = open /\ UNCHANGED <<stream, rcvd>>
  BY DEF DrainDeliver, open
<1> QED BY <1>1, <1>4, <1>5, <1>6 DEF FS!Deliver, NextAt

LEMMA MapNext == IInv /\ [Next]_vars => [FS!Next]_(FS!vars)
<1> SUFFICES ASSUME IInv, [Next]_vars PROVE FS!Next \/ UNCHANGED FS!vars
  OBVIOUS
<1>1. CASE ClientsAdd
  BY <1>1 DEF ClientsAdd, FS!Next, FS!Open, open
<1>2. CASE PeerGone
  BY <1>2, MapClose DEF PeerGone, FS!Next
<1>3. ASSUME NEW n \in Chunks, FeedOverflow(n) PROVE FS!Next
  BY <1>3, MapClose DEF FeedOverflow, FS!Next
<1>4. ASSUME NEW n \in Chunks, FeedFrames(n) PROVE FS!Next
  BY <1>4, MapFeed DEF FS!Next
<1>5. CASE DrainDeliver
  BY <1>5, MapDeliver DEF FS!Next
<1>6. CASE DrainTooLarge
  BY <1>6, MapClose DEF DrainTooLarge, IInv, LoopState, FS!Next
<1>7. CASE DrainEnd
  BY <1>7 DEF DrainEnd, FS!vars, open
<1>8. CASE UNCHANGED vars
  BY <1>8 DEF vars, FS!vars, open
<1> QED BY <1>1, <1>2, <1>3, <1>4, <1>5, <1>6, <1>7, <1>8 DEF Next, Drain

(* The receive path implements FrameStream: one callback per frame, in     *)
(* order, with exactly that frame, however TCP cuts the stream.            *)
THEOREM Refinement == Spec => RefinesFrameStream
BY Invariance, MapInit, MapNext, PTL DEF Spec, RefinesFrameStream, FS!Spec
=============================================================================
