------------------------------ MODULE Framing ------------------------------
(***************************************************************************)
(* The receive path of one client slot of socket-server: recv() in the     *)
(* select loop of main.c, clients_feed_frames and drain_frames_from_inbuf  *)
(* of clients.c, with the slot being emptied (clients_remove) and taken    *)
(* again (clients_add).                                                    *)
(*                                                                         *)
(* A byte is identified by its position in the connection's stream, so     *)
(* inbuf is the sequence of the stream positions of the bytes that         *)
(* cs[i].inbuf[0 .. in_used-1] holds: a byte lost, doubled or moved to the *)
(* wrong place shows.  in_used is Len(inbuf).                              *)
(***************************************************************************)
EXTENDS Naturals, Sequences

CONSTANTS
  HDR,             (* sizeof(uint32_t), the 4 of the code                  *)
  MAX_FRAME_SIZE,  (* clients.h                                            *)
  RECV_BUF,        (* sizeof(buf) in main(), 4096 in the code              *)
  Lens,            (* values a header can decode to                        *)
  StreamLen        (* bytes a peer sends in one connection (model bound)   *)

ASSUME FramingAssumption ==
  /\ HDR \in Nat \ {0}
  /\ MAX_FRAME_SIZE \in Nat
  /\ RECV_BUF \in Nat \ {0}
  /\ Lens \subseteq Nat
  /\ StreamLen \in Nat

VARIABLES
  stream,     (* what the HDR bytes at each stream position decode to      *)
  rcvd,       (* bytes of the stream that recv() has returned and kept     *)
  inbuf,      (* cs[i].inbuf up to in_used                                 *)
  pc,         (* "select": no call in progress; "drain": inside the loop   *)
  offset,     (* local of drain_frames_from_inbuf                          *)
  delivered,  (* history: the frames passed to the callback                *)
  fate        (* "open", or why the slot is empty                          *)

vars == <<stream, rcvd, inbuf, pc, offset, delivered, fate>>

INBUF_CAP == HDR + MAX_FRAME_SIZE
Streams   == [0..StreamLen -> Lens]
Fates     == {"free", "open", "peer", "overflow", "large"}

open == fate = "open"

(* The n bytes of the stream that start at position `from'. *)
Bytes(from, n) == [k \in 1..n |-> from + k - 1]

(* The size announced by the header at b + offset. *)
len == stream[inbuf[offset + 1]]

Init ==
  /\ stream \in Streams
  /\ rcvd = 0
  /\ inbuf = <<>>
  /\ pc = "select"
  /\ offset = 0
  /\ delivered = <<>>
  /\ fate = "free"

(* accept() succeeded and clients_add gave the slot to a new connection.   *)
(* All connections of one behaviour send the same bytes; Init ranges over  *)
(* all streams.                                                            *)
ClientsAdd ==
  /\ pc = "select" /\ ~open
  /\ fate' = "open"
  /\ inbuf' = <<>>
  /\ rcvd' = 0
  /\ delivered' = <<>>
  /\ UNCHANGED <<stream, pc, offset>>

(* clients_remove on an occupied slot. *)
clients_remove(why) ==
  /\ fate' = why
  /\ inbuf' = <<>>

(* recv() returned 0, or failed with an errno other than EINTR. *)
PeerGone ==
  /\ pc = "select" /\ open
  /\ clients_remove("peer")
  /\ UNCHANGED <<stream, rcvd, pc, offset, delivered>>

Mut_Overflows(n) == n > INBUF_CAP
Overflows(n) == n > INBUF_CAP - Len(inbuf)

(* recv() returned n bytes and clients_feed_frames has no room for them. *)
FeedOverflow(n) ==
  /\ pc = "select" /\ open
  /\ Overflows(n)
  /\ clients_remove("overflow")
  /\ UNCHANGED <<stream, rcvd, pc, offset, delivered>>

(* recv() returned n bytes: memcpy behind the old ones, then drain. *)
FeedFrames(n) ==
  /\ pc = "select" /\ open
  /\ ~Overflows(n)
  /\ inbuf' = inbuf \o Bytes(rcvd, n)
  /\ rcvd' = rcvd + n
  /\ pc' = "drain"
  /\ offset' = 0
  /\ UNCHANGED <<stream, delivered, fate>>

Mut_HeaderThere == Len(inbuf) - offset > HDR
HeaderThere == Len(inbuf) - offset >= HDR

Mut_TooLarge == len >= MAX_FRAME_SIZE
TooLarge == len > MAX_FRAME_SIZE

WholeFrameThere == Len(inbuf) - offset >= HDR + len

(* Loop body, frame complete: the callback gets it, offset moves past it. *)
Mut_DrainDeliver ==
  /\ pc = "drain"
  /\ HeaderThere /\ ~TooLarge /\ WholeFrameThere
  /\ delivered' = Append(delivered, [at |-> inbuf[offset + 1], len |-> len])
  /\ offset' = offset + (IF len = 0 THEN HDR ELSE len)
  /\ UNCHANGED <<stream, rcvd, inbuf, pc, fate>>

DrainDeliver ==
  /\ pc = "drain"
  /\ HeaderThere /\ ~TooLarge /\ WholeFrameThere
  /\ delivered' = Append(delivered, [at |-> inbuf[offset + 1], len |-> len])
  /\ offset' = offset + HDR + len
  /\ UNCHANGED <<stream, rcvd, inbuf, pc, fate>>

(* Loop body, announced size beyond the limit: drop the client and return. *)
DrainTooLarge ==
  /\ pc = "drain"
  /\ HeaderThere /\ TooLarge
  /\ clients_remove("large")
  /\ pc' = "select"
  /\ offset' = 0
  /\ UNCHANGED <<stream, rcvd, delivered>>

(* memmove of the rest to the front, in_used = remain. *)
Mut_Compacted == SubSeq(inbuf, 1, Len(inbuf) - offset)
Compacted == SubSeq(inbuf, offset + 1, Len(inbuf))

(* Loop left: no header, or only a part of the frame it announces. *)
DrainEnd ==
  /\ pc = "drain"
  /\ HeaderThere => ~TooLarge /\ ~WholeFrameThere
  /\ inbuf' = Compacted
  /\ pc' = "select"
  /\ offset' = 0
  /\ UNCHANGED <<stream, rcvd, delivered, fate>>

Drain == DrainDeliver \/ DrainTooLarge \/ DrainEnd

(* recv() hands over any number of the bytes not yet received. *)
Chunks == {n \in 1..RECV_BUF : rcvd + n <= StreamLen}

Next ==
  \/ ClientsAdd
  \/ PeerGone
  \/ \E n \in Chunks : FeedOverflow(n) \/ FeedFrames(n)
  \/ Drain

Spec == Init /\ [][Next]_vars

-----------------------------------------------------------------------------
(* The variables stay within their ranges; in particular the accumulation  *)
(* buffer of clients.h never holds more than INBUF_CAP bytes, which is     *)
(* what the test at the top of clients_feed_frames is for.                 *)
TypeOK ==
  /\ stream \in Streams
  /\ rcvd \in 0..StreamLen
  /\ inbuf \in Seq(0..StreamLen)
  /\ Len(inbuf) <= INBUF_CAP
  /\ pc \in {"select", "drain"}
  /\ offset \in 0..Len(inbuf)
  /\ delivered \in Seq([at : 0..StreamLen, len : 0..MAX_FRAME_SIZE])
  /\ fate \in Fates

FS == INSTANCE FrameStream

NextAt == FS!NextAt(delivered)

(* The buffer of an occupied slot is a contiguous piece of the stream that *)
(* ends with the last byte received, and what follows offset starts with   *)
(* the first byte not yet delivered: after any sequence of short reads,    *)
(* drains, memmoves and reuses of the slot, in_used and the buffer's start *)
(* agree with what the callback has seen (clients.c, feed and drain).      *)
BufferInStep ==
  open => /\ inbuf = Bytes(rcvd - Len(inbuf), Len(inbuf))
          /\ Len(inbuf) <= rcvd
          /\ NextAt = rcvd - Len(inbuf) + offset

(* A whole frame of legal size has arrived and was not delivered. *)
FrameWaiting ==
  /\ open
  /\ NextAt + HDR <= rcvd
  /\ stream[NextAt] <= MAX_FRAME_SIZE
  /\ NextAt + HDR + stream[NextAt] <= rcvd

(* When the server goes back to select() no complete frame is left in the  *)
(* buffer: select() would not report it, and the message would be stuck    *)
(* until its sender says something else (the while loop of                 *)
(* drain_frames_from_inbuf exists for this).                               *)
NoStuckFrame == pc = "select" => ~FrameWaiting

(* A client dropped for an oversized frame did announce one, exactly at    *)
(* the place where its next frame starts: never because a header was read  *)
(* out of the middle of a payload (drain_frames_from_inbuf).               *)
DroppedForCause == fate = "large" => stream[NextAt] > MAX_FRAME_SIZE

(* The receive path does what FrameStream promises: one callback per       *)
(* frame, in order, exact, only once it has arrived, none after the slot   *)
(* was emptied.                                                            *)
RefinesFrameStream == FS!Spec
=============================================================================
