---------------------------- MODULE FrameStream ----------------------------
(***************************************************************************)
(* What the receiving side of the chat server promises for one client      *)
(* slot: whatever way TCP cuts the byte stream, the message callback is    *)
(* called once for every frame the peer sent, in order, with exactly that  *)
(* frame, until the connection is closed.  Nothing is said about buffers.  *)
(*                                                                         *)
(* A byte stream is abstracted by a function `stream': stream[p] is the    *)
(* number that the HDR bytes starting at position p of the connection's    *)
(* byte stream decode to (ntohl).  Only positions where a frame starts     *)
(* mean anything to the protocol; at the others the value is whatever the  *)
(* payload bytes happen to spell, so reading a header at a wrong place     *)
(* yields an arbitrary length.                                             *)
(***************************************************************************)
EXTENDS Naturals, Sequences

CONSTANTS
  HDR,             (* size of the length header (4 in the code)            *)
  MAX_FRAME_SIZE,  (* largest payload accepted (64 KiB in the code)        *)
  Lens,            (* values a header can decode to                        *)
  StreamLen        (* bytes a peer sends in one connection: bounds the     *)
                   (* model                                                *)

VARIABLES
  stream,     (* the bytes of the current connection, see above           *)
  rcvd,       (* how many of them have reached the server                 *)
  delivered,  (* frames handed to the callback: [at |-> start, len |-> n] *)
  open        (* is the slot occupied?                                    *)

vars == <<stream, rcvd, delivered, open>>

Streams == [0..StreamLen -> Lens]

(* Position just behind the last delivered frame: where the next one starts. *)
NextAt(frames) ==
  IF frames = <<>> THEN 0
  ELSE LET f == frames[Len(frames)] IN f.at + HDR + f.len

Init ==
  /\ stream \in Streams
  /\ rcvd = 0
  /\ delivered = <<>>
  /\ open = FALSE

(* A peer connects and takes the slot. *)
Open ==
  /\ ~open
  /\ open' = TRUE
  /\ rcvd' = 0
  /\ delivered' = <<>>
  /\ UNCHANGED stream

(* TCP hands over some more bytes, as many as it likes. *)
Arrive ==
  /\ open
  /\ rcvd' \in rcvd+1 .. StreamLen
  /\ UNCHANGED <<stream, delivered, open>>

(* The next whole frame of legal size is handed to the callback. *)
Deliver ==
  LET at == NextAt(delivered) IN
  /\ open
  /\ at + HDR <= rcvd
  /\ stream[at] <= MAX_FRAME_SIZE
  /\ at + HDR + stream[at] <= rcvd
  /\ delivered' = Append(delivered, [at |-> at, len |-> stream[at]])
  /\ UNCHANGED <<stream, rcvd, open>>

(* The connection ends, for whatever reason. *)
Close ==
  /\ open
  /\ open' = FALSE
  /\ UNCHANGED <<stream, rcvd, delivered>>

Next == Open \/ Arrive \/ Deliver \/ Close

Spec == Init /\ [][Next]_vars
=============================================================================
