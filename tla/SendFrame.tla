----------------------------- MODULE SendFrame -----------------------------
(***************************************************************************)
(* send_frame() and send_all() of socket-server's net.c, on one connection *)
(* and for as long as it lasts: what one send() takes depends on the room  *)
(* in the socket buffer, and the peer may go away between any two calls.   *)
(* A failed broadcast removes the client; a failed greeting or answer is   *)
(* ignored.  A byte is named by its frame and its place in it, the header  *)
(* first.  An interrupted send (EINTR) changes nothing.                    *)
(***************************************************************************)
EXTENDS Naturals, Sequences

CONSTANTS
  Frames,  (* for each frame: its length, and whether a failure is ignored *)
  HDR,     (* bytes of the header: 4                                       *)
  SNDBUF   (* bytes the socket buffers hold                                *)

ASSUME SendAssumption ==
  /\ Frames \in Seq([len : Nat, ignored : BOOLEAN])
  /\ HDR \in Nat \ {0} /\ SNDBUF \in Nat \ {0}

VARIABLES
  cur,    (* the frame being sent, or the next one                         *)
  part,   (* "idle", "header", "payload": the call of send_all             *)
  sent,   (* its local                                                     *)
  wire,   (* the bytes that send() has taken                               *)
  read,   (* how many of them the peer has read                            *)
  up,     (* the connection is there                                       *)
  result, (* what send_frame returned, for each frame: success             *)
  gone    (* the client was removed                                        *)

vars == <<cur, part, sent, wire, read, up, result, gone>>

Init ==
  /\ cur = 1 /\ part = "idle" /\ sent = 0
  /\ wire = <<>> /\ read = 0 /\ up = TRUE
  /\ result = <<>> /\ gone = FALSE

Size(k) == HDR + Frames[k].len
Place   == IF part = "payload" THEN HDR + sent ELSE sent
PartLen == IF part = "payload" THEN Frames[cur].len ELSE HDR
Room    == SNDBUF - (Len(wire) - read)

(* A call of send_frame. *)
Begin ==
  /\ part = "idle" /\ cur <= Len(Frames) /\ ~gone
  /\ part' = "header" /\ sent' = 0
  /\ UNCHANGED <<cur, wire, read, up, result, gone>>

Bytes(n) == [m \in 1..n |-> <<cur, Place + m>>]
Mut_Advanced(n) == PartLen
Advanced(n) == sent + n

(* send() takes n bytes; it blocks while there is no room. *)
Send(n) ==
  /\ part # "idle" /\ sent < PartLen /\ up
  /\ n <= PartLen - sent /\ n <= Room
  /\ wire' = wire \o Bytes(n) /\ sent' = Advanced(n)
  /\ UNCHANGED <<cur, part, read, up, result, gone>>

Return(success) ==
  /\ result' = Append(result, success)
  /\ cur' = cur + 1 /\ part' = "idle" /\ sent' = 0
  /\ gone' = (~success /\ ~Frames[cur].ignored)

Mut_SendFails ==
  /\ part # "idle" /\ sent < PartLen /\ (up => Room = 0)
  /\ Return(FALSE)
  /\ UNCHANGED <<wire, read, up>>

SendFails ==
  /\ part # "idle" /\ sent < PartLen /\ ~up
  /\ Return(FALSE)
  /\ UNCHANGED <<wire, read, up>>

(* The header is out. *)
Payload ==
  /\ part = "header" /\ sent = HDR /\ Frames[cur].len > 0
  /\ part' = "payload" /\ sent' = 0
  /\ UNCHANGED <<cur, wire, read, up, result, gone>>

Done ==
  /\ sent = PartLen
  /\ part = "payload" \/ (part = "header" /\ Frames[cur].len = 0)
  /\ Return(TRUE)
  /\ UNCHANGED <<wire, read, up>>

send_frame == Begin \/ (\E n \in 1..SNDBUF : Send(n)) \/ SendFails \/ Payload \/ Done

PeerReads ==
  /\ \E n \in 1..Len(wire) : n > read /\ read' = n
  /\ UNCHANGED <<cur, part, sent, wire, up, result, gone>>

PeerGoes ==
  /\ up /\ up' = FALSE
  /\ UNCHANGED <<cur, part, sent, wire, read, result, gone>>

Next == send_frame \/ PeerReads \/ PeerGoes

Spec == Init /\ [][Next]_vars

-----------------------------------------------------------------------------
(* The byte behind byte b. *)
After(b) == IF b[2] < Size(b[1]) THEN <<b[1], b[2] + 1>> ELSE <<b[1] + 1, 1>>

(* The bytes of the frames are on the wire in their order and without a    *)
(* gap, so that the peer is never out of step with the headers, also after *)
(* short writes and failures that the caller ignored; and send_frame       *)
(* reports success just for the frames that are there to their last byte   *)
(* (send_all, send_frame, and main's calls that ignore the result).        *)
BytesRight ==
  /\ wire # <<>> => wire[1] = <<1, 1>>
  /\ \A m \in 1..Len(wire)-1 : wire[m + 1] = After(wire[m])
  /\ \A k \in 1..Len(result) :
       result[k] <=> \E m \in 1..Len(wire) : wire[m] = <<k, Size(k)>>

(* The frames whose last byte is on the wire; a failure is the end.        *)
Whole == IF wire = <<>> THEN 0
         ELSE LET b == wire[Len(wire)]
              IN  IF b[2] = Size(b[1]) THEN b[1] ELSE b[1] - 1
Failed == \E k \in 1..Len(result) : ~result[k]

FL == INSTANCE FrameLine WITH Count <- Len(Frames), line <- Whole, cut <- Failed

(* send_frame hands over whole frames, one after the other, until the      *)
(* connection fails: what ChatServer takes for granted of its sends.       *)
RefinesFrameLine == FL!Spec
=============================================================================
