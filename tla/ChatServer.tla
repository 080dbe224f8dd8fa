----------------------------- MODULE ChatServer -----------------------------
(***************************************************************************)
(* The select loop of socket-server: main.c, the client table of clients.c *)
(* and the send side of net.c, together with the kernel's descriptor table *)
(* and the peers.                                                          *)
(*                                                                         *)
(* One frame is one unit here: how frames are cut out of the byte stream   *)
(* is the subject of Framing.  A send_frame is one step that happens when  *)
(* the socket buffer has room: the bytes of a frame are out in part only   *)
(* while the single thread sits in send_all.  accept, clients_add and the  *)
(* greeting are one step, because nothing can block or be observed between *)
(* them: the greeting goes into an empty socket buffer.                    *)
(***************************************************************************)
EXTENDS Integers, Sequences, FiniteSets, Functions

CONSTANTS
  Peers,           (* connections; each connects at most once              *)
  NoPeer,          (* what an unused descriptor refers to                  *)
  Script,          (* Script[p]: the frames p sends, in order              *)
  LabelLen,        (* LabelLen[x]: length of the label for nickname x      *)
  MAX_CLIENTS,     (* slots of the table                                   *)
  FD_SETSIZE,      (* descriptors an fd_set has room for                   *)
  MAX_FILES,       (* the process's limit on descriptors (RLIMIT_NOFILE)   *)
  LFD,             (* the listening socket; 0 .. LFD stay open             *)
  HDR,             (* sizeof(uint32_t)                                     *)
  MAX_FRAME_SIZE,
  SNDBUF,          (* frames a peer's socket buffer holds                  *)
  Faults,          (* system calls that may fail for lack of resources     *)
  Quits,           (* peers that may end their connection (model bound)    *)
  Mute             (* peers that may stop reading for ever                 *)

NoName == ""       (* name[0] = '\0': the label is the address             *)
INBUF_CAP == HDR + MAX_FRAME_SIZE

Slots == 0 .. MAX_CLIENTS-1
FDs   == LFD+1 .. MAX_FILES-1

Nicks    == DOMAIN LabelLen
Messages == [kind : {"nick"}, name : Nicks] \union [kind : {"text"}, len : Nat]

ASSUME ServerAssumption ==
  /\ NoPeer \notin Peers
  /\ NoName \in Nicks
  /\ LabelLen \in [Nicks -> Nat]
  /\ Script \in [Peers -> Seq(Messages)]
  /\ MAX_CLIENTS \in Nat /\ LFD \in Nat /\ MAX_FILES \in Nat
  /\ SNDBUF \in Nat \ {0}
  /\ Faults \subseteq {"select", "accept", "recv"}

VARIABLES
  slot,     (* slot[s]: clients[s].fd, -1 when free                        *)
  name,     (* name[s]: clients[s].name                                    *)
  file,     (* kernel: the connection behind each descriptor               *)
  backlog,  (* kernel: connections waiting for accept, oldest first        *)
  peer,     (* "new", "up", "fin" (sent EOF, still reads) or "rst" (gone)  *)
  sent,     (* sent[p]: frames of Script[p] that have reached the server   *)
  taken,    (* taken[p]: those that on_message has been called for         *)
  inbox,    (* inbox[p]: numbers of the texts sent to p (history)          *)
  unread,   (* unread[p]: frames still in p's socket buffer                *)
  log,      (* the texts that were broadcast (history)                     *)
  joined,   (* joined[p]: length of log when p got its slot (history)      *)
  pc,       (* where the single thread is                                  *)
  rfds,     (* the set select() returned                                   *)
  ready,    (* local of main()                                             *)
  i,        (* loop index in main() = sender_idx                           *)
  batch,    (* frames of the last recv() not yet passed to on_message      *)
  j         (* loop index of clients_broadcast_text_framed                 *)

table   == <<slot, name, file>>
peers   == <<backlog, peer, sent>>
history == <<log, joined>>
out     == <<inbox, unread>>
loop    == <<rfds, ready, i, batch, j>>
vars    == <<table, peers, taken, out, history, pc, loop>>

Init ==
  /\ slot = [s \in Slots |-> -1]
  /\ name = [s \in Slots |-> NoName]
  /\ file = [fd \in FDs |-> NoPeer]
  /\ backlog = <<>>
  /\ peer = [p \in Peers |-> "new"]
  /\ sent = [p \in Peers |-> 0]
  /\ taken = [p \in Peers |-> 0]
  /\ inbox = [p \in Peers |-> <<>>]
  /\ unread = [p \in Peers |-> 0]
  /\ log = <<>>
  /\ joined = [p \in Peers |-> 0]
  /\ pc = "select"
  /\ rfds = {} /\ ready = 0 /\ i = 0 /\ batch = 0 /\ j = 0

-----------------------------------------------------------------------------
(* Helpers of the table.                                                   *)

Registered == {slot[s] : s \in Slots} \ {-1}
Members    == {file[fd] : fd \in Registered}
Client(s)  == file[slot[s]]

(* x is what a loop over S in ascending order meets first. *)
First(x, S) == x \in S /\ \A y \in S : x <= y

(* Freeing slot s: close() also ends the kernel's side. *)
Mut_clients_remove(s) ==
  /\ slot' = [slot EXCEPT ![s] = -1]
  /\ name' = [name EXCEPT ![s] = NoName]
  /\ UNCHANGED file

clients_remove(s) ==
  /\ file' = [file EXCEPT ![slot[s]] = NoPeer]
  /\ slot' = [slot EXCEPT ![s] = -1]
  /\ name' = [name EXCEPT ![s] = NoName]

(* send_frame to p: out of the socket buffer's room it blocks; on a reset  *)
(* connection it fails.  texts are the numbers of the texts in the frame:  *)
(* one, or none if it is the greeting or confirms a nickname.              *)
SendOK(p, texts) ==
  /\ peer[p] # "rst" /\ unread[p] < SNDBUF
  /\ inbox' = [inbox EXCEPT ![p] = @ \o texts]
  /\ unread' = [unread EXCEPT ![p] = @ + 1]

Mut_SendFails(p) == peer[p] = "rst" /\ unread[p] < SNDBUF
SendFails(p) == peer[p] = "rst"

(* A send_frame without a text, whose result the caller ignores. *)
SendAnyway(p) ==
  \/ SendOK(p, <<>>)
  \/ SendFails(p) /\ UNCHANGED out

-----------------------------------------------------------------------------
(* One round of the loop in main().                                        *)

(* recv() on p's socket would return at once. *)
Readable(p) == sent[p] > taken[p] \/ peer[p] \in {"fin", "rst"}

(* The locals of a round are dead when it is over. *)
RoundOver == pc' = "select" /\ rfds' = {} /\ ready' = 0 /\ i' = 0

(* What select() reports of the set clients_build_readfds built. *)
ReadyFds ==
  {fd \in Registered : Readable(file[fd])}
    \union (IF backlog = <<>> THEN {} ELSE {LFD})

Select ==
  /\ pc = "select"
  /\ ReadyFds # {}
  /\ rfds' = ReadyFds
  /\ ready' = Cardinality(ReadyFds)
  /\ i' = 0
  /\ pc' = IF LFD \in ReadyFds THEN "accept" ELSE "scan"
  /\ UNCHANGED <<table, peers, taken, out, history, batch, j>>

(* select() fails with an errno other than EINTR: the server ends. *)
SelectError ==
  /\ pc = "select" /\ "select" \in Faults
  /\ pc' = "stopped"
  /\ UNCHANGED <<table, peers, taken, out, history, loop>>

(* --ready, and the rest of the round if something else was ready. *)
Mut_AcceptDone ==
  IF ready - 1 <= 1 THEN RoundOver
  ELSE pc' = "scan" /\ ready' = ready - 1 /\ UNCHANGED <<rfds, i>>

AcceptDone ==
  IF ready - 1 <= 0 THEN RoundOver
  ELSE pc' = "scan" /\ ready' = ready - 1 /\ UNCHANGED <<rfds, i>>

FreeFds   == {fd \in FDs : file[fd] = NoPeer}
FreeSlots == {s \in Slots : slot[s] = -1}

(* accept() fails, with EMFILE or otherwise: the connection stays in the   *)
(* backlog.                                                                *)
Mut_AcceptFails ==
  /\ pc = "accept" /\ (FreeFds # {} => "accept" \in Faults)
  /\ RoundOver
  /\ UNCHANGED <<table, peers, taken, out, history, batch, j>>

AcceptFails ==
  /\ pc = "accept" /\ (FreeFds # {} => "accept" \in Faults)
  /\ AcceptDone
  /\ UNCHANGED <<table, peers, taken, out, history, batch, j>>

(* No slot: the new descriptor is closed again. *)
Reject ==
  /\ pc = "accept" /\ FreeFds # {} /\ FreeSlots = {}
  /\ backlog' = Tail(backlog)
  /\ AcceptDone
  /\ UNCHANGED <<table, peer, sent, taken, out, history, batch, j>>

(* The lowest descriptor, the first free slot, no nickname, the greeting. *)
Accept ==
  LET p == Head(backlog) IN
  /\ pc = "accept"
  /\ \E fd \in FreeFds, s \in FreeSlots :
       /\ First(fd, FreeFds) /\ First(s, FreeSlots)
       /\ file' = [file EXCEPT ![fd] = p]
       /\ slot' = [slot EXCEPT ![s] = fd]
       /\ name' = [name EXCEPT ![s] = NoName]
  /\ backlog' = Tail(backlog)
  /\ joined' = [joined EXCEPT ![p] = Len(log)]
  /\ SendAnyway(p)
  /\ AcceptDone
  /\ UNCHANGED <<peer, sent, taken, log, batch, j>>

(* Slots from i on that the loop will not skip. *)
Mut_ToServe == {s \in Slots : s >= i /\ slot[s] # -1}
ToServe == {s \in Slots : s >= i /\ slot[s] # -1 /\ slot[s] \in rfds}

(* The for loop is over. *)
ScanEnd ==
  /\ pc = "scan"
  /\ ready <= 0 \/ ToServe = {}
  /\ RoundOver
  /\ UNCHANGED <<table, peers, taken, out, history, batch, j>>

(* s is the slot the loop reads from next. *)
Serves(s) == pc = "scan" /\ ready > 0 /\ First(s, ToServe)

Served(s) == i' = s + 1 /\ ready' = ready - 1

(* recv() returned 0 or an error: a dead connection, or a fault. *)
RecvGone(s) ==
  /\ Serves(s)
  /\ \/ peer[Client(s)] = "fin" /\ sent[Client(s)] = taken[Client(s)]
     \/ peer[Client(s)] = "rst"
     \/ "recv" \in Faults
  /\ clients_remove(s)
  /\ Served(s)
  /\ UNCHANGED <<peers, taken, out, history, pc, rfds, batch, j>>

(* recv() returned bytes with which n frames are complete. *)
RecvData(s) ==
  /\ Serves(s)
  /\ batch' \in 1 .. sent[Client(s)] - taken[Client(s)]
  /\ i' = s
  /\ pc' = "drain"
  /\ UNCHANGED <<table, peers, taken, out, history, rfds, ready, j>>

-----------------------------------------------------------------------------
(* The drain loop: on_message for each complete frame of sender slot i.    *)

Msg == Script[Client(i)][taken[Client(i)] + 1]

Draining == pc = "drain" /\ batch > 0

Taken == /\ taken' = [taken EXCEPT ![Client(i)] = @ + 1]
         /\ batch' = batch - 1

DrainEnd ==
  /\ pc = "drain" /\ batch = 0
  /\ pc' = "scan"
  /\ Served(i)
  /\ UNCHANGED <<table, peers, taken, out, history, rfds, batch, j>>

(* Announced length over the limit: the client is dropped. *)
DrainTooLarge ==
  /\ Draining
  /\ Msg.kind = "text" /\ Msg.len > MAX_FRAME_SIZE
  /\ clients_remove(i)
  /\ batch' = 0
  /\ pc' = "scan"
  /\ Served(i)
  /\ UNCHANGED <<peers, taken, out, history, rfds, j>>

(* "/nick x": the name is set and confirmed to the sender. *)
Mut_OnNick ==
  /\ Draining
  /\ Msg.kind = "nick"
  /\ name' = [name EXCEPT ![i] = IF Msg.name = NoName THEN @ ELSE Msg.name]
  /\ SendAnyway(Client(i))
  /\ Taken
  /\ UNCHANGED <<slot, file, peers, history, pc, rfds, ready, i, j>>

OnNick ==
  /\ Draining
  /\ Msg.kind = "nick"
  /\ name' = [name EXCEPT ![i] = Msg.name]
  /\ SendAnyway(Client(i))
  /\ Taken
  /\ UNCHANGED <<slot, file, peers, history, pc, rfds, ready, i, j>>

TextThere == Draining /\ Msg.kind = "text" /\ Msg.len <= MAX_FRAME_SIZE

(* Label and text do not fit into the buffer: the text is dropped. *)
LabelledTooLarge == LabelLen[name[i]] + Msg.len > INBUF_CAP

OnTextSkipped ==
  /\ TextThere /\ LabelledTooLarge
  /\ Taken
  /\ UNCHANGED <<table, peers, out, history, pc, rfds, ready, i, j>>

OnText ==
  /\ TextThere /\ ~LabelledTooLarge
  /\ log' = Append(log, [from  |-> Client(i), no |-> taken[Client(i)] + 1,
                         label |-> name[i],
                         len   |-> LabelLen[name[i]] + Msg.len])
  /\ pc' = "cast"
  /\ j' = 0
  /\ Taken
  /\ UNCHANGED <<table, peers, out, joined, rfds, ready, i>>

-----------------------------------------------------------------------------
(* clients_broadcast_text_framed: one slot after the other.                *)

Mut_CastTo == j \in Slots /\ slot[j] # -1
CastTo == j \in Slots /\ slot[j] # -1 /\ j # i

CastSkip ==
  /\ pc = "cast" /\ j \in Slots /\ ~CastTo
  /\ j' = j + 1
  /\ UNCHANGED <<table, peers, taken, out, history, pc, rfds, ready, i, batch>>

CastSend ==
  /\ pc = "cast" /\ CastTo
  /\ SendOK(Client(j), <<Len(log)>>)
  /\ j' = j + 1
  /\ UNCHANGED <<table, peers, taken, history, pc, rfds, ready, i, batch>>

Mut_CastFails ==
  /\ pc = "cast" /\ CastTo
  /\ SendFails(Client(j))
  /\ clients_remove(j)
  /\ j' = MAX_CLIENTS
  /\ UNCHANGED <<peers, taken, out, history, pc, rfds, ready, i, batch>>

CastFails ==
  /\ pc = "cast" /\ CastTo
  /\ SendFails(Client(j))
  /\ clients_remove(j)
  /\ j' = j + 1
  /\ UNCHANGED <<peers, taken, out, history, pc, rfds, ready, i, batch>>

CastEnd ==
  /\ pc = "cast" /\ j \notin Slots
  /\ pc' = "drain"
  /\ j' = 0
  /\ UNCHANGED <<table, peers, taken, out, history, rfds, ready, i, batch>>

Server ==
  \/ Select \/ SelectError
  \/ AcceptFails \/ Reject \/ Accept
  \/ ScanEnd \/ \E s \in Slots : RecvGone(s) \/ RecvData(s)
  \/ DrainEnd \/ DrainTooLarge \/ OnNick \/ OnTextSkipped \/ OnText
  \/ CastSkip \/ CastSend \/ CastFails \/ CastEnd

-----------------------------------------------------------------------------
(* The peers and the network between.                                      *)

server == <<table, taken, history, pc, loop>>

Connect(p) ==
  /\ peer[p] = "new"
  /\ peer' = [peer EXCEPT ![p] = "up"]
  /\ backlog' = Append(backlog, p)
  /\ UNCHANGED <<server, sent, out>>

(* The connection has not been closed by the server. *)
Connected(p) == p \in Range(file) \/ p \in Range(backlog)

PeerSend(p) ==
  /\ peer[p] = "up" /\ Connected(p)
  /\ sent[p] < Len(Script[p])
  /\ sent' = [sent EXCEPT ![p] = @ + 1]
  /\ UNCHANGED <<server, backlog, peer, out>>

PeerRead(p) ==
  /\ peer[p] # "rst" /\ Connected(p) /\ unread[p] > 0
  /\ unread' = [unread EXCEPT ![p] = 0]
  /\ UNCHANGED <<server, peers, inbox>>

PeerClose(p) ==
  /\ p \in Quits /\ peer[p] \in {"up", "fin"} /\ Connected(p)
  /\ \E s \in {"fin", "rst"} \ {peer[p]} : peer' = [peer EXCEPT ![p] = s]
  /\ UNCHANGED <<server, backlog, sent, out>>

Peer(p) == Connect(p) \/ PeerSend(p) \/ PeerRead(p) \/ PeerClose(p)

Next == Server \/ \E p \in Peers : Peer(p)

Spec == Init /\ [][Next]_vars

(* The server's thread runs whenever it is not blocked, and a peer that is *)
(* not mute reads what has arrived for it sooner or later.                 *)
Fairness ==
  /\ WF_vars(Server)
  /\ \A p \in Peers \ Mute : WF_vars(PeerRead(p))

FairSpec == Spec /\ Fairness

-----------------------------------------------------------------------------
(* Properties.                                                             *)

TypeOK ==
  /\ slot \in [Slots -> FDs \union {-1}]
  /\ name \in [Slots -> Nicks]
  /\ file \in [FDs -> Peers \union {NoPeer}]
  /\ backlog \in Seq(Peers)
  /\ peer \in [Peers -> {"new", "up", "fin", "rst"}]
  /\ sent \in [Peers -> Nat] /\ taken \in [Peers -> Nat]
  /\ inbox \in [Peers -> Seq(Nat)]
  /\ unread \in [Peers -> 0..SNDBUF]
  /\ log \in Seq([from : Peers, no : Nat, label : Nicks, len : Nat])
  /\ joined \in [Peers -> Nat]
  /\ pc \in {"select", "accept", "scan", "drain", "cast", "stopped"}
  /\ rfds \subseteq FDs \union {LFD}
  /\ ready \in 0..MAX_CLIENTS+1
  /\ i \in 0..MAX_CLIENTS /\ j \in 0..MAX_CLIENTS
  /\ batch \in Nat

(* The table and the kernel agree: every occupied slot has a descriptor of *)
(* its own, the open client sockets are exactly the registered ones (none  *)
(* leaks, none is used after close), and no connection is there twice or   *)
(* both accepted and pending (clients_add, clients_remove, the reject path *)
(* of main()).                                                             *)
OneSlotPerSocket ==
  /\ \A s, t \in Slots : s # t /\ slot[s] # -1 => slot[s] # slot[t]
  /\ \A fd \in FDs : file[fd] # NoPeer <=> fd \in Registered
  /\ \A f, g \in FDs : f # g /\ file[f] # NoPeer => file[f] # file[g]
  /\ \A k \in 1..Len(backlog) : backlog[k] \notin Range(file)

(* recv() is only called on a socket that is ready: rfds stays good for    *)
(* the whole round although sockets are closed and opened in it, so the    *)
(* single thread never blocks in recv (the FD_ISSET tests of main()).      *)
RecvNeverBlocks == \A s \in Slots : Serves(s) => Readable(Client(s))

(* The countdown of ready ends the round only when every registered socket *)
(* that select() reported has been read, also when slots are freed or      *)
(* filled in the meantime (--ready in main(), also after the accept).      *)
RoundComplete == [][pc # "select" /\ pc' = "select" => ToServe = {}]_vars

(* The texts p is due: those since it joined that are not its own, which   *)
(* the code leaves out (clients.c:143), although README.md:89 and the      *)
(* comment at clients.c:119 have them sent to their sender, too.           *)
DueTo(p) == {n \in 1..Len(log) : n > joined[p] /\ log[n].from # p}

Rising(seq) == \A k, l \in DOMAIN seq : k < l => seq[k] < seq[l]

(* Between rounds every client in the table has been sent every text of    *)
(* the others since it joined, in order, once, and none of its own,        *)
(* whoever else failed or left during the broadcasts                       *)
(* (clients_broadcast_text_framed goes on after a failed send).            *)
NoGaps ==
  pc = "select" =>
    \A p \in Members : Range(inbox[p]) = DueTo(p) /\ Rising(inbox[p])

(* x is the nickname in force after the first n frames of p: the one it    *)
(* asked for last, or none.                                                *)
Asked(p, n, x) ==
  LET IsNick(m) == Script[p][m].kind = "nick" IN
  \/ x = NoName /\ \A m \in 1..n : ~IsNick(m)
  \/ \E m \in 1..n : /\ IsNick(m) /\ Script[p][m].name = x
                     /\ \A l \in m+1..n : ~IsNick(l)

(* A text is labelled with the nickname its sender asked for last, over    *)
(* this connection: never with one left behind in the slot by another      *)
(* client (name in clients_add and clients_remove, on_message).            *)
LabelIsSenders ==
  \A k \in 1..Len(log) : Asked(log[k].from, log[k].no, log[k].label)

Room == INSTANCE ChatRoom WITH
          members <- Members,
          log     <- [k \in 1..Len(log) |-> log[k].from],
          since   <- joined

(* The server implements the conversation of ChatRoom, in which, as in the *)
(* code and against README.md:89, a sender does not get its own texts.     *)
RefinesRoom == Room!Spec

(* Whatever the server is doing, it comes back to select().                *)
RoundsEnd == pc # "select" ~> pc \in {"select", "stopped"}

(* The frames a client got through to the server are handled, unless the   *)
(* client is dropped: neither busier clients nor a full descriptor table   *)
(* (accept failing in every round) keep it waiting for ever.               *)
EveryoneServed ==
  \A p \in Peers : p \in Members /\ taken[p] < sent[p]
                     ~> taken[p] = sent[p] \/ p \notin Members

(* Descriptors put into an fd_set fit into it.                             *)
FdsFitInSet == Registered \subseteq 0 .. FD_SETSIZE-1
=============================================================================
