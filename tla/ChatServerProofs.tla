-------------------------- MODULE ChatServerProofs --------------------------
(***************************************************************************)
(* Proofs about ChatServer, for every number of peers, slots and           *)
(* descriptors, every script and every mixture of faults.  In this order:  *)
(* the client table and the descriptor table agree; no recv blocks; the    *)
(* countdown of ready is right; the types; nobody misses a text; labels    *)
(* are their sender's; the server implements ChatRoom.  Each part adds its *)
(* conjuncts to the inductive invariant of the one before.                 *)
(***************************************************************************)
EXTENDS ChatServer, SequenceTheorems, FiniteSetTheorems, TLAPS

(***************************************************************************)
(* The inductive invariant about the tables.  OneSlotPerSocket lacks that  *)
(* a pending connection is pending once and is not one that has yet to     *)
(* connect (else accepting it could double a socket), and that the slot    *)
(* the round is busy with is occupied (else clients_remove would close     *)
(* descriptor -1).                                                         *)
(***************************************************************************)
TableTypes ==
  /\ slot \in [Slots -> FDs \union {-1}]
  /\ file \in [FDs -> Peers \union {NoPeer}]
  /\ backlog \in Seq(Peers)
  /\ DOMAIN peer = Peers

Pending ==
  /\ \A k, l \in 1..Len(backlog) : k # l => backlog[k] # backlog[l]
  /\ \A k \in 1..Len(backlog) : peer[backlog[k]] # "new"
  /\ \A fd \in FDs : file[fd] # NoPeer => peer[file[fd]] # "new"

Tables == TableTypes /\ OneSlotPerSocket /\ Pending

Turn ==
  /\ pc = "accept" => backlog # <<>>
  /\ pc \in {"drain", "cast"} => i \in Slots /\ slot[i] # -1

TInv == Tables /\ Turn

LEMMA FDsAreNat == FDs \subseteq Nat /\ -1 \notin FDs /\ LFD \notin FDs
BY ServerAssumption DEF FDs

LEMMA Occupied ==
  ASSUME TableTypes, NEW s \in Slots, slot[s] # -1
  PROVE  slot[s] \in FDs /\ slot[s] \in Registered
BY DEF TableTypes, Registered

(* Steps that leave the tables alone. *)
LEMMA TablesFrame ==
  ASSUME Tables, UNCHANGED <<slot, file, backlog>>, DOMAIN peer' = Peers,
         \A p \in Peers : peer[p] # "new" => peer'[p] # "new"
  PROVE  Tables'
<1>1. TableTypes' BY DEF Tables, TableTypes
<1>2. OneSlotPerSocket'
  BY DEF Tables, OneSlotPerSocket, Registered, Range
<1>3. Pending'
  <2>1. \A k \in 1..Len(backlog) : backlog[k] \in Peers
    BY DEF Tables, TableTypes
  <2>2. \A fd \in FDs : file[fd] # NoPeer => file[fd] \in Peers
    BY DEF Tables, TableTypes
  <2> QED BY <2>1, <2>2 DEF Tables, Pending
<1> QED BY <1>1, <1>2, <1>3 DEF Tables

(* Freeing an occupied slot. *)
LEMMA TablesRemove ==
  ASSUME Tables, NEW s \in Slots, slot[s] # -1, clients_remove(s),
         UNCHANGED <<backlog, peer>>
  PROVE  Tables'
<1> USE FDsAreNat
<1>1. slot[s] \in FDs BY Occupied DEF Tables
<1>2. /\ slot' = [slot EXCEPT ![s] = -1]
      /\ file' = [file EXCEPT ![slot[s]] = NoPeer]
      /\ slot \in [Slots -> FDs \union {-1}]
      /\ file \in [FDs -> Peers \union {NoPeer}]
  BY DEF clients_remove, Tables, TableTypes
<1>3. TableTypes' BY <1>1, <1>2 DEF Tables, TableTypes
<1>4. \A t \in Slots : slot'[t] = IF t = s THEN -1 ELSE slot[t]
  BY <1>2
<1>5. \A fd \in FDs : file'[fd] = IF fd = slot[s] THEN NoPeer ELSE file[fd]
  BY <1>1, <1>2
<1>6. \A f, t \in Slots : f # t /\ slot[f] # -1 => slot[f] # slot[t]
  BY DEF Tables, OneSlotPerSocket
<1>7. \A f, t \in Slots : f # t /\ slot'[f] # -1 => slot'[f] # slot'[t]
  BY <1>4, <1>6
<1>8. \A fd \in FDs : file'[fd] # NoPeer <=> fd \in Registered'
  <2> SUFFICES ASSUME NEW fd \in FDs
               PROVE  file'[fd] # NoPeer <=> \E t \in Slots : slot'[t] = fd
    BY DEF Registered
  <2>1. file[fd] # NoPeer <=> \E t \in Slots : slot[t] = fd
    BY DEF Tables, OneSlotPerSocket, Registered
  <2>2. CASE fd = slot[s]
    <3>1. \A t \in Slots : slot'[t] # fd BY <1>1, <1>4, <1>6, <2>2
    <3> QED BY <1>5, <2>2, <3>1
  <2>3. CASE fd # slot[s]
    <3>1. (\E t \in Slots : slot'[t] = fd) <=> (\E t \in Slots : slot[t] = fd)
      BY <1>4, <2>3
    <3> QED BY <1>5, <2>1, <2>3, <3>1
  <2> QED BY <2>2, <2>3
<1>9. \A f, g \in FDs : f # g /\ file'[f] # NoPeer => file'[f] # file'[g]
  BY <1>5 DEF Tables, OneSlotPerSocket
<1>10. \A k \in 1..Len(backlog') : backlog'[k] \notin Range(file')
  <2>1. ASSUME NEW k \in 1..Len(backlog), NEW fd \in FDs
        PROVE  backlog[k] # file'[fd]
    <3>1. backlog[k] \in Peers /\ backlog[k] # NoPeer
      BY ServerAssumption DEF Tables, TableTypes
    <3>2. backlog[k] # file[fd]
      BY <1>2 DEF Tables, OneSlotPerSocket, Range
    <3> QED BY <1>5, <3>1, <3>2
  <2> QED BY <1>2, <2>1 DEF Range
<1>11. OneSlotPerSocket' BY <1>7, <1>8, <1>9, <1>10 DEF OneSlotPerSocket
<1>12. Pending' BY <1>5 DEF Tables, Pending
<1> QED BY <1>3, <1>11, <1>12 DEF Tables

(* What is left of the backlog when its head is taken. *)
LEMMA BacklogTail ==
  ASSUME backlog \in Seq(Peers), backlog # <<>>
  PROVE  /\ Head(backlog) = backlog[1] /\ 1 \in 1..Len(backlog)
         /\ Tail(backlog) \in Seq(Peers)
         /\ \A k \in 1..Len(Tail(backlog)) :
               k+1 \in 1..Len(backlog) /\ Tail(backlog)[k] = backlog[k+1]
BY HeadTailProperties

(* Rejecting the head of the backlog. *)
LEMMA TablesReject ==
  ASSUME Tables, backlog # <<>>, backlog' = Tail(backlog),
         UNCHANGED <<slot, file, peer>>
  PROVE  Tables'
<1>1. /\ Tail(backlog) \in Seq(Peers)
      /\ \A k \in 1..Len(Tail(backlog)) :
            k+1 \in 1..Len(backlog) /\ Tail(backlog)[k] = backlog[k+1]
  BY BacklogTail DEF Tables, TableTypes
<1>2. TableTypes' BY <1>1 DEF Tables, TableTypes
<1>3. OneSlotPerSocket'
  BY <1>1 DEF Tables, OneSlotPerSocket, Registered
<1>4. Pending'
  <2>1. \A k, l \in 1..Len(Tail(backlog)) : k # l =>
          Tail(backlog)[k] # Tail(backlog)[l]
    <3> SUFFICES ASSUME NEW k \in 1..Len(Tail(backlog)),
                        NEW l \in 1..Len(Tail(backlog)), k # l
                 PROVE  Tail(backlog)[k] # Tail(backlog)[l]
      OBVIOUS
    <3>1. k+1 # l+1 OBVIOUS
    <3> QED BY <1>1, <3>1 DEF Tables, Pending
  <2> QED BY <1>1, <2>1 DEF Tables, Pending
<1> QED BY <1>2, <1>3, <1>4 DEF Tables

(* Giving the head of the backlog a free descriptor and a free slot. *)
LEMMA TablesAccept ==
  ASSUME Tables, backlog # <<>>, NEW fd \in FreeFds, NEW s \in FreeSlots,
         file' = [file EXCEPT ![fd] = Head(backlog)],
         slot' = [slot EXCEPT ![s] = fd],
         backlog' = Tail(backlog), UNCHANGED peer
  PROVE  Tables'
<1> USE FDsAreNat
<1> DEFINE p == Head(backlog)
<1>1. /\ p = backlog[1] /\ 1 \in 1..Len(backlog)
      /\ Tail(backlog) \in Seq(Peers)
      /\ \A k \in 1..Len(Tail(backlog)) :
            /\ k+1 \in 1..Len(backlog) /\ k+1 # 1
            /\ Tail(backlog)[k] = backlog[k+1]
  BY BacklogTail DEF Tables, TableTypes
<1>2. p \in Peers /\ p # NoPeer /\ p \notin Range(file) /\ peer[p] # "new"
  BY <1>1, ServerAssumption DEF Tables, TableTypes, OneSlotPerSocket, Pending
<1>3. fd \in FDs /\ file[fd] = NoPeer /\ s \in Slots /\ slot[s] = -1
  BY DEF FreeFds, FreeSlots
<1> HIDE DEF p
<1>4. \A g \in FDs : file'[g] = IF g = fd THEN p ELSE file[g]
  BY <1>3 DEF Tables, TableTypes, p
<1>5. \A t \in Slots : slot'[t] = IF t = s THEN fd ELSE slot[t]
  BY <1>3 DEF Tables, TableTypes
<1>6. TableTypes' BY <1>1, <1>2, <1>3 DEF Tables, TableTypes, p
<1>7. \A t \in Slots : slot[t] # fd
  BY <1>3 DEF Tables, OneSlotPerSocket, Registered
<1>8. \A t, u \in Slots : t # u /\ slot'[t] # -1 => slot'[t] # slot'[u]
  BY <1>3, <1>5, <1>7 DEF Tables, OneSlotPerSocket
<1>9. \A g \in FDs : file'[g] # NoPeer <=> g \in Registered'
  <2> SUFFICES ASSUME NEW g \in FDs
               PROVE  file'[g] # NoPeer <=> \E t \in Slots : slot'[t] = g
    BY DEF Registered
  <2>1. file[g] # NoPeer <=> \E t \in Slots : slot[t] = g
    BY DEF Tables, OneSlotPerSocket, Registered
  <2>2. CASE g = fd BY <1>2, <1>3, <1>4, <1>5, <2>2
  <2>3. CASE g # fd
    <3>1. (\E t \in Slots : slot'[t] = g) <=> (\E t \in Slots : slot[t] = g)
      BY <1>3, <1>5, <2>3
    <3> QED BY <1>4, <2>1, <2>3, <3>1
  <2> QED BY <2>2, <2>3
<1>10. \A g \in FDs : file[g] # p
  BY <1>2 DEF Range, Tables, TableTypes
<1>11. \A f, g \in FDs : f # g /\ file'[f] # NoPeer => file'[f] # file'[g]
  BY <1>2, <1>3, <1>4, <1>10 DEF Tables, OneSlotPerSocket
<1>12. \A k \in 1..Len(backlog') : backlog'[k] \notin Range(file')
  <2>1. ASSUME NEW k \in 1..Len(Tail(backlog)), NEW g \in FDs
        PROVE  Tail(backlog)[k] # file'[g]
    <3>1. k+1 \in 1..Len(backlog) /\ Tail(backlog)[k] = backlog[k+1]
          /\ backlog[k+1] # p
      BY <1>1 DEF Tables, Pending
    <3>2. backlog[k+1] # file[g]
      BY <3>1 DEF Tables, TableTypes, OneSlotPerSocket, Range
    <3> QED BY <1>4, <3>1, <3>2
  <2>2. DOMAIN file' = FDs BY <1>6 DEF TableTypes
  <2> QED BY <2>1, <2>2 DEF Range
<1>13. OneSlotPerSocket' BY <1>8, <1>9, <1>11, <1>12 DEF OneSlotPerSocket
<1>14. Pending'
  <2>1. \A k, l \in 1..Len(Tail(backlog)) : k # l =>
          Tail(backlog)[k] # Tail(backlog)[l]
    <3> SUFFICES ASSUME NEW k \in 1..Len(Tail(backlog)),
                        NEW l \in 1..Len(Tail(backlog)), k # l
                 PROVE  Tail(backlog)[k] # Tail(backlog)[l]
      OBVIOUS
    <3>1. k+1 # l+1 OBVIOUS
    <3> QED BY <1>1, <3>1 DEF Tables, Pending
  <2>2. \A k \in 1..Len(Tail(backlog)) : peer[Tail(backlog)[k]] # "new"
    BY <1>1 DEF Tables, Pending
  <2>3. \A g \in FDs : file'[g] # NoPeer => peer[file'[g]] # "new"
    BY <1>2, <1>4 DEF Tables, Pending
  <2> QED BY <2>1, <2>2, <2>3 DEF Pending
<1> QED BY <1>6, <1>13, <1>14 DEF Tables

(* A connection arrives. *)
LEMMA TablesConnect ==
  ASSUME Tables, NEW p \in Peers, Connect(p)
  PROVE  Tables'
<1>1. /\ backlog \in Seq(Peers) /\ backlog' = Append(backlog, p)
      /\ peer[p] = "new" /\ DOMAIN peer = Peers
      /\ peer' = [peer EXCEPT ![p] = "up"]
      /\ UNCHANGED <<slot, file>>
  BY DEF Tables, TableTypes, Connect, server, table
<1>2. /\ backlog' \in Seq(Peers)
      /\ Len(backlog') = Len(backlog) + 1 /\ Len(backlog) \in Nat
      /\ \A k \in 1..Len(backlog) : backlog'[k] = backlog[k]
      /\ backlog'[Len(backlog) + 1] = p
  BY <1>1
<1>3. \A k \in 1..Len(backlog') :
        \/ k \in 1..Len(backlog) /\ backlog'[k] = backlog[k]
        \/ k = Len(backlog) + 1 /\ backlog'[k] = p
  BY <1>2
<1>4. /\ \A k \in 1..Len(backlog) : backlog[k] \in Peers /\ backlog[k] # p
      /\ \A fd \in FDs : file[fd] # p
  <2>1. \A k \in 1..Len(backlog) : backlog[k] \in Peers BY <1>1
  <2>2. p # NoPeer BY ServerAssumption
  <2> QED BY <1>1, <2>1, <2>2 DEF Tables, Pending
<1>5. TableTypes' BY <1>1, <1>2 DEF Tables, TableTypes
<1>6. OneSlotPerSocket'
  <2>1. p \notin Range(file) BY <1>4 DEF Range, Tables, TableTypes
  <2>2. \A k \in 1..Len(backlog') : backlog'[k] \notin Range(file)
    BY <1>3, <2>1 DEF Tables, OneSlotPerSocket
  <2> QED BY <1>1, <2>2 DEF Tables, OneSlotPerSocket, Registered
<1>7. Pending'
  <2>1. \A k, l \in 1..Len(backlog') : k # l => backlog'[k] # backlog'[l]
    BY <1>3, <1>4 DEF Tables, Pending
  <2>2. \A q \in Peers : peer'[q] = IF q = p THEN "up" ELSE peer[q]
    BY <1>1
  <2>3. \A k \in 1..Len(backlog') : peer'[backlog'[k]] # "new"
    BY <1>3, <1>4, <2>2 DEF Tables, Pending
  <2>4. \A fd \in FDs : file[fd] # NoPeer => file[fd] \in Peers
    BY DEF Tables, TableTypes
  <2>5. \A fd \in FDs : file'[fd] # NoPeer => peer'[file'[fd]] # "new"
    BY <1>1, <2>2, <2>4 DEF Tables, Pending
  <2> QED BY <2>1, <2>3, <2>5 DEF Pending
<1> QED BY <1>5, <1>6, <1>7 DEF Tables

-----------------------------------------------------------------------------
LEMMA InitTInv == Init => TInv
<1> SUFFICES ASSUME Init PROVE TInv OBVIOUS
<1> USE FDsAreNat DEF Init
<1>1. TableTypes BY DEF TableTypes
<1>2. OneSlotPerSocket BY DEF OneSlotPerSocket, Registered
<1>3. Pending BY DEF Pending
<1>4. Turn BY DEF Turn
<1> QED BY <1>1, <1>2, <1>3, <1>4 DEF TInv, Tables

LEMMA NextTInv == TInv /\ [Next]_vars => TInv'
<1> SUFFICES ASSUME TInv, [Next]_vars PROVE TInv' OBVIOUS
<1> USE DEF TInv
<1>f. DOMAIN peer = Peers BY DEF Tables, TableTypes
<1>1. CASE Select
  <2>1. Tables' BY <1>1, <1>f, TablesFrame DEF Select, table, peers
  <2>2. LFD \in ReadyFds => backlog # <<>>
    <3>1. LFD \notin Registered
      BY FDsAreNat, ServerAssumption DEF Tables, TableTypes, Registered
    <3> QED BY <3>1 DEF ReadyFds
  <2> QED BY <1>1, <2>1, <2>2 DEF Select, Turn, table, peers
<1>2. CASE SelectError
  BY <1>2, <1>f, TablesFrame DEF SelectError, Turn, table, peers, loop
<1>3. CASE AcceptFails
  BY <1>3, <1>f, TablesFrame
     DEF AcceptFails, AcceptDone, RoundOver, Turn, table, peers
<1>4. CASE Reject
  BY <1>4, TablesReject DEF Reject, AcceptDone, RoundOver, Turn, table
<1>5. CASE Accept
  <2>1. PICK fd \in FreeFds, s \in FreeSlots :
          /\ file' = [file EXCEPT ![fd] = Head(backlog)]
          /\ slot' = [slot EXCEPT ![s] = fd]
    BY <1>5 DEF Accept
  <2>2. Tables' BY <1>5, <2>1, TablesAccept DEF Accept, Turn
  <2> QED BY <1>5, <2>2 DEF Accept, AcceptDone, RoundOver, Turn
<1>6. CASE ScanEnd
  BY <1>6, <1>f, TablesFrame DEF ScanEnd, RoundOver, Turn, table, peers
<1>7. ASSUME NEW s \in Slots, RecvGone(s) PROVE TInv'
  <2>1. s \in Slots /\ slot[s] # -1 /\ pc = "scan"
    BY <1>7 DEF RecvGone, Serves, First, ToServe
  <2> QED BY <1>7, <2>1, TablesRemove DEF RecvGone, Turn, peers
<1>8. ASSUME NEW s \in Slots, RecvData(s) PROVE TInv'
  <2>1. s \in Slots /\ slot[s] # -1
    BY <1>8 DEF RecvData, Serves, First, ToServe
  <2> QED BY <1>8, <1>f, <2>1, TablesFrame DEF RecvData, Turn, table, peers
<1>9. CASE DrainEnd
  BY <1>9, <1>f, TablesFrame DEF DrainEnd, Turn, table, peers
<1>10. CASE DrainTooLarge
  BY <1>10, TablesRemove DEF DrainTooLarge, Draining, Turn, peers
<1>11. CASE OnNick
  BY <1>11, <1>f, TablesFrame DEF OnNick, Draining, Turn, peers
<1>12. CASE OnTextSkipped
  BY <1>12, <1>f, TablesFrame DEF OnTextSkipped, TextThere, Draining, Turn, table, peers
<1>13. CASE OnText
  BY <1>13, <1>f, TablesFrame DEF OnText, TextThere, Draining, Turn, table, peers
<1>14. CASE CastSkip
  BY <1>14, <1>f, TablesFrame DEF CastSkip, Turn, table, peers
<1>15. CASE CastSend
  BY <1>15, <1>f, TablesFrame DEF CastSend, Turn, table, peers
<1>16. CASE CastFails
  <2>1. j \in Slots /\ slot[j] # -1 /\ j # i
    BY <1>16 DEF CastFails, CastTo
  <2>2. Tables' BY <1>16, <2>1, TablesRemove DEF CastFails, peers
  <2>3. slot'[i] = slot[i]
    BY <1>16, <2>1 DEF CastFails, clients_remove, Turn, Tables, TableTypes
  <2> QED BY <1>16, <2>2, <2>3 DEF CastFails, Turn
<1>17. CASE CastEnd
  BY <1>17, <1>f, TablesFrame DEF CastEnd, Turn, table, peers
<1>18. ASSUME NEW p \in Peers, Connect(p) PROVE TInv'
  <2>1. Tables' BY <1>18, TablesConnect
  <2>2. backlog' # <<>>
    BY <1>18 DEF Connect, Tables, TableTypes
  <2> QED BY <1>18, <2>1, <2>2 DEF Connect, server, table, loop, Turn
<1>19. ASSUME NEW p \in Peers, PeerSend(p) PROVE TInv'
  BY <1>19, <1>f, TablesFrame DEF PeerSend, server, table, loop, Turn
<1>20. ASSUME NEW p \in Peers, PeerRead(p) PROVE TInv'
  BY <1>20, <1>f, TablesFrame DEF PeerRead, server, table, loop, peers, Turn
<1>21. ASSUME NEW p \in Peers, PeerClose(p) PROVE TInv'
  <2>1. /\ DOMAIN peer' = Peers
        /\ \A q \in Peers : peer[q] # "new" => peer'[q] # "new"
    BY <1>21, <1>f DEF PeerClose
  <2> QED BY <1>21, <2>1, TablesFrame DEF PeerClose, server, table, loop, Turn
<1>22. CASE UNCHANGED vars
  BY <1>22, <1>f, TablesFrame DEF vars, table, peers, loop, Turn
<1> QED BY <1>1, <1>2, <1>3, <1>4, <1>5, <1>6, <1>7, <1>8, <1>9, <1>10, <1>11,
           <1>12, <1>13, <1>14, <1>15, <1>16, <1>17, <1>18, <1>19, <1>20,
           <1>21, <1>22
        DEF Next, Server, Peer

LEMMA TablesInvariant == Spec => []TInv
BY InitTInv, NextTInv, PTL DEF Spec

(* Slots and descriptors stay in step: no descriptor leaks, none is used   *)
(* after it was closed, none is shared by two slots.                       *)
THEOREM SlotsMatchSockets == Spec => []OneSlotPerSocket
BY TablesInvariant, PTL DEF TInv, Tables

(* The select loop stays inside its fd_set when the process is not allowed *)
(* more descriptors than an fd_set has room for: the limit that keeps      *)
(* clients_build_readfds safe is the process's, not MAX_CLIENTS.           *)
THEOREM FdSetIsLargeEnough ==
  ASSUME FD_SETSIZE \in Nat, MAX_FILES <= FD_SETSIZE
  PROVE  Spec => []FdsFitInSet
<1>1. TInv => FdsFitInSet
  <2> SUFFICES ASSUME TInv, NEW fd \in Registered
               PROVE  fd \in 0 .. FD_SETSIZE-1
    BY DEF FdsFitInSet
  <2>1. fd \in FDs BY DEF TInv, Tables, TableTypes, Registered
  <2> QED BY <2>1, ServerAssumption DEF FDs
<1> QED BY <1>1, TablesInvariant, PTL

-----------------------------------------------------------------------------
(***************************************************************************)
(* recv never blocks.  The slots the round has not come to yet and that    *)
(* rfds names are readable: what was readable stays so until it is read,   *)
(* only the slot being served is read, a freed slot is not in rfds, and a  *)
(* descriptor opened in this round was not registered when select() ran.   *)
(***************************************************************************)
RoundTypes ==
  /\ sent \in [Peers -> Nat] /\ taken \in [Peers -> Nat]
  /\ rfds \subseteq FDs \union {LFD}
  /\ i \in Int

Rest == IF pc = "scan" THEN {s \in Slots : s >= i} ELSE {s \in Slots : s > i}

StillReady ==
  /\ pc = "accept" => \A fd \in rfds \ {LFD} :
                        fd \in Registered /\ Readable(file[fd])
  /\ pc \in {"scan", "drain", "cast"} =>
       \A s \in Rest : slot[s] \in rfds => Readable(Client(s))

RInv == TInv /\ RoundTypes /\ StillReady

(* Registered connections are connections, and no two slots share one. *)
LEMMA ClientsDiffer ==
  ASSUME Tables, NEW s \in Slots, slot[s] # -1
  PROVE  /\ Client(s) \in Peers
         /\ \A t \in Slots : t # s /\ slot[t] # -1 => Client(t) # Client(s)
<1>1. slot[s] \in FDs /\ file[slot[s]] # NoPeer
  BY Occupied DEF Tables, OneSlotPerSocket
<1>2. Client(s) \in Peers BY <1>1 DEF Client, Tables, TableTypes
<1>3. ASSUME NEW t \in Slots, t # s, slot[t] # -1 PROVE Client(t) # Client(s)
  <2>1. slot[t] \in FDs BY <1>3, Occupied DEF Tables
  <2>2. slot[t] # slot[s] BY <1>3 DEF Tables, OneSlotPerSocket
  <2> QED BY <1>1, <2>1, <2>2 DEF Client, Tables, OneSlotPerSocket
<1> QED BY <1>2, <1>3

(* A slot in rfds is occupied: the round skips the free ones. *)
LEMMA ReadyIsOccupied ==
  ASSUME RoundTypes, Tables, NEW s \in Slots, slot[s] \in rfds
  PROVE  slot[s] # -1 /\ slot[s] \in FDs /\ slot[s] # LFD
BY FDsAreNat, ServerAssumption, Occupied DEF RoundTypes, Tables, TableTypes

(* Readability survives whatever is not a read. *)
LEMMA ReadableKept ==
  ASSUME NEW p \in Peers, RoundTypes, Readable(p), taken'[p] = taken[p],
         sent'[p] \in Nat, sent'[p] >= sent[p],
         peer[p] \in {"fin", "rst"} => peer'[p] \in {"fin", "rst"}
  PROVE  Readable(p)'
BY DEF Readable, RoundTypes

(* Freeing slot s leaves the other slots and their connections alone. *)
LEMMA RemoveOthers ==
  ASSUME Tables, NEW s \in Slots, slot[s] # -1, clients_remove(s),
         NEW t \in Slots, t # s, slot[t] # -1
  PROVE  slot'[t] = slot[t] /\ Client(t)' = Client(t)
<1>1. slot[t] # slot[s] /\ slot[t] \in FDs /\ slot[s] \in FDs
  BY Occupied DEF Tables, OneSlotPerSocket
<1>2. slot'[t] = slot[t] /\ slot'[s] = -1
  BY DEF clients_remove, Tables, TableTypes
<1> QED BY <1>1, <1>2 DEF clients_remove, Client, Tables, TableTypes

(* Steps within the scan, the drain and the broadcast: it is enough that   *)
(* the slots still to come were to come before and were not touched.       *)
LEMMA RestKept ==
  ASSUME RInv, pc \in {"scan", "drain", "cast"}, pc' # "accept",
         UNCHANGED <<rfds, sent, peer>>,
         \A t \in Slots : t \in Rest' /\ slot'[t] \in rfds =>
            /\ t \in Rest /\ slot'[t] = slot[t] /\ Client(t)' = Client(t)
            /\ taken'[Client(t)] = taken[Client(t)]
  PROVE  StillReady'
<1> SUFFICES ASSUME NEW t \in Slots, t \in Rest', slot'[t] \in rfds
             PROVE  Readable(Client(t))'
  BY DEF StillReady, Rest
<1>1. Readable(Client(t)) BY DEF RInv, StillReady
<1>2. Client(t) \in Peers
  BY ReadyIsOccupied, ClientsDiffer DEF RInv, TInv
<1>3. Readable(Client(t)) = (sent[Client(t)] > taken[Client(t)]
                              \/ peer[Client(t)] \in {"fin", "rst"})
  BY DEF Readable
<1> QED BY <1>1, <1>2, <1>3 DEF Readable

LEMMA InitRInv == Init => RInv
<1> SUFFICES ASSUME Init PROVE RInv OBVIOUS
<1>1. RoundTypes /\ StillReady BY DEF Init, RoundTypes, StillReady
<1> QED BY <1>1, InitTInv DEF RInv

(* The step of a round that opens the scan. *)
LEMMA ScanOpens ==
  ASSUME RInv, pc = "accept", AcceptDone, UNCHANGED <<sent, peer, taken>>,
         \A s \in Slots : slot'[s] # LFD,
         \A s \in Slots : slot'[s] \in rfds \ {LFD} =>
            slot'[s] = slot[s] /\ Client(s)' = Client(s)
  PROVE  StillReady' /\ RoundTypes'
<1>1. RoundTypes'
  BY DEF RInv, RoundTypes, AcceptDone, RoundOver
<1>2. ASSUME NEW s \in Slots, slot'[s] \in rfds \ {LFD}
      PROVE  Readable(Client(s))'
  <2>1. slot[s] \in Registered /\ Readable(Client(s))
    BY <1>2 DEF RInv, StillReady, Client
  <2> QED BY <1>2, <2>1 DEF Readable
<1>3. CASE pc' = "select" BY <1>1, <1>3 DEF StillReady
<1>4. CASE pc' = "scan" /\ rfds' = rfds
  BY <1>1, <1>2, <1>4 DEF StillReady, Rest
<1> QED BY <1>3, <1>4 DEF AcceptDone, RoundOver

LEMMA NextRInv == RInv /\ [Next]_vars => RInv'
<1> SUFFICES ASSUME RInv, [Next]_vars PROVE RInv' OBVIOUS
<1>t. TInv' BY NextTInv DEF RInv
<1>s. ASSUME NEW s \in Slots PROVE slot'[s] # LFD
  BY <1>t, FDsAreNat, ServerAssumption DEF TInv, Tables, TableTypes
<1> SUFFICES RoundTypes' /\ StillReady' BY <1>t DEF RInv
<1> USE DEF RInv, TInv
<1>1. CASE Select
  <2>1. ReadyFds \subseteq FDs \union {LFD}
    BY FDsAreNat DEF ReadyFds, Registered, Tables, TableTypes
  <2>2. RoundTypes' BY <1>1, <2>1 DEF Select, RoundTypes, peers, out
  <2>3. \A fd \in ReadyFds \ {LFD} : fd \in Registered /\ Readable(file[fd])
    BY DEF ReadyFds
  <2>4. /\ UNCHANGED <<slot, file, sent, taken, peer>> /\ rfds' = ReadyFds
        /\ Registered' = Registered
        /\ pc' = IF LFD \in ReadyFds THEN "accept" ELSE "scan"
    BY <1>1 DEF Select, table, peers, Registered
  <2>5. \A fd \in ReadyFds \ {LFD} : Readable(file[fd])'
    BY <2>3, <2>4 DEF Readable
  <2>6. CASE LFD \in ReadyFds
    BY <2>2, <2>3, <2>4, <2>5, <2>6 DEF StillReady, Readable
  <2>7. CASE LFD \notin ReadyFds
    <3>1. \A s \in Slots : slot'[s] \in ReadyFds => Readable(Client(s))'
      BY <2>4, <2>5, <2>7 DEF Client
    <3>2. Rest' \subseteq Slots BY DEF Rest
    <3> QED BY <2>2, <2>4, <2>7, <3>1, <3>2 DEF StillReady, Readable, Client
  <2> QED BY <2>6, <2>7
<1>2. CASE SelectError
  BY <1>2 DEF SelectError, RoundTypes, StillReady, peers, loop
<1>3. CASE AcceptFails
  BY <1>3, <1>s, ScanOpens DEF AcceptFails, table, peers, Client
<1>4. CASE Reject
  BY <1>4, <1>s, ScanOpens DEF Reject, table, Client
<1>5. CASE Accept
  <2>1. PICK fd \in FreeFds, s \in FreeSlots :
          /\ file' = [file EXCEPT ![fd] = Head(backlog)]
          /\ slot' = [slot EXCEPT ![s] = fd]
    BY <1>5 DEF Accept
  <2>2. fd \notin Registered /\ fd \in FDs
    BY <2>1 DEF FreeFds, Tables, OneSlotPerSocket
  <2>3. fd \notin rfds \ {LFD} BY <1>5, <2>2 DEF Accept, StillReady
  <2>4. ASSUME NEW t \in Slots, slot'[t] \in rfds \ {LFD}
        PROVE  slot'[t] = slot[t] /\ Client(t)' = Client(t)
    <3>1. slot'[t] = slot[t]
      BY <2>1, <2>3, <2>4 DEF Tables, TableTypes, FreeSlots
    <3>2. slot[t] # fd BY <2>3, <2>4, <3>1
    <3> QED BY <2>1, <2>2, <3>1, <3>2 DEF Client, Tables, TableTypes
  <2> QED BY <1>5, <1>s, <2>4, ScanOpens DEF Accept
<1>6. CASE ScanEnd
  BY <1>6 DEF ScanEnd, RoundOver, RoundTypes, StillReady, peers
<1>7. ASSUME NEW s \in Slots, RecvGone(s) PROVE RoundTypes' /\ StillReady'
  <2>1. s >= i /\ slot[s] # -1 /\ pc = "scan" /\ s \in Int
    BY <1>7, ServerAssumption DEF RecvGone, Serves, First, ToServe, Slots
  <2>2. RoundTypes'
    BY <1>7, <2>1 DEF RecvGone, Served, RoundTypes, peers
  <2>3. ASSUME NEW t \in Slots, t \in Rest', slot'[t] \in rfds
        PROVE  t \in Rest /\ slot'[t] = slot[t] /\ Client(t)' = Client(t)
    <3>1. t \in Rest /\ t # s
      BY <1>7, <2>1, <2>3, ServerAssumption
         DEF RecvGone, Served, Rest, Slots, RoundTypes
    <3>2. slot'[t] = slot[t]
      BY <1>7, <3>1 DEF RecvGone, clients_remove, Tables, TableTypes
    <3>3. slot[t] # -1 BY <2>3, <3>2, ReadyIsOccupied
    <3> QED BY <1>7, <2>1, <3>1, <3>3, RemoveOthers DEF RecvGone
  <2> QED BY <1>7, <2>1, <2>2, <2>3, RestKept DEF RecvGone, peers
<1>8. ASSUME NEW s \in Slots, RecvData(s) PROVE RoundTypes' /\ StillReady'
  <2>1. s >= i /\ pc = "scan" /\ s \in Int
    BY <1>8, ServerAssumption DEF RecvData, Serves, First, ToServe, Slots
  <2>2. RoundTypes' BY <1>8, <2>1 DEF RecvData, RoundTypes, peers
  <2>3. ASSUME NEW t \in Slots, t \in Rest'
        PROVE  t \in Rest /\ slot'[t] = slot[t] /\ Client(t)' = Client(t)
    BY <1>8, <2>1, <2>3, ServerAssumption
       DEF RecvData, Rest, Slots, RoundTypes, table, Client
  <2> QED BY <1>8, <2>1, <2>2, <2>3, RestKept DEF RecvData, peers
<1>9. CASE DrainEnd
  <2>1. RoundTypes' BY <1>9 DEF DrainEnd, Served, RoundTypes, peers
  <2>2. ASSUME NEW t \in Slots, t \in Rest'
        PROVE  t \in Rest /\ slot'[t] = slot[t] /\ Client(t)' = Client(t)
    BY <1>9, <2>2, ServerAssumption
       DEF DrainEnd, Served, Rest, Slots, RoundTypes, table, Client
  <2> QED BY <1>9, <2>1, <2>2, RestKept DEF DrainEnd, peers
<1>10. CASE DrainTooLarge
  <2>1. i \in Slots /\ slot[i] # -1 /\ pc = "drain"
    BY <1>10 DEF DrainTooLarge, Draining, Turn
  <2>2. RoundTypes' BY <1>10 DEF DrainTooLarge, Served, RoundTypes, peers
  <2>3. ASSUME NEW t \in Slots, t \in Rest', slot'[t] \in rfds
        PROVE  t \in Rest /\ slot'[t] = slot[t] /\ Client(t)' = Client(t)
    <3>1. t \in Rest /\ t # i
      BY <1>10, <2>1, <2>3, ServerAssumption
         DEF DrainTooLarge, Served, Rest, Slots, RoundTypes
    <3>2. slot'[t] = slot[t]
      BY <1>10, <3>1 DEF DrainTooLarge, clients_remove, Tables, TableTypes
    <3>3. slot[t] # -1 BY <2>3, <3>2, ReadyIsOccupied
    <3> QED BY <1>10, <2>1, <3>1, <3>3, RemoveOthers DEF DrainTooLarge
  <2> QED BY <1>10, <2>1, <2>2, <2>3, RestKept DEF DrainTooLarge, peers
<1>11. ASSUME Draining, Taken, UNCHANGED <<slot, file, sent, peer, rfds, i>>,
              pc' \in {"drain", "cast"}
       PROVE  RoundTypes' /\ StillReady'
  <2>1. i \in Slots /\ slot[i] # -1 /\ pc = "drain"
    BY <1>11 DEF Draining, Turn
  <2>2. Client(i) \in Peers BY <2>1, ClientsDiffer
  <2>3. /\ taken' \in [Peers -> Nat]
        /\ \A p \in Peers : p # Client(i) => taken'[p] = taken[p]
    BY <1>11, <2>2 DEF Taken, RoundTypes
  <2>4. RoundTypes' BY <1>11, <2>3 DEF RoundTypes
  <2>5. ASSUME NEW t \in Slots, t \in Rest', slot'[t] \in rfds
        PROVE  /\ t \in Rest /\ slot'[t] = slot[t] /\ Client(t)' = Client(t)
               /\ taken'[Client(t)] = taken[Client(t)]
    <3>1. t \in Rest /\ t # i
      BY <1>11, <2>1, <2>5, ServerAssumption DEF Rest, Slots, RoundTypes
    <3>2. slot[t] # -1 BY <1>11, <2>5, ReadyIsOccupied
    <3>3. Client(t) # Client(i) /\ Client(t) \in Peers
      BY <2>1, <3>1, <3>2, ClientsDiffer
    <3> QED BY <1>11, <2>3, <3>1, <3>3 DEF Client
  <2> QED BY <1>11, <2>1, <2>4, <2>5, RestKept
<1>12. CASE OnNick
  BY <1>11, <1>12 DEF OnNick, Draining, peers
<1>13. CASE OnTextSkipped
  BY <1>11, <1>13 DEF OnTextSkipped, TextThere, Draining, table, peers
<1>14. CASE OnText
  BY <1>11, <1>14 DEF OnText, TextThere, Draining, table, peers
<1>15. ASSUME pc = "cast", UNCHANGED <<slot, file, taken, sent, peer, rfds, i>>,
              pc' \in {"drain", "cast"}
       PROVE  RoundTypes' /\ StillReady'
  BY <1>15, RestKept DEF RoundTypes, Rest, Client
<1>16. CASE CastSkip BY <1>15, <1>16 DEF CastSkip, table, peers
<1>17. CASE CastSend BY <1>15, <1>17 DEF CastSend, table, peers
<1>18. CASE CastFails
  <2>1. j \in Slots /\ slot[j] # -1 /\ pc = "cast"
    BY <1>18 DEF CastFails, CastTo
  <2>2. RoundTypes' BY <1>18 DEF CastFails, RoundTypes, peers
  <2>3. ASSUME NEW t \in Slots, t \in Rest', slot'[t] \in rfds
        PROVE  t \in Rest /\ slot'[t] = slot[t] /\ Client(t)' = Client(t)
    <3>1. t \in Rest BY <1>18, <2>3 DEF CastFails, Rest
    <3>2. t # j
      BY <1>18, <2>1, <2>3, FDsAreNat, ServerAssumption
         DEF CastFails, clients_remove, Tables, TableTypes, RoundTypes
    <3>3. slot'[t] = slot[t]
      BY <1>18, <3>2 DEF CastFails, clients_remove, Tables, TableTypes
    <3>4. slot[t] # -1 BY <2>3, <3>3, ReadyIsOccupied
    <3> QED BY <1>18, <2>1, <3>1, <3>2, <3>4, RemoveOthers DEF CastFails
  <2> QED BY <1>18, <2>1, <2>2, <2>3, RestKept DEF CastFails, peers
<1>19. CASE CastEnd BY <1>15, <1>19 DEF CastEnd, table, peers
<1>20. ASSUME UNCHANGED server, sent' \in [Peers -> Nat],
              \A q \in Peers : sent'[q] >= sent[q],
              \A q \in Peers : peer[q] \in {"fin", "rst"} =>
                                 peer'[q] \in {"fin", "rst"}
       PROVE  RoundTypes' /\ StillReady'
  <2>1. RoundTypes' BY <1>20 DEF server, loop, RoundTypes
  <2>2. \A q \in Peers : Readable(q) => Readable(q)'
    BY <1>20, ReadableKept DEF server, RoundTypes
  <2>3. UNCHANGED <<slot, file, rfds, i, pc>> BY <1>20 DEF server, table, loop
  <2>4. \A fd \in Registered : file[fd] \in Peers
    <3>1. Registered \subseteq FDs BY DEF Registered, Tables, TableTypes
    <3> QED BY <3>1 DEF Tables, TableTypes, OneSlotPerSocket
  <2>5. \A s \in Slots : slot[s] \in rfds => Client(s) \in Peers
    BY ReadyIsOccupied, ClientsDiffer
  <2>6. Rest' = Rest /\ Registered' = Registered
    BY <2>3 DEF Rest, Registered
  <2>7. pc' = "accept" => \A fd \in rfds' \ {LFD} :
                             (fd \in Registered /\ Readable(file[fd]))'
    BY <2>2, <2>3, <2>4, <2>6 DEF StillReady, Readable
  <2>8. Rest \subseteq Slots BY DEF Rest
  <2>9. pc' \in {"scan", "drain", "cast"} =>
          \A s \in Rest' : slot'[s] \in rfds' => Readable(Client(s))'
    BY <2>2, <2>3, <2>5, <2>6, <2>8 DEF StillReady, Client, Readable
  <2> QED BY <2>1, <2>7, <2>9 DEF StillReady, Readable, Client
<1>21. ASSUME NEW p \in Peers, Peer(p) PROVE RoundTypes' /\ StillReady'
  <2>1. CASE Connect(p)
    BY <1>20, <2>1 DEF Connect, RoundTypes, Tables, TableTypes
  <2>2. CASE PeerSend(p)
    BY <1>20, <2>2 DEF PeerSend, RoundTypes
  <2>3. CASE PeerRead(p)
    BY <1>20, <2>3 DEF PeerRead, RoundTypes, peers
  <2>4. CASE PeerClose(p)
    BY <1>20, <2>4 DEF PeerClose, RoundTypes, Tables, TableTypes
  <2> QED BY <1>21, <2>1, <2>2, <2>3, <2>4 DEF Peer
<1>22. CASE UNCHANGED vars
  BY <1>20, <1>22 DEF vars, server, RoundTypes, peers
<1> QED BY <1>1, <1>2, <1>3, <1>4, <1>5, <1>6, <1>7, <1>8, <1>9, <1>10, <1>12,
           <1>13, <1>14, <1>16, <1>17, <1>18, <1>19, <1>21, <1>22
        DEF Next, Server

LEMMA RoundInvariant == Spec => []RInv
BY InitRInv, NextRInv, PTL DEF Spec

LEMMA RInvRecv == RInv => RecvNeverBlocks
BY DEF RInv, StillReady, RecvNeverBlocks, Serves, First, ToServe, Rest

(* The single thread never waits in recv().                                *)
THEOREM RecvSafe == Spec => []RecvNeverBlocks
BY RoundInvariant, RInvRecv, PTL

-----------------------------------------------------------------------------
(***************************************************************************)
(* The countdown.  Slots are freed during the round without being counted  *)
(* down and a new one never has a descriptor of rfds, so `ready' is at     *)
(* least the number of slots still to be served; equality would be false.  *)
(***************************************************************************)
InRfds == {s \in Slots : slot[s] \in rfds}
Left   == InRfds \cap Rest

Countdown ==
  /\ ready \in 0..MAX_CLIENTS+1
  /\ i \in 0..MAX_CLIENTS
  /\ pc = "accept" => i = 0 /\ Cardinality(InRfds) + 1 <= ready
  /\ pc = "scan" => Cardinality(Left) <= ready
  /\ pc \in {"drain", "cast"} => Cardinality(Left) + 1 <= ready

KInv == RInv /\ Countdown

LEMMA SlotCount ==
  ASSUME NEW S \in SUBSET Slots
  PROVE  IsFiniteSet(S) /\ Cardinality(S) \in 0..MAX_CLIENTS
<1> DEFINE last == MAX_CLIENTS - 1
<1>0. MAX_CLIENTS \in Nat /\ last \in Int BY ServerAssumption
<1>1. IsFiniteSet(Slots) /\ Cardinality(Slots) = MAX_CLIENTS
  <2>1. Slots = 0..last BY DEF Slots
  <2> HIDE DEF last
  <2>2. IsFiniteSet(0..last) /\ Cardinality(0..last) = IF 0 > last THEN 0 ELSE last-0+1
    BY <1>0, FS_Interval
  <2> QED BY <1>0, <2>1, <2>2 DEF last
<1>2. IsFiniteSet(S) /\ Cardinality(S) <= MAX_CLIENTS BY <1>1, FS_Subset
<1> QED BY <1>2, FS_CardinalityType, ServerAssumption

LEMMA FewerSlots ==
  ASSUME NEW T \in SUBSET Slots, NEW S \in SUBSET T
  PROVE  Cardinality(S) <= Cardinality(T)
BY SlotCount, FS_Subset

LEMMA OneSlotLess ==
  ASSUME NEW T \in SUBSET Slots, NEW s \in T, NEW S \in SUBSET T, s \notin S
  PROVE  Cardinality(S) + 1 <= Cardinality(T)
<1>1. IsFiniteSet(T) /\ Cardinality(T) \in Nat BY SlotCount
<1>2. Cardinality(T \ {s}) = Cardinality(T) - 1 BY <1>1, FS_RemoveElement
<1>3. Cardinality(S) <= Cardinality(T \ {s}) BY FewerSlots, T \ {s} \in SUBSET Slots, S \in SUBSET (T \ {s})
<1>4. Cardinality(S) \in Nat BY SlotCount
<1> QED BY <1>1, <1>2, <1>3, <1>4

(* select() counts each ready slot once, and the listening socket. *)
LEMMA ReadyCount ==
  ASSUME Tables
  PROVE  LET ready_slots == {s \in Slots : slot[s] \in ReadyFds} IN
         /\ Cardinality(ready_slots) \in 0..MAX_CLIENTS
         /\ Cardinality(ReadyFds) =
              Cardinality(ready_slots) + (IF LFD \in ReadyFds THEN 1 ELSE 0)
<1> DEFINE S == {s \in Slots : slot[s] \in ReadyFds}
           T == ReadyFds \ {LFD}
           f == [s \in S |-> slot[s]]
<1>1. IsFiniteSet(S) /\ Cardinality(S) \in 0..MAX_CLIENTS BY SlotCount
<1>2. LFD \notin Registered /\ -1 \notin ReadyFds
  BY FDsAreNat, ServerAssumption DEF Tables, TableTypes, Registered, ReadyFds
<1>3. T \subseteq Registered BY DEF ReadyFds
<1>4. \A s \in S : f[s] \in T
  BY <1>2, FDsAreNat DEF Tables, TableTypes
<1>5. \A s, t \in S : f[s] = f[t] => s = t
  BY <1>2 DEF Tables, OneSlotPerSocket
<1>6. \A fd \in T : \E s \in S : f[s] = fd
  BY <1>3 DEF Registered
<1>7. f \in Surjection(S, T) BY <1>4, <1>6 DEF Surjection
<1>8. f \in Injection(S, T) BY <1>4, <1>5 DEF Injection, IsInjective
<1>9. IsFiniteSet(T) /\ Cardinality(T) = Cardinality(S)
  BY <1>1, <1>7, <1>8, FS_Surjection
<1>10. LFD \in ReadyFds => ReadyFds = T \union {LFD} OBVIOUS
<1>11. LFD \notin ReadyFds => ReadyFds = T OBVIOUS
<1>12. Cardinality(T \union {LFD}) = Cardinality(T) + 1
  BY <1>9, FS_AddElement
<1> HIDE DEF S, T, f
<1>13. Cardinality(ReadyFds) = Cardinality(S) + (IF LFD \in ReadyFds THEN 1 ELSE 0)
  <2>1. CASE LFD \in ReadyFds BY <2>1, <1>9, <1>10, <1>12
  <2>2. CASE LFD \notin ReadyFds BY <2>2, <1>1, <1>9, <1>11
  <2> QED BY <2>1, <2>2
<1> QED BY <1>1, <1>13 DEF S

LEMMA InitKInv == Init => KInv
<1> SUFFICES ASSUME Init PROVE KInv OBVIOUS
<1>1. Countdown BY ServerAssumption DEF Init, Countdown
<1> QED BY <1>1, InitRInv DEF KInv

(* Steps after which no more slots are left than before. *)
LEMMA NoMoreLeft ==
  ASSUME \A s \in Slots : slot'[s] \in rfds' => s \in InRfds
  PROVE  /\ Cardinality(InRfds') <= Cardinality(InRfds)
         /\ Rest' = Rest => Cardinality(Left') <= Cardinality(Left)
<1>1. InRfds' \subseteq InRfds /\ InRfds \subseteq Slots BY DEF InRfds
<1>2. Rest' = Rest => Left' \subseteq Left BY <1>1 DEF Left
<1>3. Left \subseteq Slots BY <1>1 DEF Left
<1> QED BY <1>1, <1>2, <1>3, FewerSlots

(* Freeing a slot. *)
LEMMA RemoveFromRfds ==
  ASSUME RInv, NEW s \in Slots, clients_remove(s)
  PROVE  \A t \in Slots : slot'[t] \in rfds => t \in InRfds /\ t # s
<1>1. -1 \notin rfds
  BY FDsAreNat, ServerAssumption DEF RInv, RoundTypes
<1> QED BY <1>1 DEF InRfds, clients_remove, RInv, TInv, Tables, TableTypes

LEMMA NextKInv == KInv /\ [Next]_vars => KInv'
<1> SUFFICES ASSUME KInv, [Next]_vars PROVE KInv' OBVIOUS
<1>t. RInv' BY NextRInv DEF KInv
<1> SUFFICES Countdown' BY <1>t DEF KInv
<1> USE DEF KInv
<1>n. /\ Cardinality(InRfds) \in 0..MAX_CLIENTS /\ Cardinality(Left) \in 0..MAX_CLIENTS
      /\ Cardinality(InRfds') \in 0..MAX_CLIENTS /\ Cardinality(Left') \in 0..MAX_CLIENTS
  <2>1. InRfds \subseteq Slots /\ Left \subseteq Slots BY DEF InRfds, Left
  <2>2. InRfds' \subseteq Slots /\ Left' \subseteq Slots BY DEF InRfds, Left
  <2> QED BY <2>1, <2>2, SlotCount
<1>m. MAX_CLIENTS \in Nat /\ Slots \subseteq Nat
  BY ServerAssumption DEF Slots
<1>w. \A s \in Slots : s + 1 \in 0..MAX_CLIENTS /\ s \in 0..MAX_CLIENTS
  BY <1>m DEF Slots
<1>i. i \in Int /\ \A s \in Slots : s \in Int BY <1>m DEF Countdown
<1>1. CASE Select
  <2>1. Tables BY DEF RInv, TInv
  <2>2. /\ rfds' = ReadyFds /\ ready' = Cardinality(ReadyFds) /\ i' = 0
        /\ pc' = IF LFD \in ReadyFds THEN "accept" ELSE "scan"
        /\ slot' = slot
    BY <1>1 DEF Select, table
  <2>3. InRfds' = {s \in Slots : slot[s] \in ReadyFds} BY <2>2 DEF InRfds
  <2>4. Cardinality(ReadyFds) =
          Cardinality(InRfds') + (IF LFD \in ReadyFds THEN 1 ELSE 0)
    BY <2>1, <2>3, ReadyCount
  <2>5. Cardinality(Left') <= Cardinality(InRfds')
    <3>1. InRfds' \in SUBSET Slots /\ Left' \in SUBSET InRfds' BY DEF InRfds, Left
    <3> QED BY <3>1, FewerSlots
  <2> QED BY <1>n, <1>m, <2>2, <2>4, <2>5 DEF Countdown
<1>2. CASE SelectError
  BY <1>2 DEF SelectError, loop, Countdown
<1>3. ASSUME pc = "accept", AcceptDone, \A s \in Slots : slot'[s] \in rfds => s \in InRfds
      PROVE  Countdown'
  <2>1. CASE ready - 1 <= 0
    BY <1>3, <1>m, <2>1 DEF AcceptDone, RoundOver, Countdown
  <2>2. CASE ready - 1 > 0
    <3>1. pc' = "scan" /\ ready' = ready - 1 /\ rfds' = rfds /\ i' = i
      BY <1>3, <2>2 DEF AcceptDone, Countdown
    <3>2. Cardinality(InRfds') <= Cardinality(InRfds)
      BY <1>3, <3>1, NoMoreLeft
    <3>3. InRfds' \in SUBSET Slots /\ Left' \in SUBSET InRfds' BY DEF InRfds, Left
    <3>4. Cardinality(Left') <= Cardinality(InRfds') BY <3>3, FewerSlots
    <3> QED BY <1>3, <1>n, <1>m, <3>1, <3>2, <3>4 DEF Countdown
  <2> QED BY <1>3, <2>1, <2>2 DEF Countdown
<1>4. CASE AcceptFails
  BY <1>3, <1>4 DEF AcceptFails, table, InRfds
<1>5. CASE Reject
  BY <1>3, <1>5 DEF Reject, table, InRfds
<1>6. CASE Accept
  <2>1. PICK fd \in FreeFds, s \in FreeSlots : slot' = [slot EXCEPT ![s] = fd]
    BY <1>6 DEF Accept
  <2>2. fd \notin Registered /\ fd # LFD
    BY <2>1, FDsAreNat DEF FreeFds, RInv, TInv, Tables, OneSlotPerSocket
  <2>3. fd \notin rfds BY <1>6, <2>2 DEF Accept, RInv, StillReady
  <2> QED BY <1>3, <1>6, <2>1, <2>3
          DEF Accept, InRfds, RInv, TInv, Tables, TableTypes, FreeSlots
<1>7. CASE ScanEnd
  BY <1>7, <1>m DEF ScanEnd, RoundOver, Countdown
<1>8. ASSUME NEW s \in Slots, RecvGone(s) PROVE Countdown'
  <2>1. pc = "scan" /\ ready > 0 /\ s \in Left /\ s >= i
    BY <1>8 DEF RecvGone, Serves, First, ToServe, Left, InRfds, Rest
  <2>2. pc' = "scan" /\ i' = s + 1 /\ ready' = ready - 1 /\ rfds' = rfds
    BY <1>8, <2>1 DEF RecvGone, Served
  <2>3. Left' \subseteq Left \ {s}
    <3>1. \A t \in Slots : slot'[t] \in rfds => t \in InRfds /\ t # s
      BY <1>8, RemoveFromRfds DEF RecvGone
    <3>2. Rest' \subseteq Rest
      <4>1. Rest = {t \in Slots : t >= i} /\ Rest' = {t \in Slots : t >= s + 1}
        BY <2>1, <2>2 DEF Rest
      <4> QED BY <1>i, <2>1, <4>1
    <3> QED BY <2>2, <3>1, <3>2 DEF Left, InRfds
  <2>4. Cardinality(Left') + 1 <= Cardinality(Left)
    <3>1. Left \in SUBSET Slots /\ Left' \in SUBSET Left /\ s \notin Left'
      BY <2>3 DEF Left, InRfds
    <3> QED BY <2>1, <3>1, OneSlotLess
  <2> QED BY <1>n, <1>m, <1>w, <2>1, <2>2, <2>4 DEF Countdown
<1>9. ASSUME NEW s \in Slots, RecvData(s) PROVE Countdown'
  <2>1. pc = "scan" /\ ready > 0 /\ s \in Left /\ s >= i
    BY <1>9 DEF RecvData, Serves, First, ToServe, Left, InRfds, Rest
  <2>2. pc' = "drain" /\ i' = s /\ UNCHANGED <<slot, ready, rfds>>
    BY <1>9 DEF RecvData, table
  <2>3. Left' \subseteq Left \ {s}
    <3>1. Rest = {t \in Slots : t >= i} /\ Rest' = {t \in Slots : t > s}
      BY <2>1, <2>2 DEF Rest
    <3>2. Rest' \subseteq Rest \ {s} BY <1>i, <2>1, <3>1
    <3> QED BY <2>2, <3>2 DEF Left, InRfds
  <2>4. Cardinality(Left') + 1 <= Cardinality(Left)
    <3>1. Left \in SUBSET Slots /\ Left' \in SUBSET Left /\ s \notin Left'
      BY <2>3 DEF Left, InRfds
    <3> QED BY <2>1, <3>1, OneSlotLess
  <2> QED BY <1>n, <1>m, <1>w, <2>1, <2>2, <2>4 DEF Countdown
<1>10. ASSUME pc = "drain", pc' = "scan", Served(i), rfds' = rfds,
              \A t \in Slots : slot'[t] \in rfds => t \in InRfds
       PROVE  Countdown'
  <2>1. i \in Slots BY <1>10 DEF RInv, TInv, Turn
  <2>2. i' = i + 1 /\ ready' = ready - 1 BY <1>10 DEF Served
  <2>3. Rest' = Rest
    <3>1. Rest = {t \in Slots : t > i} /\ Rest' = {t \in Slots : t >= i + 1}
      BY <1>10, <2>2 DEF Rest
    <3> QED BY <1>i, <3>1
  <2>4. Cardinality(Left') <= Cardinality(Left) BY <1>10, <2>3, NoMoreLeft
  <2> QED BY <1>10, <1>n, <1>m, <1>w, <2>1, <2>2, <2>4 DEF Countdown
<1>11. CASE DrainEnd
  BY <1>10, <1>11 DEF DrainEnd, table, InRfds
<1>12. CASE DrainTooLarge
  <2>1. i \in Slots BY <1>12 DEF DrainTooLarge, Draining, RInv, TInv, Turn
  <2>2. \A t \in Slots : slot'[t] \in rfds => t \in InRfds
    BY <1>12, <2>1, RemoveFromRfds DEF DrainTooLarge
  <2> QED BY <1>10, <1>12, <2>2 DEF DrainTooLarge, Draining
<1>13. ASSUME pc \in {"drain", "cast"}, pc' \in {"drain", "cast"},
              UNCHANGED <<ready, i, rfds>>,
              \A t \in Slots : slot'[t] \in rfds => t \in InRfds
       PROVE  Countdown'
  <2>1. Rest' = Rest BY <1>13 DEF Rest
  <2>2. Cardinality(Left') <= Cardinality(Left) BY <1>13, <2>1, NoMoreLeft
  <2> QED BY <1>13, <1>n, <2>2 DEF Countdown
<1>14. CASE OnNick
  BY <1>13, <1>14 DEF OnNick, Draining, InRfds
<1>15. CASE OnTextSkipped
  BY <1>13, <1>15 DEF OnTextSkipped, TextThere, Draining, table, InRfds
<1>16. CASE OnText
  BY <1>13, <1>16 DEF OnText, TextThere, Draining, table, InRfds
<1>17. CASE CastSkip BY <1>13, <1>17 DEF CastSkip, table, InRfds
<1>18. CASE CastSend BY <1>13, <1>18 DEF CastSend, table, InRfds
<1>19. CASE CastFails
  <2>1. \A t \in Slots : slot'[t] \in rfds => t \in InRfds
    BY <1>19, RemoveFromRfds DEF CastFails, CastTo
  <2> QED BY <1>13, <1>19, <2>1 DEF CastFails
<1>20. CASE CastEnd BY <1>13, <1>20 DEF CastEnd, table, InRfds
<1>21. ASSUME UNCHANGED <<slot, pc, rfds, ready, i>> PROVE Countdown'
  BY <1>21 DEF Countdown, Left, InRfds, Rest
<1>22. ASSUME NEW p \in Peers, Peer(p) PROVE Countdown'
  BY <1>21, <1>22 DEF Peer, Connect, PeerSend, PeerRead, PeerClose, server, table, loop
<1>23. CASE UNCHANGED vars
  BY <1>21, <1>23 DEF vars, table, loop
<1> QED BY <1>1, <1>2, <1>4, <1>5, <1>6, <1>7, <1>8, <1>9, <1>11, <1>12, <1>14,
           <1>15, <1>16, <1>17, <1>18, <1>19, <1>20, <1>22, <1>23
        DEF Next, Server

LEMMA CountdownInvariant == Spec => []KInv
BY InitKInv, NextKInv, PTL DEF Spec

(* A step back to select() leaves no slot behind that select() reported.   *)
LEMMA BackToSelect ==
  KInv /\ [Next]_vars => [pc # "select" /\ pc' = "select" => ToServe = {}]_vars
<1> SUFFICES ASSUME KInv, Next, pc # "select", pc' = "select" PROVE ToServe = {}
  OBVIOUS
<1>n. /\ InRfds \in SUBSET Slots /\ Left \in SUBSET Slots
      /\ ToServe \subseteq InRfds /\ (pc = "scan" => ToServe \subseteq Left)
  BY DEF InRfds, Left, ToServe, Rest
<1>e. ASSUME NEW S \in SUBSET Slots, Cardinality(S) <= 0 PROVE S = {}
  BY <1>e, SlotCount, FS_EmptySet
<1>1. ASSUME pc = "accept", AcceptDone PROVE ToServe = {}
  <2>1. Cardinality(InRfds) + 1 <= ready /\ ready - 1 <= 0 /\ ready \in Int
    BY <1>1 DEF KInv, Countdown, AcceptDone
  <2>2. Cardinality(InRfds) <= 0 BY <1>n, <2>1, SlotCount
  <2> QED BY <1>n, <1>e, <2>2
<1>2. CASE ScanEnd
  <2>1. pc = "scan" /\ (ready <= 0 \/ ToServe = {}) BY <1>2 DEF ScanEnd
  <2>2. CASE ready <= 0
    <3>1. Cardinality(Left) <= 0 BY <1>n, <2>1, <2>2, SlotCount DEF KInv, Countdown
    <3> QED BY <1>n, <1>e, <2>1, <3>1
  <2> QED BY <2>1, <2>2
<1>3. CASE AcceptFails \/ Reject \/ Accept
  BY <1>1, <1>3 DEF AcceptFails, Reject, Accept
<1>4. ASSUME NEW s \in Slots, RecvGone(s) \/ RecvData(s) PROVE FALSE
  BY <1>4 DEF RecvGone, RecvData, Serves
<1>5. ASSUME NEW p \in Peers, Peer(p) PROVE FALSE
  BY <1>5 DEF Peer, Connect, PeerSend, PeerRead, PeerClose, server
<1>6. CASE DrainEnd \/ DrainTooLarge \/ OnNick \/ OnTextSkipped \/ OnText
  BY <1>6 DEF DrainEnd, DrainTooLarge, OnNick, OnTextSkipped, OnText, TextThere, Draining
<1>7. CASE CastSkip \/ CastSend \/ CastFails \/ CastEnd
  BY <1>7 DEF CastSkip, CastSend, CastFails, CastEnd
<1>8. CASE Select \/ SelectError
  BY <1>8 DEF Select, SelectError
<1> QED BY <1>2, <1>3, <1>4, <1>5, <1>6, <1>7, <1>8 DEF Next, Server

(* A round ends only when everything select() reported has been read.      *)
THEOREM RoundsComplete == Spec => RoundComplete
BY CountdownInvariant, BackToSelect, PTL DEF RoundComplete, Spec

-----------------------------------------------------------------------------
(***************************************************************************)
(* The type invariant.  That on_message is only called for frames that     *)
(* were sent needs the amounts: never more is taken than was sent, and a   *)
(* batch is a part of the difference, until the broadcast is over.         *)
(***************************************************************************)
Texts == [from : Peers, no : Nat, label : Nicks, len : Nat]

OutTypes == inbox \in [Peers -> Seq(Nat)] /\ unread \in [Peers -> 0..SNDBUF]

DataTypes ==
  /\ name \in [Slots -> Nicks]
  /\ peer \in [Peers -> {"new", "up", "fin", "rst"}]
  /\ OutTypes
  /\ log \in Seq(Texts)
  /\ joined \in [Peers -> Nat]
  /\ pc \in {"select", "accept", "scan", "drain", "cast", "stopped"}
  /\ j \in 0..MAX_CLIENTS
  /\ batch \in Nat

Amounts ==
  /\ \A p \in Peers : taken[p] <= sent[p] /\ sent[p] <= Len(Script[p])
  /\ pc \in {"drain", "cast"} => batch <= sent[Client(i)] - taken[Client(i)]

DInv == KInv /\ DataTypes /\ Amounts

(* The sender of the slot being drained. *)
LEMMA Sender ==
  ASSUME DInv, pc \in {"drain", "cast"}
  PROVE  i \in Slots /\ slot[i] # -1 /\ Client(i) \in Peers
BY ClientsDiffer DEF DInv, KInv, RInv, TInv, Turn

(* The frame on_message is called for is one of the sender's. *)
LEMMA MessageHere ==
  ASSUME DInv, Draining
  PROVE  /\ Msg \in Messages
         /\ taken[Client(i)] + 1 <= sent[Client(i)]
<1> DEFINE p == Client(i)
<1>1. p \in Peers BY Sender DEF Draining
<1>2. /\ taken[p] \in Nat /\ sent[p] \in Nat
      /\ Script[p] \in Seq(Messages) /\ Len(Script[p]) \in Nat
  BY <1>1, ServerAssumption DEF DInv, KInv, RInv, RoundTypes
<1>3. sent[p] <= Len(Script[p]) BY <1>1 DEF DInv, Amounts
<1>4. batch \in Nat /\ batch > 0 /\ batch <= sent[p] - taken[p]
  BY DEF DInv, Amounts, DataTypes, Draining
<1> HIDE DEF p
<1>5. taken[p] + 1 \in 1..Len(Script[p]) /\ taken[p] + 1 <= sent[p]
  BY <1>2, <1>3, <1>4
<1>6. Script[p][taken[p] + 1] \in Messages BY <1>2, <1>5
<1> QED BY <1>5, <1>6 DEF Msg, p

LEMMA NickHere ==
  ASSUME NEW m \in Messages
  PROVE  /\ m.kind = "nick" => m.name \in Nicks
         /\ m.kind = "text" => m.len \in Nat
BY DEF Messages

LEMMA SendTypes ==
  ASSUME OutTypes, NEW p \in Peers, NEW texts \in Seq(Nat), SendOK(p, texts)
  PROVE  OutTypes'
<1>1. inbox[p] \o texts \in Seq(Nat) BY ConcatProperties DEF OutTypes
<1>2. unread[p] + 1 \in 0..SNDBUF BY ServerAssumption DEF OutTypes, SendOK
<1> QED BY <1>1, <1>2 DEF OutTypes, SendOK

LEMMA SendAnywayTypes ==
  ASSUME OutTypes, NEW p \in Peers, SendAnyway(p)
  PROVE  OutTypes'
<1>1. <<>> \in Seq(Nat) OBVIOUS
<1>2. CASE SendFails(p) /\ UNCHANGED out BY <1>2 DEF OutTypes, out
<1> QED BY <1>1, <1>2, SendTypes DEF SendAnyway

LEMMA RemoveTypes ==
  ASSUME DataTypes, NEW s \in Slots, clients_remove(s)
  PROVE  name' \in [Slots -> Nicks]
BY ServerAssumption DEF DataTypes, clients_remove

LEMMA InitDInv == Init => DInv
<1> SUFFICES ASSUME Init PROVE DInv OBVIOUS
<1>1. DataTypes BY ServerAssumption DEF Init, DataTypes, OutTypes
<1>2. \A p \in Peers : Len(Script[p]) \in Nat BY ServerAssumption
<1>3. Amounts BY <1>2 DEF Init, Amounts
<1> QED BY <1>1, <1>3, InitKInv DEF DInv

(* Types of the data. *)
LEMMA NextData == DInv /\ [Next]_vars => DataTypes'
<1> SUFFICES ASSUME DInv, [Next]_vars PROVE DataTypes' OBVIOUS
<1>d. DataTypes BY DEF DInv
<1>m. MAX_CLIENTS \in Nat BY ServerAssumption
<1>0. ASSUME UNCHANGED <<name, peer, inbox, unread, log, joined, j, batch>>,
             pc' \in {"select", "accept", "scan", "drain", "cast", "stopped"}
      PROVE  DataTypes'
  BY <1>0, <1>d DEF DataTypes, OutTypes
<1>1. CASE Select BY <1>0, <1>1 DEF Select, table, peers, out, history
<1>2. CASE SelectError
  BY <1>0, <1>2 DEF SelectError, table, peers, out, history, loop
<1>a. AcceptDone => pc' \in {"select", "scan"} BY DEF AcceptDone, RoundOver
<1>3. CASE AcceptFails
  BY <1>0, <1>a, <1>3 DEF AcceptFails, table, peers, out, history
<1>4. CASE Reject BY <1>0, <1>a, <1>4 DEF Reject, table, out, history
<1>5. CASE Accept
  <2> DEFINE p == Head(backlog)
  <2>1. p \in Peers
    BY <1>5 DEF Accept, DInv, KInv, RInv, TInv, Turn, Tables, TableTypes
  <2>2. PICK s \in FreeSlots : name' = [name EXCEPT ![s] = NoName]
    BY <1>5 DEF Accept
  <2>3. name' \in [Slots -> Nicks]
    BY <1>d, <2>2, ServerAssumption DEF DataTypes, FreeSlots
  <2>4. Len(log) \in Nat BY <1>d DEF DataTypes
  <2>5. joined' \in [Peers -> Nat]
    BY <1>5, <1>d, <2>1, <2>4 DEF Accept, DataTypes
  <2>7. OutTypes' BY <1>5, <1>d, <2>1, SendAnywayTypes DEF Accept, DataTypes
  <2> QED BY <1>5, <1>a, <1>d, <2>3, <2>5, <2>7 DEF Accept, DataTypes
<1>6. CASE ScanEnd
  BY <1>0, <1>6 DEF ScanEnd, RoundOver, table, peers, out, history
<1>7. ASSUME NEW s \in Slots, RecvGone(s) PROVE DataTypes'
  BY <1>7, <1>d, RemoveTypes DEF RecvGone, DataTypes, OutTypes, peers, out, history
<1>8. ASSUME NEW s \in Slots, RecvData(s) PROVE DataTypes'
  <2>1. Client(s) \in Peers
    BY <1>8, ClientsDiffer
       DEF RecvData, Serves, First, ToServe, DInv, KInv, RInv, TInv
  <2>2. sent[Client(s)] - taken[Client(s)] \in Int
    BY <2>1 DEF DInv, KInv, RInv, RoundTypes
  <2>3. batch' \in Nat BY <1>8, <2>2 DEF RecvData
  <2> QED BY <1>8, <1>d, <2>3 DEF RecvData, DataTypes, OutTypes, table, peers, out, history
<1>9. CASE DrainEnd
  BY <1>0, <1>9 DEF DrainEnd, table, peers, out, history
<1>10. CASE DrainTooLarge
  <2>1. i \in Slots BY <1>10, Sender DEF DrainTooLarge, Draining
  <2> QED BY <1>10, <1>d, <2>1, RemoveTypes
          DEF DrainTooLarge, DataTypes, OutTypes, peers, out, history
<1>11. ASSUME Draining, Taken PROVE batch' \in Nat /\ i \in Slots /\ Client(i) \in Peers
                                   /\ taken[Client(i)] + 1 \in Nat
  <2>1. i \in Slots /\ Client(i) \in Peers BY <1>11, Sender DEF Draining
  <2>2. batch \in Nat BY <1>d DEF DataTypes
  <2> QED BY <1>11, <2>1, <2>2 DEF Draining, Taken, DInv, KInv, RInv, RoundTypes
<1>12. CASE OnNick
  <2>1. Draining /\ Taken /\ Msg.kind = "nick" BY <1>12 DEF OnNick
  <2>2. Msg.name \in Nicks BY <2>1, MessageHere, NickHere
  <2>4. OutTypes' BY <1>11, <1>12, <1>d, <2>1, SendAnywayTypes DEF OnNick, DataTypes
  <2>5. name' \in [Slots -> Nicks] BY <1>11, <1>12, <1>d, <2>1, <2>2 DEF OnNick, DataTypes
  <2> QED BY <1>11, <1>12, <1>d, <2>1, <2>4, <2>5 DEF OnNick, DataTypes, peers, history
<1>13. CASE OnTextSkipped
  BY <1>11, <1>13, <1>d
     DEF OnTextSkipped, TextThere, DataTypes, OutTypes, table, peers, out, history
<1>14. CASE OnText
  <2>1. Draining /\ Taken /\ Msg.kind = "text" BY <1>14 DEF OnText, TextThere
  <2>2. Msg.len \in Nat BY <2>1, MessageHere, NickHere
  <2>3. name[i] \in Nicks /\ LabelLen[name[i]] \in Nat
    BY <1>11, <1>d, <2>1, ServerAssumption DEF DataTypes
  <2> DEFINE text == [from |-> Client(i), no |-> taken[Client(i)] + 1,
                      label |-> name[i], len |-> LabelLen[name[i]] + Msg.len]
  <2>4. text \in Texts BY <1>11, <2>1, <2>2, <2>3 DEF Texts
  <2>5. log' = Append(log, text) BY <1>14 DEF OnText
  <2> HIDE DEF text
  <2>6. log' \in Seq(Texts) BY <1>d, <2>4, <2>5 DEF DataTypes
  <2> QED BY <1>11, <1>14, <1>d, <1>m, <2>1, <2>6
          DEF OnText, DataTypes, OutTypes, table, peers, out
<1>15. ASSUME j' = j + 1, j \in Slots, UNCHANGED <<peer, log, joined, pc, batch>>,
              name' \in [Slots -> Nicks], OutTypes'
       PROVE  DataTypes'
  <2>1. j' \in 0..MAX_CLIENTS BY <1>15, <1>m DEF Slots
  <2> QED BY <1>15, <1>d, <2>1 DEF DataTypes
<1>16. CASE CastSkip
  BY <1>15, <1>16, <1>d DEF CastSkip, DataTypes, OutTypes, table, peers, out, history
<1>17. CASE CastSend
  <2>1. j \in Slots /\ slot[j] # -1 BY <1>17 DEF CastSend, CastTo
  <2>2. Client(j) \in Peers
    BY <2>1, ClientsDiffer DEF DInv, KInv, RInv, TInv
  <2>3. <<Len(log)>> \in Seq(Nat) BY <1>d DEF DataTypes
  <2>4. OutTypes' BY <1>17, <1>d, <2>2, <2>3, SendTypes DEF CastSend, DataTypes
  <2> QED BY <1>15, <1>17, <1>d, <2>1, <2>4 DEF CastSend, DataTypes, table, peers, history
<1>18. CASE CastFails
  <2>1. j \in Slots BY <1>18 DEF CastFails, CastTo
  <2>2. name' \in [Slots -> Nicks] BY <1>18, <1>d, <2>1, RemoveTypes DEF CastFails
  <2> QED BY <1>15, <1>18, <1>d, <2>1, <2>2
          DEF CastFails, DataTypes, OutTypes, peers, out, history
<1>19. CASE CastEnd
  BY <1>19, <1>d, <1>m DEF CastEnd, DataTypes, OutTypes, table, peers, out, history
<1>20. ASSUME NEW p \in Peers, Peer(p) PROVE DataTypes'
  <2>1. CASE Connect(p)
    BY <1>d, <2>1 DEF Connect, DataTypes, OutTypes, server, table, history, loop, out
  <2>2. CASE PeerSend(p)
    BY <1>d, <2>2 DEF PeerSend, DataTypes, OutTypes, server, table, history, loop, out
  <2>3. CASE PeerRead(p)
    BY <1>d, <2>3, ServerAssumption
       DEF PeerRead, DataTypes, OutTypes, server, table, history, loop, peers
  <2>4. CASE PeerClose(p)
    BY <1>d, <2>4 DEF PeerClose, DataTypes, OutTypes, server, table, history, loop, out
  <2> QED BY <1>20, <2>1, <2>2, <2>3, <2>4 DEF Peer
<1>21. CASE UNCHANGED vars
  BY <1>0, <1>d, <1>21 DEF vars, DataTypes, table, peers, out, history, loop
<1> QED BY <1>1, <1>2, <1>3, <1>4, <1>5, <1>6, <1>7, <1>8, <1>9, <1>10, <1>12,
           <1>13, <1>14, <1>16, <1>17, <1>18, <1>19, <1>20, <1>21
        DEF Next, Server

(* Frames taken, frames in the batch and frames sent. *)
LEMMA NextAmounts == DInv /\ [Next]_vars => Amounts'
<1> SUFFICES ASSUME DInv, [Next]_vars PROVE Amounts' OBVIOUS
<1>t. /\ taken \in [Peers -> Nat] /\ sent \in [Peers -> Nat] /\ Tables
      /\ Amounts /\ batch \in Nat
  BY DEF DInv, KInv, RInv, TInv, RoundTypes, DataTypes
<1>l. \A p \in Peers : Len(Script[p]) \in Nat BY ServerAssumption
<1>1. ASSUME UNCHANGED <<taken, sent>>, pc' \notin {"drain", "cast"} PROVE Amounts'
  BY <1>1, <1>t DEF Amounts
<1>2. ASSUME pc \in {"drain", "cast"}, UNCHANGED <<taken, sent, i, batch>>,
             Client(i)' = Client(i)
      PROVE  Amounts'
  BY <1>2, <1>t DEF Amounts
<1>3. ASSUME Draining, Taken, UNCHANGED <<slot, file, sent, i>> PROVE Amounts'
  <2> DEFINE p == Client(i)
  <2>1. p \in Peers /\ Client(i)' = p
    BY <1>3, Sender DEF Draining, Client
  <2>2. /\ batch <= sent[p] - taken[p] /\ batch' = batch - 1 /\ batch > 0
        /\ taken[p] + 1 <= sent[p]
    BY <1>3, <1>t, MessageHere DEF Amounts, Draining, Taken
  <2>3. taken' = [taken EXCEPT ![p] = taken[p] + 1] BY <1>3 DEF Taken
  <2> HIDE DEF p
  <2>4. taken'[p] = taken[p] + 1 /\ \A q \in Peers : q # p => taken'[q] = taken[q]
    BY <1>t, <2>1, <2>3
  <2>5. batch' <= sent[p] - taken'[p] BY <1>t, <2>1, <2>2, <2>4
  <2>6. \A q \in Peers : taken'[q] <= sent[q] /\ sent[q] <= Len(Script[q])
    BY <1>t, <2>2, <2>4 DEF Amounts
  <2> QED BY <1>3, <2>1, <2>5, <2>6 DEF Amounts
<1>4. ASSUME NEW s \in Slots, RecvData(s) PROVE Amounts'
  <2>1. Client(s) \in Peers
    BY <1>4, <1>t, ClientsDiffer DEF RecvData, Serves, First, ToServe
  <2>2. /\ i' = s /\ UNCHANGED <<slot, file, sent, taken>>
        /\ batch' \in 1 .. sent[Client(s)] - taken[Client(s)]
    BY <1>4 DEF RecvData, table, peers
  <2>3. Client(i)' = Client(s) BY <2>2 DEF Client
  <2> QED BY <1>t, <2>1, <2>2, <2>3 DEF Amounts
<1>5. CASE CastFails
  <2>1. j \in Slots /\ slot[j] # -1 /\ j # i /\ pc = "cast" /\ clients_remove(j)
    BY <1>5 DEF CastFails, CastTo
  <2>2. i \in Slots /\ slot[i] # -1 BY <2>1, Sender
  <2>3. Client(i)' = Client(i)
    <3>1. \A t \in Slots : t # j /\ slot[t] # -1 =>
             slot'[t] = slot[t] /\ file'[slot'[t]] = file[slot[t]]
      BY <1>t, <2>1, RemoveOthers DEF Client
    <3>2. i' = i BY <1>5 DEF CastFails
    <3> QED BY <2>1, <2>2, <3>1, <3>2 DEF Client
  <2> QED BY <1>2, <1>5, <2>1, <2>3 DEF CastFails, peers
<1>6. ASSUME NEW p \in Peers, Peer(p) PROVE Amounts'
  <2>1. UNCHANGED <<slot, file, taken, pc, i, batch>>
    BY <1>6 DEF Peer, Connect, PeerSend, PeerRead, PeerClose, server, table, loop
  <2>2. \A q \in Peers : sent'[q] \in Nat /\ sent'[q] >= sent[q] /\ sent'[q] <= Len(Script[q])
    <3>1. CASE PeerSend(p)
      BY <1>t, <1>l, <3>1 DEF PeerSend, Amounts
    <3>2. CASE ~PeerSend(p)
      <4>1. UNCHANGED sent
        BY <1>6, <3>2 DEF Peer, Connect, PeerRead, PeerClose, peers
      <4> QED BY <1>t, <4>1 DEF Amounts
    <3> QED BY <3>1, <3>2
  <2>3. pc \in {"drain", "cast"} => Client(i) \in Peers BY Sender
  <2>4. Client(i)' = Client(i) BY <2>1 DEF Client
  <2>5. \A q \in Peers : taken[q] <= sent'[q]
    BY <1>t, <2>2 DEF Amounts
  <2>6. pc' \in {"drain", "cast"} => batch' <= sent'[Client(i)'] - taken'[Client(i)']
    BY <1>t, <2>1, <2>2, <2>3, <2>4 DEF Amounts
  <2> QED BY <2>1, <2>2, <2>5, <2>6 DEF Amounts
<1>7. CASE Select BY <1>1, <1>7 DEF Select, peers
<1>8. CASE SelectError BY <1>1, <1>8 DEF SelectError, peers
<1>9. CASE AcceptFails \/ Reject \/ Accept
  BY <1>1, <1>9 DEF AcceptFails, Reject, Accept, AcceptDone, RoundOver, peers
<1>10. CASE ScanEnd BY <1>1, <1>10 DEF ScanEnd, RoundOver, peers
<1>11. ASSUME NEW s \in Slots, RecvGone(s) PROVE Amounts'
  BY <1>1, <1>11 DEF RecvGone, Serves, peers
<1>12. CASE DrainEnd \/ DrainTooLarge
  BY <1>1, <1>12 DEF DrainEnd, DrainTooLarge, peers
<1>13. CASE OnNick BY <1>3, <1>13 DEF OnNick, peers
<1>14. CASE OnTextSkipped
  BY <1>3, <1>14 DEF OnTextSkipped, TextThere, table, peers
<1>15. CASE OnText BY <1>3, <1>15 DEF OnText, TextThere, table, peers
<1>16. CASE CastSkip \/ CastSend \/ CastEnd
  BY <1>2, <1>16 DEF CastSkip, CastSend, CastEnd, table, peers, Client
<1>17. CASE UNCHANGED vars
  <2>1. UNCHANGED <<taken, sent, i, batch, pc>> /\ Client(i)' = Client(i)
    BY <1>17 DEF vars, table, peers, loop, Client
  <2> QED BY <1>t, <2>1 DEF Amounts
<1> QED BY <1>4, <1>5, <1>6, <1>7, <1>8, <1>9, <1>10, <1>11, <1>12, <1>13,
           <1>14, <1>15, <1>16, <1>17
        DEF Next, Server

LEMMA DataInvariant == Spec => []DInv
<1>1. DInv /\ [Next]_vars => DInv'
  BY NextKInv, NextData, NextAmounts DEF DInv
<1> QED BY <1>1, InitDInv, PTL DEF Spec

(* Every variable keeps its type; in particular `ready' never becomes      *)
(* negative or exceeds the sockets there are.                              *)
THEOREM ServerTypeCorrect == Spec => []TypeOK
<1>1. DInv => TypeOK
  BY DEF DInv, DataTypes, OutTypes, KInv, Countdown, RInv, RoundTypes, TInv,
         Tables, TableTypes, TypeOK, Texts
<1> QED BY <1>1, DataInvariant, PTL

-----------------------------------------------------------------------------
(***************************************************************************)
(* The conversation.  NoGaps speaks of the time between rounds; within a   *)
(* broadcast the slots from j on still lack the last text.  For that text  *)
(* to be due to all of them, nobody may have joined since it was posted,   *)
(* and its author must be the one that the loop skips; for a new client to *)
(* start with nothing, nothing may have been sent to it before.            *)
(***************************************************************************)
Fresh(p) == peer[p] = "new" \/ p \in Range(backlog)

Unheard == \A p \in Peers : Fresh(p) => inbox[p] = <<>> /\ taken[p] = 0

(* What p is due of the first n texts. *)
DueBy(p, n)  == {k \in 1..n : k > joined[p] /\ log[k].from # p}
HasAll(p, n) == Range(inbox[p]) = DueBy(p, n) /\ Rising(inbox[p])

(* The texts that the client of slot s should have by now. *)
Posted(s) == IF pc = "cast" /\ s >= j THEN Len(log) - 1 ELSE Len(log)

Casting ==
  /\ \A p \in Peers : joined[p] <= Len(log)
  /\ pc = "cast" => /\ log # <<>> /\ log[Len(log)].from = Client(i)
                    /\ \A p \in Peers : joined[p] < Len(log)

Handed == \A s \in Slots : slot[s] # -1 => HasAll(Client(s), Posted(s))

HInv == DInv /\ Unheard /\ Casting /\ Handed

LEMMA DInvFacts ==
  ASSUME DInv
  PROVE  /\ Tables /\ TableTypes
         /\ slot \in [Slots -> FDs \union {-1}]
         /\ file \in [FDs -> Peers \union {NoPeer}]
         /\ inbox \in [Peers -> Seq(Nat)] /\ log \in Seq(Texts)
         /\ joined \in [Peers -> Nat] /\ taken \in [Peers -> Nat]
         /\ Len(log) \in Nat /\ j \in Nat
BY DEF DInv, KInv, RInv, RoundTypes, TInv, Tables, TableTypes, DataTypes, OutTypes

(* Who has a slot is not waiting for one. *)
LEMMA ClientNotFresh ==
  ASSUME DInv, NEW s \in Slots, slot[s] # -1
  PROVE  Client(s) \in Peers /\ ~Fresh(Client(s))
<1>1. Tables /\ TableTypes /\ backlog \in Seq(Peers) BY DInvFacts DEF TableTypes
<1>2. Client(s) \in Peers BY <1>1, ClientsDiffer
<1>3. slot[s] \in FDs /\ file[slot[s]] # NoPeer /\ DOMAIN file = FDs
  BY <1>1, Occupied DEF Tables, OneSlotPerSocket, TableTypes
<1>4. peer[Client(s)] # "new" BY <1>1, <1>3 DEF Tables, Pending, Client
<1>5. Client(s) \in Range(file) BY <1>3 DEF Client, Range
<1>6. \A k \in 1..Len(backlog) : backlog[k] # Client(s)
  BY <1>1, <1>5 DEF Tables, OneSlotPerSocket
<1>7. Client(s) \notin Range(backlog) BY <1>1, <1>6 DEF Range
<1> QED BY <1>2, <1>4, <1>7 DEF Fresh

(* A frame without a text adds nothing to an inbox. *)
LEMMA NoTextSent ==
  ASSUME DInv, NEW p \in Peers, SendAnyway(p)
  PROVE  inbox' = inbox
<1>1. inbox \in [Peers -> Seq(Nat)] BY DInvFacts
<1>2. inbox[p] \o <<>> = inbox[p] BY <1>1, ConcatEmptySeq
<1>3. CASE SendOK(p, <<>>)
  <2>1. inbox' = [inbox EXCEPT ![p] = inbox[p] \o <<>>] BY <1>3 DEF SendOK
  <2> QED BY <1>1, <1>2, <2>1
<1>4. CASE SendFails(p) /\ UNCHANGED out BY <1>4 DEF out
<1> QED BY <1>3, <1>4 DEF SendAnyway

(* Steps that send nothing to those who wait. *)
LEMMA UnheardKept ==
  ASSUME Unheard,
         \A p \in Peers : Fresh(p)' => /\ Fresh(p) /\ inbox'[p] = inbox[p]
                                       /\ taken'[p] = taken[p]
  PROVE  Unheard'
BY DEF Unheard

(* Steps that post nothing, hand out nothing and let nobody in. *)
LEMMA HandedKept ==
  ASSUME Handed, UNCHANGED <<inbox, log, joined>>,
         \A s \in Slots : slot'[s] # -1 =>
            /\ slot[s] # -1 /\ Client(s)' = Client(s)
            /\ DueBy(Client(s), Posted(s)') = DueBy(Client(s), Posted(s))
  PROVE  Handed'
<1> SUFFICES ASSUME NEW s \in Slots, slot'[s] # -1
             PROVE  HasAll(Client(s), Posted(s))'
  BY DEF Handed
<1> DEFINE p == Client(s)
<1>1. HasAll(p, Posted(s)) BY DEF Handed
<1>2. Client(s)' = p /\ DueBy(p, Posted(s)') = DueBy(p, Posted(s)) OBVIOUS
<1> HIDE DEF p
<1>3. \A q, n : DueBy(q, n)' = DueBy(q, n') BY DEF DueBy
<1> QED BY <1>1, <1>2, <1>3 DEF HasAll

LEMMA RisingAppend ==
  ASSUME NEW seq \in Seq(Nat), NEW n \in Nat, Rising(seq), \A k \in Range(seq) : k < n
  PROVE  /\ Rising(seq \o <<n>>)
         /\ Range(seq \o <<n>>) = Range(seq) \union {n}
<1> DEFINE new == seq \o <<n>>
<1>1. /\ new \in Seq(Nat) /\ Len(new) = Len(seq) + 1 /\ Len(seq) \in Nat
      /\ \A k \in 1..Len(seq) : new[k] = seq[k]
      /\ new[Len(seq) + 1] = n
  OBVIOUS
<1>2. DOMAIN new = 1..Len(seq) + 1 /\ DOMAIN seq = 1..Len(seq) BY <1>1
<1>3. \A k \in DOMAIN seq : seq[k] \in Nat /\ seq[k] < n BY DEF Range
<1> HIDE DEF new
<1>4. ASSUME NEW k \in DOMAIN new, NEW l \in DOMAIN new, k < l
      PROVE  new[k] < new[l]
  <2>1. k \in DOMAIN seq /\ new[k] = seq[k] BY <1>1, <1>2, <1>4
  <2>2. CASE l \in DOMAIN seq BY <2>1, <2>2, <1>1, <1>2, <1>4 DEF Rising
  <2>3. CASE l = Len(seq) + 1 BY <2>1, <2>3, <1>1, <1>3
  <2> QED BY <2>2, <2>3, <1>1, <1>2
<1>5. \A x : x \in Range(new) <=> \E k \in 1..Len(seq)+1 : x = new[k]
  BY <1>2 DEF Range
<1>6. \A x : x \in Range(seq) <=> \E k \in 1..Len(seq) : x = seq[k]
  BY <1>2 DEF Range
<1>7. Range(new) = Range(seq) \union {n}
  <2>1. ASSUME NEW x \in Range(new) PROVE x \in Range(seq) \union {n}
    <3>1. PICK k \in 1..Len(seq)+1 : x = new[k] BY <2>1, <1>5
    <3>2. CASE k \in 1..Len(seq) BY <3>1, <3>2, <1>1, <1>6
    <3>3. CASE k = Len(seq) + 1 BY <3>1, <3>3, <1>1
    <3> QED BY <3>1, <3>2, <3>3, <1>1
  <2>2. ASSUME NEW x \in Range(seq) \union {n} PROVE x \in Range(new)
    <3>1. CASE x = n BY <3>1, <1>1, <1>5
    <3>2. CASE x \in Range(seq)
      <4>1. PICK k \in 1..Len(seq) : x = seq[k] BY <3>2, <1>6
      <4>2. k \in 1..Len(seq)+1 /\ x = new[k] BY <4>1, <1>1
      <4> QED BY <4>2, <1>5
    <3> QED BY <2>2, <3>1, <3>2
  <2> QED BY <2>1, <2>2
<1> QED BY <1>4, <1>7 DEF new, Rising

LEMMA InitHInv == Init => HInv
<1> SUFFICES ASSUME Init PROVE HInv OBVIOUS
<1>1. Unheard BY DEF Init, Unheard
<1>2. Casting BY DEF Init, Casting
<1>3. Handed BY DEF Init, Handed
<1> QED BY <1>1, <1>2, <1>3, InitDInv DEF HInv

(* What the table and the backlog do to who is fresh. *)
LEMMA FreshKept ==
  ASSUME UNCHANGED <<backlog, peer>>
  PROVE  \A p \in Peers : Fresh(p)' <=> Fresh(p)
BY DEF Fresh

LEMMA NextUnheard == HInv /\ [Next]_vars => Unheard'
<1> SUFFICES ASSUME HInv, [Next]_vars PROVE Unheard' OBVIOUS
<1> USE DEF HInv
<1>t. /\ backlog \in Seq(Peers) /\ peer \in [Peers -> {"new", "up", "fin", "rst"}]
      /\ taken \in [Peers -> Nat] /\ inbox \in [Peers -> Seq(Nat)]
      /\ Tables /\ (pc = "accept" => backlog # <<>>)
  BY DInvFacts DEF TableTypes, DInv, DataTypes, KInv, RInv, TInv, Turn
<1>1. ASSUME UNCHANGED <<backlog, peer, inbox, taken>> PROVE Unheard'
  BY <1>1, FreshKept, UnheardKept
<1>h. pc = "accept" /\ backlog' = Tail(backlog) => Range(backlog') \subseteq Range(backlog)
  <2> SUFFICES ASSUME pc = "accept", backlog' = Tail(backlog), NEW p \in Range(backlog')
               PROVE  p \in Range(backlog)
    OBVIOUS
  <2>1. /\ Tail(backlog) \in Seq(Peers)
        /\ \A k \in 1..Len(Tail(backlog)) :
              k+1 \in 1..Len(backlog) /\ Tail(backlog)[k] = backlog[k+1]
    BY <1>t, BacklogTail
  <2> QED BY <1>t, <2>1 DEF Range
<1>2. CASE Select BY <1>1, <1>2 DEF Select, peers, out
<1>3. CASE SelectError BY <1>1, <1>3 DEF SelectError, peers, out
<1>4. CASE AcceptFails BY <1>1, <1>4 DEF AcceptFails, peers, out
<1>5. CASE Reject
  <2>1. \A p \in Peers : Fresh(p)' => Fresh(p) BY <1>5, <1>h DEF Reject, Fresh
  <2> QED BY <1>5, <2>1, UnheardKept DEF Reject, out
<1>6. CASE Accept
  <2>1. \A p \in Peers : Fresh(p)' => Fresh(p) BY <1>6, <1>h DEF Accept, Fresh
  <2>2. Head(backlog) \in Peers BY <1>6, <1>t DEF Accept
  <2>3. inbox' = inbox BY <1>6, <2>2, NoTextSent DEF Accept
  <2> QED BY <1>6, <2>1, <2>3, UnheardKept DEF Accept
<1>7. CASE ScanEnd BY <1>1, <1>7 DEF ScanEnd, peers, out
<1>8. ASSUME NEW s \in Slots, RecvGone(s) \/ RecvData(s) PROVE Unheard'
  BY <1>1, <1>8 DEF RecvGone, RecvData, peers, out
<1>9. CASE DrainEnd \/ DrainTooLarge
  BY <1>1, <1>9 DEF DrainEnd, DrainTooLarge, peers, out
<1>10. ASSUME Draining, Taken, UNCHANGED <<backlog, peer, inbox>> PROVE Unheard'
  <2>1. Client(i) \in Peers /\ ~Fresh(Client(i))
    BY <1>10, Sender, ClientNotFresh DEF Draining
  <2>2. \A p \in Peers : p # Client(i) => taken'[p] = taken[p]
    BY <1>10, <1>t DEF Taken
  <2> QED BY <1>10, <2>1, <2>2, FreshKept, UnheardKept
<1>11. CASE OnNick
  <2>1. inbox' = inbox
    BY <1>11, Sender, NoTextSent DEF OnNick, Draining
  <2> QED BY <1>10, <1>11, <2>1 DEF OnNick, peers
<1>12. CASE OnTextSkipped BY <1>10, <1>12 DEF OnTextSkipped, TextThere, peers, out
<1>13. CASE OnText BY <1>10, <1>13 DEF OnText, TextThere, peers, out
<1>14. CASE CastSkip \/ CastFails \/ CastEnd
  BY <1>1, <1>14 DEF CastSkip, CastFails, CastEnd, peers, out
<1>15. CASE CastSend
  <2>1. j \in Slots /\ slot[j] # -1 BY <1>15 DEF CastSend, CastTo
  <2>2. Client(j) \in Peers /\ ~Fresh(Client(j)) BY <2>1, ClientNotFresh
  <2>3. \A p \in Peers : p # Client(j) => inbox'[p] = inbox[p]
    BY <1>15, <1>t DEF CastSend, SendOK
  <2> QED BY <1>15, <2>2, <2>3, FreshKept, UnheardKept DEF CastSend, peers
<1>16. ASSUME NEW q \in Peers, Peer(q) PROVE Unheard'
  <2>1. UNCHANGED <<inbox, taken>>
    BY <1>16 DEF Peer, Connect, PeerSend, PeerRead, PeerClose, server, out
  <2>2. \A p \in Peers : Fresh(p)' => Fresh(p)
    <3>1. CASE Connect(q)
      <4>1. \A p \in Range(Append(backlog, q)) : p = q \/ p \in Range(backlog)
        BY <1>t DEF Range
      <4> QED BY <3>1, <4>1, <1>t DEF Connect, Fresh
    <3>2. CASE PeerSend(q) \/ PeerRead(q) BY <3>2 DEF PeerSend, PeerRead, peers, Fresh
    <3>3. CASE PeerClose(q) BY <3>3, <1>t DEF PeerClose, Fresh
    <3> QED BY <1>16, <3>1, <3>2, <3>3 DEF Peer
  <2> QED BY <2>1, <2>2, UnheardKept
<1>17. CASE UNCHANGED vars BY <1>1, <1>17 DEF vars, peers, out
<1> QED BY <1>2, <1>3, <1>4, <1>5, <1>6, <1>7, <1>8, <1>9, <1>11, <1>12, <1>13,
           <1>14, <1>15, <1>16, <1>17
        DEF Next, Server


(* Freeing slot s: everybody else keeps slot, connection and inbox. *)
LEMMA RemoveKept ==
  ASSUME HInv, NEW s \in Slots, slot[s] # -1, clients_remove(s)
  PROVE  \A t \in Slots : slot'[t] # -1 =>
            t # s /\ slot[t] # -1 /\ slot'[t] = slot[t] /\ Client(t)' = Client(t)
<1>1. Tables /\ slot \in [Slots -> FDs \union {-1}] BY DInvFacts DEF HInv
<1>2. \A t \in Slots : slot'[t] = IF t = s THEN -1 ELSE slot[t]
  BY <1>1 DEF clients_remove
<1> QED BY <1>1, <1>2, RemoveOthers

LEMMA NextHanded == HInv /\ [Next]_vars => Casting' /\ Handed'
<1> SUFFICES ASSUME HInv, [Next]_vars PROVE Casting' /\ Handed' OBVIOUS
<1> USE DEF HInv
<1>t. /\ log \in Seq(Texts) /\ Len(log) \in Nat /\ joined \in [Peers -> Nat]
      /\ inbox \in [Peers -> Seq(Nat)] /\ j \in Nat /\ Tables
      /\ slot \in [Slots -> FDs \union {-1}]
      /\ file \in [FDs -> Peers \union {NoPeer}]
  BY DInvFacts
<1>s. MAX_CLIENTS \in Nat /\ \A s \in Slots : s \in Nat /\ s < MAX_CLIENTS
  BY ServerAssumption DEF Slots
(* Between the broadcasts. *)
<1>1. ASSUME UNCHANGED <<slot, file, inbox, log, joined>>,
             pc # "cast", pc' # "cast"
      PROVE  Casting' /\ Handed'
  <2>1. \A s \in Slots : Client(s)' = Client(s) /\ Posted(s)' = Posted(s)
    BY <1>1 DEF Client, Posted
  <2> QED BY <1>1, <2>1, HandedKept DEF Casting
<1>2. ASSUME NEW s \in Slots, slot[s] # -1, clients_remove(s),
             UNCHANGED <<inbox, log, joined>>, pc # "cast", pc' # "cast"
      PROVE  Casting' /\ Handed'
  <2>1. \A t \in Slots : Posted(t)' = Posted(t) BY <1>2 DEF Posted
  <2> QED BY <1>2, <2>1, RemoveKept, HandedKept DEF Casting
<1>3. CASE Select BY <1>1, <1>3 DEF Select, table, out, history
<1>4. CASE SelectError BY <1>1, <1>4 DEF SelectError, table, out, history
<1>5. CASE AcceptFails \/ Reject
  BY <1>1, <1>5 DEF AcceptFails, Reject, AcceptDone, RoundOver, table, out, history
<1>6. CASE ScanEnd BY <1>1, <1>6 DEF ScanEnd, RoundOver, table, out, history
<1>7. ASSUME NEW s \in Slots, RecvGone(s) PROVE Casting' /\ Handed'
  BY <1>2, <1>7 DEF RecvGone, Serves, First, ToServe, out, history
<1>8. ASSUME NEW s \in Slots, RecvData(s) PROVE Casting' /\ Handed'
  BY <1>1, <1>8 DEF RecvData, Serves, table, out, history
<1>9. CASE DrainEnd BY <1>1, <1>9 DEF DrainEnd, table, out, history
<1>10. CASE DrainTooLarge
  BY <1>2, <1>10, Sender DEF DrainTooLarge, Draining, out, history
<1>11. CASE OnNick
  <2>1. inbox' = inbox BY <1>11, Sender, NoTextSent DEF OnNick, Draining
  <2> QED BY <1>1, <1>11, <2>1 DEF OnNick, Draining, history
<1>12. CASE OnTextSkipped
  BY <1>1, <1>12 DEF OnTextSkipped, TextThere, Draining, table, out, history
(* A new client: nothing is due to it, and it has nothing. *)
<1>13. CASE Accept
  <2>0. PICK p : p = Head(backlog) OBVIOUS
  <2>1. PICK fd \in FreeFds, s \in FreeSlots :
          /\ file' = [file EXCEPT ![fd] = p]
          /\ slot' = [slot EXCEPT ![s] = fd]
    BY <1>13, <2>0 DEF Accept
  <2>2. /\ pc = "accept" /\ pc' # "cast" /\ log' = log
        /\ joined' = [joined EXCEPT ![p] = Len(log)] /\ SendAnyway(p)
    BY <1>13, <2>0 DEF Accept, AcceptDone, RoundOver
  <2>3. p \in Peers /\ p \in Range(backlog)
    <3>1. backlog # <<>> /\ backlog \in Seq(Peers)
      BY <2>2 DEF DInv, KInv, RInv, TInv, Turn, Tables, TableTypes
    <3> QED BY <2>0, <3>1 DEF Range
  <2>4. inbox' = inbox /\ inbox[p] = <<>>
    BY <2>2, <2>3, NoTextSent DEF Unheard, Fresh
  <2>5. /\ joined'[p] = Len(log)
        /\ \A q \in Peers : q # p => joined'[q] = joined[q]
    BY <1>t, <2>2, <2>3
  <2>6. Casting'
    BY <1>t, <2>2, <2>5 DEF Casting
  <2>7. fd \in FDs /\ fd \notin Registered /\ s \in Slots /\ slot[s] = -1
    BY <1>t, <2>1 DEF FreeFds, FreeSlots, Tables, OneSlotPerSocket
  <2>8. ASSUME NEW t \in Slots, slot'[t] # -1 PROVE HasAll(Client(t), Posted(t))'
    <3>1. Posted(t)' = Len(log) BY <2>2 DEF Posted
    <3>2. CASE t = s
      <4>1. Client(t)' = p BY <1>t, <2>1, <2>7, <3>2 DEF Client
      <4>2. {k \in 1..Len(log) : k > joined'[p] /\ log[k].from # p} = {}
        BY <1>t, <2>5
      <4>3. Range(<<>>) = {} /\ Rising(<<>>) BY DEF Range, Rising
      <4> QED BY <2>2, <2>4, <3>1, <4>1, <4>2, <4>3 DEF HasAll, DueBy
    <3>3. CASE t # s
      <4>1. slot'[t] = slot[t] /\ slot[t] \in Registered /\ slot[t] \in FDs
        BY <1>t, <2>1, <2>7, <2>8, <3>3, Occupied DEF Tables
      <4>2. Client(t)' = Client(t) BY <1>t, <2>1, <2>7, <4>1 DEF Client
      <4>3. Client(t) \in Peers /\ Client(t) # p
        BY <2>3, <2>8, <4>1, ClientNotFresh DEF Fresh
      <4>4. HasAll(Client(t), Len(log)) BY <2>2, <2>8, <4>1 DEF Handed, Posted
      <4>5. joined'[Client(t)] = joined[Client(t)] BY <2>5, <4>3
      <4> QED BY <2>2, <2>4, <3>1, <4>2, <4>4, <4>5 DEF HasAll, DueBy
    <3> QED BY <3>2, <3>3
  <2> QED BY <2>6, <2>8 DEF Handed
(* A text is posted: everybody has what came before it. *)
<1>14. CASE OnText
  <2>1. PICK text \in Texts : log' = Append(log, text) /\ text.from = Client(i)
    <3>1. DataTypes' BY NextData
    <3> DEFINE text == [from |-> Client(i), no |-> taken[Client(i)] + 1,
                        label |-> name[i], len |-> LabelLen[name[i]] + Msg.len]
    <3>2. log' = Append(log, text) BY <1>14 DEF OnText
    <3> HIDE DEF text
    <3>3. log'[Len(log) + 1] = text /\ Len(log') = Len(log) + 1
      BY <1>t, <3>2
    <3>4. text \in Texts BY <1>t, <3>1, <3>3 DEF DataTypes
    <3>5. text.from = Client(i) BY DEF text
    <3> QED BY <3>2, <3>4, <3>5
  <2>2. /\ Len(log') = Len(log) + 1 /\ log'[Len(log) + 1].from = Client(i)
        /\ \A k \in 1..Len(log) : log'[k] = log[k]
    BY <1>t, <2>1
  <2>3. /\ UNCHANGED <<slot, file, inbox, joined, i>> /\ pc = "drain"
        /\ pc' = "cast" /\ j' = 0
    BY <1>14 DEF OnText, TextThere, Draining, table, out
  <2>4. \A s \in Slots : Client(s)' = Client(s) BY <2>3 DEF Client
  <2>5. Casting'
    <3>1. Client(i)' = Client(i) BY <2>3 DEF Client
    <3>2. log' # <<>> BY <1>t, <2>2
    <3> QED BY <1>t, <2>2, <2>3, <3>1, <3>2 DEF Casting
  <2>6. ASSUME NEW s \in Slots, slot'[s] # -1 PROVE HasAll(Client(s), Posted(s))'
    <3> DEFINE q == Client(s)
    <3>1. Posted(s)' = Len(log) /\ Posted(s) = Len(log)
      BY <1>t, <1>s, <2>2, <2>3 DEF Posted
    <3>2. HasAll(q, Len(log)) BY <2>3, <2>6, <3>1 DEF Handed
    <3>3. {k \in 1..Len(log) : k > joined[q] /\ log'[k].from # q} = DueBy(q, Len(log))
      BY <2>2 DEF DueBy
    <3> HIDE DEF q
    <3>4. Client(s)' = q BY <2>4 DEF q
    <3> QED BY <2>3, <3>1, <3>2, <3>3, <3>4 DEF HasAll, DueBy
  <2> QED BY <2>5, <2>6 DEF Handed

(* The broadcast. *)
<1>b. ASSUME pc = "cast", pc' = "cast", UNCHANGED <<log, joined, i>>, Client(i)' = Client(i)
      PROVE  Casting'
  BY <1>b DEF Casting
<1>15. CASE CastSkip
  <2>1. /\ pc = "cast" /\ pc' = "cast" /\ j' = j + 1 /\ j \in Slots
        /\ UNCHANGED <<slot, file, inbox, log, joined, i>> /\ ~CastTo
    BY <1>15 DEF CastSkip, table, out, history
  <2>2. Casting' BY <1>b, <2>1 DEF Client
  <2>3. ASSUME NEW s \in Slots, slot'[s] # -1
        PROVE  /\ slot[s] # -1 /\ Client(s)' = Client(s)
               /\ DueBy(Client(s), Posted(s)') = DueBy(Client(s), Posted(s))
    <3>1. slot[s] # -1 /\ Client(s)' = Client(s) BY <2>1, <2>3 DEF Client
    <3>2. CASE s # j
      <4>1. Posted(s)' = Posted(s) BY <1>t, <1>s, <2>1, <3>2 DEF Posted
      <4> QED BY <3>1, <4>1
    <3>3. CASE s = j
      <4>1. s = i BY <2>1, <3>1, <3>3 DEF CastTo
      <4>2. Posted(s) = Len(log) - 1 /\ Posted(s)' = Len(log)
        BY <1>t, <1>s, <2>1, <3>3 DEF Posted
      <4>3. log[Len(log)].from = Client(s) BY <2>1, <4>1 DEF Casting
      <4>4. DueBy(Client(s), Len(log)) = DueBy(Client(s), Len(log) - 1)
        BY <1>t, <4>3 DEF DueBy
      <4> QED BY <3>1, <4>2, <4>4
    <3> QED BY <3>2, <3>3
  <2> QED BY <2>1, <2>2, <2>3, HandedKept
<1>16. CASE CastSend
  <2> DEFINE p == Client(j)
             n == Len(log)
  <2>1. /\ pc = "cast" /\ pc' = "cast" /\ j' = j + 1 /\ j \in Slots
        /\ slot[j] # -1 /\ j # i
        /\ UNCHANGED <<slot, file, log, joined, i>>
        /\ inbox' = [inbox EXCEPT ![p] = inbox[p] \o <<n>>]
    BY <1>16 DEF CastSend, CastTo, SendOK, table, history
  <2>2. Casting' BY <1>b, <2>1 DEF Client
  <2>3. p \in Peers /\ \A t \in Slots : t # j /\ slot[t] # -1 => Client(t) # p
    BY <1>t, <2>1, ClientsDiffer
  <2>4. i \in Slots /\ slot[i] # -1 BY <2>1, Sender
  <2>5. log[n].from # p /\ n > joined[p] /\ n \in 1..n
    <3>1. log # <<>> /\ log[n].from = Client(i) /\ joined[p] < n
      BY <2>1, <2>3 DEF Casting
    <3> QED BY <1>t, <2>1, <2>3, <2>4, <3>1
  <2>6. Posted(j) = n - 1 BY <1>t, <2>1 DEF Posted
  <2>7. Range(inbox[p]) = DueBy(p, n - 1) /\ Rising(inbox[p])
    BY <2>1, <2>6 DEF Handed, HasAll
  <2>8. DueBy(p, n) = DueBy(p, n - 1) \union {n} BY <1>t, <2>5 DEF DueBy
  <2> HIDE DEF p, n
  <2>9. n \in Nat /\ inbox[p] \in Seq(Nat) /\ joined[p] \in Nat BY <1>t, <2>3 DEF n
  <2>10. \A k \in Range(inbox[p]) : k < n BY <2>7, <2>9 DEF DueBy
  <2>11. Range(inbox[p] \o <<n>>) = DueBy(p, n) /\ Rising(inbox[p] \o <<n>>)
    BY <2>7, <2>8, <2>9, <2>10, RisingAppend
  <2>12. /\ inbox'[p] = inbox[p] \o <<n>>
         /\ \A q \in Peers : q # p => inbox'[q] = inbox[q]
    BY <1>t, <2>1, <2>3
  <2>13. ASSUME NEW s \in Slots, slot'[s] # -1 PROVE HasAll(Client(s), Posted(s))'
    <3>1. slot[s] # -1 /\ Client(s)' = Client(s) BY <2>1, <2>13 DEF Client
    <3>2. CASE s = j
      <4>1. Posted(s)' = n /\ Client(s) = p BY <1>s, <2>1, <3>2 DEF Posted, n, p
      <4>2. DueBy(p, n)' = DueBy(p, n)' /\ n' = n BY <2>1 DEF n
      <4>3. DueBy(p, n) = {k \in 1..n : k > joined'[p] /\ log'[k].from # p}
        BY <2>1 DEF DueBy
      <4> QED BY <2>11, <2>12, <3>1, <4>1, <4>3 DEF HasAll, DueBy
    <3>3. CASE s # j
      <4> DEFINE q == Client(s)
                 m == Posted(s)
      <4>1. Posted(s)' = m BY <1>t, <1>s, <2>1, <3>3 DEF Posted
      <4>2. q \in Peers /\ q # p BY <1>t, <2>3, <3>1, <3>3, ClientsDiffer
      <4>3. Range(inbox[q]) = DueBy(q, m) /\ Rising(inbox[q])
        BY <3>1 DEF Handed, HasAll
      <4>4. inbox'[q] = inbox[q] BY <2>12, <4>2
      <4> HIDE DEF q, m
      <4>5. DueBy(q, m) = {k \in 1..m : k > joined'[q] /\ log'[k].from # q}
        BY <2>1 DEF DueBy
      <4>6. Client(s)' = q BY <3>1 DEF q
      <4> QED BY <4>1, <4>3, <4>4, <4>5, <4>6 DEF HasAll, DueBy
    <3> QED BY <3>2, <3>3
  <2> QED BY <2>2, <2>13 DEF Handed
<1>17. CASE CastFails
  <2>1. /\ pc = "cast" /\ pc' = "cast" /\ j' = j + 1 /\ j \in Slots
        /\ slot[j] # -1 /\ j # i /\ clients_remove(j)
        /\ UNCHANGED <<inbox, log, joined, i>>
    BY <1>17 DEF CastFails, CastTo, out, history
  <2>2. i \in Slots /\ slot[i] # -1 BY <2>1, Sender
  <2>3. Client(i)' = Client(i)
    <3>1. i' = i /\ slot'[i] = slot[i] /\ file'[slot'[i]] = file[slot[i]]
      BY <1>t, <2>1, <2>2, RemoveOthers DEF Client
    <3> QED BY <3>1 DEF Client
  <2>4. Casting' BY <1>b, <2>1, <2>3
  <2>5. \A s \in Slots : slot'[s] # -1 =>
          s # j /\ slot[s] # -1 /\ Client(s)' = Client(s)
    BY <2>1, RemoveKept
  <2>6. \A s \in Slots : s # j => Posted(s)' = Posted(s)
    BY <1>t, <1>s, <2>1 DEF Posted
  <2> QED BY <2>1, <2>4, <2>5, <2>6, HandedKept
<1>18. CASE CastEnd
  <2>1. /\ pc = "cast" /\ pc' = "drain" /\ j \notin Slots
        /\ UNCHANGED <<slot, file, inbox, log, joined>>
    BY <1>18 DEF CastEnd, table, out, history
  <2>2. \A s \in Slots : s < j
    <3>1. j \in 0..MAX_CLIENTS BY DEF DInv, DataTypes
    <3> QED BY <1>s, <2>1, <3>1 DEF Slots
  <2>3. \A s \in Slots : Posted(s)' = Posted(s) /\ Client(s)' = Client(s)
    BY <1>s, <1>t, <2>1, <2>2 DEF Posted, Client
  <2> QED BY <2>1, <2>3, HandedKept DEF Casting
<1>19. ASSUME UNCHANGED <<slot, file, inbox, log, joined, pc, i, j>>
       PROVE  Casting' /\ Handed'
  <2>1. Client(i)' = Client(i) BY <1>19 DEF Client
  <2>2. \A s \in Slots : Posted(s)' = Posted(s) /\ Client(s)' = Client(s)
    BY <1>19 DEF Posted, Client
  <2> QED BY <1>19, <2>1, <2>2, HandedKept DEF Casting
<1>20. ASSUME NEW p \in Peers, Peer(p) PROVE Casting' /\ Handed'
  BY <1>19, <1>20
     DEF Peer, Connect, PeerSend, PeerRead, PeerClose, server, table, out, history, loop
<1>21. CASE UNCHANGED vars BY <1>19, <1>21 DEF vars, table, out, history, loop
<1> QED BY <1>3, <1>4, <1>5, <1>6, <1>7, <1>8, <1>9, <1>10, <1>11, <1>12, <1>13,
           <1>14, <1>15, <1>16, <1>17, <1>18, <1>20, <1>21
        DEF Next, Server

LEMMA NextHInv == HInv /\ [Next]_vars => HInv'
<1>1. DInv /\ [Next]_vars => DInv' BY NextKInv, NextData, NextAmounts DEF DInv
<1> QED BY <1>1, NextUnheard, NextHanded DEF HInv

LEMMA HandedInvariant == Spec => []HInv
BY InitHInv, NextHInv, PTL DEF Spec

(* Whoever is a member has a slot, and the other way round. *)
LEMMA MemberSlots ==
  ASSUME Tables
  PROVE  Members = {Client(s) : s \in {t \in Slots : slot[t] # -1}}
BY DEF Members, Registered, Client

(* Nobody in the table misses a text that was said since it joined, or has *)
(* one twice, or out of order.                                             *)
THEOREM NobodyMissesOut == Spec => []NoGaps
<1>1. HInv => NoGaps
  <2> SUFFICES ASSUME HInv, pc = "select", NEW p \in Members
               PROVE  Range(inbox[p]) = DueTo(p) /\ Rising(inbox[p])
    BY DEF NoGaps
  <2>1. Tables BY DInvFacts DEF HInv
  <2>2. PICK s \in Slots : slot[s] # -1 /\ p = Client(s) BY <2>1, MemberSlots
  <2>3. HasAll(p, Len(log)) BY <2>2 DEF HInv, Handed, Posted
  <2> QED BY <2>3 DEF HasAll, DueBy, DueTo
<1> QED BY <1>1, HandedInvariant, PTL

-----------------------------------------------------------------------------
(***************************************************************************)
(* The labels.  The name in an occupied slot is the one its client has     *)
(* asked for so far: a new client has said nothing and finds no name in    *)
(* its slot, and only its own frames change it.                            *)
(***************************************************************************)
Names ==
  \A s \in Slots : slot[s] # -1 => Asked(Client(s), taken[Client(s)], name[s])

NInv == HInv /\ Names /\ LabelIsSenders

LEMMA AskedNothing == \A p : Asked(p, 0, NoName)
BY DEF Asked

LEMMA AskedBefore ==
  ASSUME NEW p, NEW n \in Nat, NEW x, Asked(p, n, x), Script[p][n + 1].kind # "nick"
  PROVE  Asked(p, n + 1, x)
<1>1. CASE x = NoName /\ \A m \in 1..n : Script[p][m].kind # "nick"
  <2>1. \A m \in 1..n+1 : Script[p][m].kind # "nick" BY <1>1
  <2> QED BY <1>1, <2>1 DEF Asked
<1>2. ASSUME NEW m \in 1..n, Script[p][m].kind = "nick", Script[p][m].name = x,
             \A l \in m+1..n : Script[p][l].kind # "nick"
      PROVE  Asked(p, n + 1, x)
  <2>1. m \in 1..n+1 /\ \A l \in m+1..n+1 : Script[p][l].kind # "nick" BY <1>2
  <2> QED BY <1>2, <2>1 DEF Asked
<1> QED BY <1>1, <1>2 DEF Asked

LEMMA AskedNow ==
  ASSUME NEW p, NEW n \in Nat, Script[p][n + 1].kind = "nick"
  PROVE  Asked(p, n + 1, Script[p][n + 1].name)
<1>1. n+1 \in 1..n+1 /\ \A l \in (n+1)+1..n+1 : FALSE OBVIOUS
<1> QED BY <1>1 DEF Asked

(* Steps that leave the names of the clients that stay. *)
LEMMA NamesKept ==
  ASSUME Names, UNCHANGED taken,
         \A s \in Slots : slot'[s] # -1 =>
            slot[s] # -1 /\ Client(s)' = Client(s) /\ name'[s] = name[s]
  PROVE  Names'
<1> SUFFICES ASSUME NEW s \in Slots, slot'[s] # -1
             PROVE  Asked(Client(s)', taken[Client(s)'], name'[s])
  BY DEF Names, Asked
<1>1. Asked(Client(s), taken[Client(s)], name[s]) BY DEF Names
<1> QED BY <1>1

LEMMA NextNames == HInv /\ Names /\ [Next]_vars => Names'
<1> SUFFICES ASSUME HInv, Names, [Next]_vars PROVE Names' OBVIOUS
<1> USE DEF HInv
<1>t. /\ name \in [Slots -> Nicks] /\ slot \in [Slots -> FDs \union {-1}]
      /\ file \in [FDs -> Peers \union {NoPeer}]
      /\ taken \in [Peers -> Nat] /\ Tables
  BY DInvFacts DEF DInv, DataTypes
<1>1. ASSUME UNCHANGED <<slot, file, name, taken>> PROVE Names'
  BY <1>1, NamesKept DEF Client
<1>2. ASSUME NEW s \in Slots, slot[s] # -1, clients_remove(s), UNCHANGED taken
      PROVE  Names'
  <2>1. \A t \in Slots : t # s => name'[t] = name[t]
    BY <1>2, <1>t DEF clients_remove
  <2> QED BY <1>2, <2>1, RemoveKept, NamesKept
<1>3. CASE Select \/ SelectError \/ AcceptFails \/ Reject \/ ScanEnd
  BY <1>1, <1>3 DEF Select, SelectError, AcceptFails, Reject, ScanEnd, table
<1>4. CASE Accept
  <2>0. PICK p : p = Head(backlog) OBVIOUS
  <2>1. PICK fd \in FreeFds, s \in FreeSlots :
          /\ file' = [file EXCEPT ![fd] = p]
          /\ slot' = [slot EXCEPT ![s] = fd]
          /\ name' = [name EXCEPT ![s] = NoName]
    BY <1>4, <2>0 DEF Accept
  <2>2. taken' = taken /\ taken[p] = 0
    <3>1. pc = "accept" /\ taken' = taken BY <1>4 DEF Accept
    <3>2. backlog # <<>> /\ backlog \in Seq(Peers)
      BY <3>1 DEF DInv, KInv, RInv, TInv, Turn, Tables, TableTypes
    <3>3. p \in Peers /\ p \in Range(backlog) BY <2>0, <3>2 DEF Range
    <3> QED BY <3>1, <3>3 DEF Unheard, Fresh
  <2>3. fd \in FDs /\ fd \notin Registered /\ s \in Slots /\ slot[s] = -1
    BY <1>t, <2>1 DEF FreeFds, FreeSlots, Tables, OneSlotPerSocket
  <2>4. ASSUME NEW t \in Slots, slot'[t] # -1
        PROVE  Asked(Client(t)', taken[Client(t)'], name'[t])
    <3>1. CASE t = s
      <4>1. Client(t)' = p /\ name'[t] = NoName BY <1>t, <2>1, <2>3, <3>1 DEF Client
      <4> QED BY <2>2, <4>1, AskedNothing
    <3>2. CASE t # s
      <4>1. slot'[t] = slot[t] /\ slot[t] \in Registered /\ slot[t] \in FDs
        BY <1>t, <2>1, <2>3, <2>4, <3>2, Occupied DEF Tables
      <4>2. Client(t)' = Client(t) /\ name'[t] = name[t]
        BY <1>t, <2>1, <2>3, <3>2, <4>1 DEF Client
      <4> QED BY <2>4, <4>1, <4>2 DEF Names
    <3> QED BY <3>1, <3>2
  <2> QED BY <2>2, <2>4 DEF Names, Asked
<1>5. ASSUME NEW s \in Slots, RecvGone(s) PROVE Names'
  BY <1>2, <1>5 DEF RecvGone, Serves, First, ToServe
<1>6. ASSUME NEW s \in Slots, RecvData(s) PROVE Names'
  BY <1>1, <1>6 DEF RecvData, table
<1>7. CASE DrainEnd BY <1>1, <1>7 DEF DrainEnd, table
<1>8. CASE DrainTooLarge BY <1>2, <1>8, Sender DEF DrainTooLarge, Draining
(* One frame of the sender is taken. *)
<1>9. ASSUME Draining, Taken, UNCHANGED <<slot, file>>,
             \A s \in Slots : s # i => name'[s] = name[s],
             Asked(Client(i), taken[Client(i)] + 1, name'[i])
      PROVE  Names'
  <2>1. i \in Slots /\ slot[i] # -1 /\ Client(i) \in Peers BY <1>9, Sender DEF Draining
  <2>2. /\ taken'[Client(i)] = taken[Client(i)] + 1
        /\ \A p \in Peers : p # Client(i) => taken'[p] = taken[p]
    BY <1>9, <1>t, <2>1 DEF Taken
  <2>3. ASSUME NEW s \in Slots, slot'[s] # -1
        PROVE  Asked(Client(s)', taken'[Client(s)'], name'[s])
    <3>1. Client(s)' = Client(s) /\ slot[s] # -1 BY <1>9, <2>3 DEF Client
    <3>2. CASE s = i BY <1>9, <2>2, <3>1, <3>2
    <3>3. CASE s # i
      <4>1. Client(s) \in Peers /\ Client(s) # Client(i)
        BY <1>t, <2>1, <3>1, <3>3, ClientsDiffer
      <4> QED BY <1>9, <2>2, <3>1, <3>3, <4>1 DEF Names
    <3> QED BY <3>2, <3>3
  <2> QED BY <2>3 DEF Names, Asked
<1>10. ASSUME Draining, Msg.kind # "nick"
       PROVE  Asked(Client(i), taken[Client(i)] + 1, name[i])
  <2>1. i \in Slots /\ slot[i] # -1 /\ Client(i) \in Peers BY <1>10, Sender DEF Draining
  <2>2. taken[Client(i)] \in Nat BY <1>t, <2>1
  <2> QED BY <1>10, <2>1, <2>2, AskedBefore DEF Names, Msg
<1>11. CASE OnNick
  <2>1. i \in Slots /\ Client(i) \in Peers BY <1>11, Sender DEF OnNick, Draining
  <2>2. taken[Client(i)] \in Nat BY <1>t, <2>1
  <2>3. Asked(Client(i), taken[Client(i)] + 1, Msg.name)
    BY <1>11, <2>2, AskedNow DEF OnNick, Msg
  <2>4. name'[i] = Msg.name /\ \A s \in Slots : s # i => name'[s] = name[s]
    BY <1>11, <1>t, <2>1 DEF OnNick
  <2> QED BY <1>9, <1>11, <2>3, <2>4 DEF OnNick
<1>12. CASE OnTextSkipped
  BY <1>9, <1>10, <1>12 DEF OnTextSkipped, TextThere, table
<1>13. CASE OnText
  BY <1>9, <1>10, <1>13 DEF OnText, TextThere, table
<1>14. CASE CastSkip \/ CastSend \/ CastEnd
  BY <1>1, <1>14 DEF CastSkip, CastSend, CastEnd, table
<1>15. CASE CastFails BY <1>2, <1>15 DEF CastFails, CastTo
<1>16. ASSUME NEW p \in Peers, Peer(p) PROVE Names'
  BY <1>1, <1>16 DEF Peer, Connect, PeerSend, PeerRead, PeerClose, server, table
<1>17. CASE UNCHANGED vars BY <1>1, <1>17 DEF vars, table
<1> QED BY <1>3, <1>4, <1>5, <1>6, <1>7, <1>8, <1>11, <1>12, <1>13, <1>14, <1>15,
           <1>16, <1>17
        DEF Next, Server

LEMMA NextLabels == NInv /\ [Next]_vars => LabelIsSenders'
<1> SUFFICES ASSUME NInv, [Next]_vars PROVE LabelIsSenders' OBVIOUS
<1> USE DEF NInv
<1>t. log \in Seq(Texts) /\ Len(log) \in Nat /\ taken \in [Peers -> Nat]
  BY DInvFacts DEF HInv
<1>1. ASSUME UNCHANGED log PROVE LabelIsSenders'
  BY <1>1 DEF LabelIsSenders, Asked
<1>2. CASE OnText
  <2> DEFINE text == [from |-> Client(i), no |-> taken[Client(i)] + 1,
                      label |-> name[i], len |-> LabelLen[name[i]] + Msg.len]
  <2>1. log' = Append(log, text) BY <1>2 DEF OnText
  <2>2. /\ text.from = Client(i) /\ text.no = taken[Client(i)] + 1
        /\ text.label = name[i]
    OBVIOUS
  <2> HIDE DEF text
  <2>3. /\ Len(log') = Len(log) + 1 /\ log'[Len(log) + 1] = text
        /\ \A k \in 1..Len(log) : log'[k] = log[k]
    BY <1>t, <2>1
  <2>4. Asked(text.from, text.no, text.label)
    <3>1. i \in Slots /\ slot[i] # -1 /\ Client(i) \in Peers /\ Msg.kind # "nick"
      BY <1>2, Sender DEF OnText, TextThere, Draining, HInv
    <3>2. taken[Client(i)] \in Nat BY <1>t, <3>1
    <3> QED BY <2>2, <3>1, <3>2, AskedBefore DEF Names, Msg
  <2>5. ASSUME NEW k \in 1..Len(log') PROVE Asked(log'[k].from, log'[k].no, log'[k].label)
    <3>1. CASE k = Len(log) + 1 BY <2>3, <2>4, <3>1
    <3>2. CASE k # Len(log) + 1
      <4>1. k \in 1..Len(log) /\ log'[k] = log[k] BY <1>t, <2>3, <3>2
      <4> QED BY <4>1 DEF LabelIsSenders
    <3> QED BY <3>1, <3>2
  <2> QED BY <2>5 DEF LabelIsSenders, Asked
<1>3. CASE Select \/ SelectError \/ AcceptFails \/ Reject \/ Accept \/ ScanEnd
  BY <1>1, <1>3 DEF Select, SelectError, AcceptFails, Reject, Accept, ScanEnd, history
<1>4. ASSUME NEW s \in Slots, RecvGone(s) \/ RecvData(s) PROVE LabelIsSenders'
  BY <1>1, <1>4 DEF RecvGone, RecvData, history
<1>5. CASE DrainEnd \/ DrainTooLarge \/ OnNick \/ OnTextSkipped
  BY <1>1, <1>5 DEF DrainEnd, DrainTooLarge, OnNick, OnTextSkipped, history
<1>6. CASE CastSkip \/ CastSend \/ CastFails \/ CastEnd
  BY <1>1, <1>6 DEF CastSkip, CastSend, CastFails, CastEnd, history
<1>7. ASSUME NEW p \in Peers, Peer(p) PROVE LabelIsSenders'
  BY <1>1, <1>7 DEF Peer, Connect, PeerSend, PeerRead, PeerClose, server, history
<1>8. CASE UNCHANGED vars BY <1>1, <1>8 DEF vars, history
<1> QED BY <1>2, <1>3, <1>4, <1>5, <1>6, <1>7, <1>8 DEF Next, Server

LEMMA NamesInvariant == Spec => []NInv
<1>1. Init => NInv
  BY InitHInv DEF Init, NInv, Names, LabelIsSenders
<1>2. NInv /\ [Next]_vars => NInv' BY NextHInv, NextNames, NextLabels DEF NInv
<1> QED BY <1>1, <1>2, PTL DEF Spec

(* Nobody is taken for somebody else: the name a text goes out with is the *)
(* one its sender asked for last, whoever had the slot before.             *)
THEOREM LabelsRight == Spec => []LabelIsSenders
BY NamesInvariant, PTL DEF NInv

-----------------------------------------------------------------------------
(***************************************************************************)
(* The refinement.  A client joins the room when it is accepted, a text is *)
(* posted by OnText and handed out by CastSend, and who is removed from    *)
(* the table leaves; nothing else shows.                                   *)
(***************************************************************************)
Authors == [k \in 1..Len(log) |-> log[k].from]

LEMMA AuthorsLen ==
  ASSUME HInv
  PROVE  /\ Authors \in Seq(Peers) /\ Len(Authors) = Len(log)
         /\ \A k \in 1..Len(log) : Authors[k] = log[k].from
<1>1. log \in Seq(Texts) /\ Len(log) \in Nat BY DInvFacts DEF HInv
<1>2. \A k \in 1..Len(log) : log[k].from \in Peers
  <2> SUFFICES ASSUME NEW k \in 1..Len(log) PROVE log[k].from \in Peers OBVIOUS
  <2>1. log[k] \in Texts BY <1>1
  <2> QED BY <2>1 DEF Texts
<1>3. Authors \in [1..Len(log) -> Peers] BY <1>2 DEF Authors
<1>4. Authors \in Seq(Peers) BY <1>1, <1>3
<1>5. Len(Authors) = Len(log) BY <1>1, <1>3, <1>4
<1> QED BY <1>4, <1>5 DEF Authors

LEMMA InitRoom == Init => Room!Init
<1> SUFFICES ASSUME Init PROVE Room!Init OBVIOUS
<1>1. Members = {} BY DEF Init, Members, Registered
<1>2. [k \in 1..Len(log) |-> log[k].from] = <<>>
  <2>1. 1..Len(log) = {} BY DEF Init
  <2> QED BY <2>1
<1> QED BY <1>1, <1>2 DEF Init, Room!Init

(* Only the table, the log and the inboxes show. *)
LEMMA RoomSame ==
  ASSUME UNCHANGED <<slot, file, log, joined, inbox>>
  PROVE  UNCHANGED Room!vars
<1>1. Members' = Members BY DEF Members, Registered
<1> QED BY <1>1 DEF Room!vars

LEMMA RoomLeave ==
  ASSUME HInv, NEW s \in Slots, slot[s] # -1, clients_remove(s),
         UNCHANGED <<log, joined, inbox>>
  PROVE  Room!Next
<1>1. Tables /\ slot \in [Slots -> FDs \union {-1}] BY DInvFacts DEF HInv
<1>2. Client(s) \in Peers BY <1>1, ClientsDiffer
<1>4. Members' = Members \ {Client(s)}
  <2>1. Members = {Client(t) : t \in {u \in Slots : slot[u] # -1}} BY <1>1, MemberSlots
  <2>2. Members' = {Client(t)' : t \in {u \in Slots : slot'[u] # -1}}
    BY DEF Members, Registered, Client
  <2>3. \A t \in Slots : slot'[t] # -1 <=> t # s /\ slot[t] # -1
    BY <1>1 DEF clients_remove
  <2>4. \A t \in Slots : slot'[t] # -1 => Client(t)' = Client(t) BY RemoveKept
  <2>5. \A t \in Slots : t # s /\ slot[t] # -1 => Client(t) # Client(s)
    BY <1>1, ClientsDiffer
  <2> QED BY <2>1, <2>2, <2>3, <2>4, <2>5
<1>5. Client(s) \in Members BY <1>1, MemberSlots
<1>6. Room!Leave(Client(s)) BY <1>4, <1>5 DEF Room!Leave
<1> QED BY <1>2, <1>6 DEF Room!Next

LEMMA RoomJoin ==
  ASSUME HInv, Accept
  PROVE  Room!Next
<1> USE DEF HInv
<1>t. /\ Tables /\ joined \in [Peers -> Nat] /\ slot \in [Slots -> FDs \union {-1}]
      /\ file \in [FDs -> Peers \union {NoPeer}]
  BY DInvFacts
<1>0. PICK p : p = Head(backlog) OBVIOUS
<1>1. PICK fd \in FreeFds, s \in FreeSlots :
        /\ file' = [file EXCEPT ![fd] = p]
        /\ slot' = [slot EXCEPT ![s] = fd]
  BY <1>0 DEF Accept
<1>2. fd \in FDs /\ fd \notin Registered /\ s \in Slots /\ slot[s] = -1
  BY <1>t, <1>1 DEF FreeFds, FreeSlots, Tables, OneSlotPerSocket
<1>3. p \in Peers /\ p \in Range(backlog)
  <2>1. backlog # <<>> /\ backlog \in Seq(Peers)
    BY DEF Accept, DInv, KInv, RInv, TInv, Turn, Tables, TableTypes
  <2> QED BY <1>0, <2>1 DEF Range
<1>4. inbox[p] = <<>> BY <1>3 DEF Unheard, Fresh
<1>5. p \notin Members
  <2>1. \A t \in Slots : slot[t] # -1 => Client(t) # p BY <1>3, ClientNotFresh DEF Fresh
  <2> QED BY <1>t, <2>1, MemberSlots
<1>6. Members' = Members \union {p}
  <2>1. Registered' = Registered \union {fd}
    <3>1. \A t \in Slots : slot'[t] = IF t = s THEN fd ELSE slot[t] BY <1>t, <1>1, <1>2
    <3>2. fd # -1 BY <1>2, FDsAreNat
    <3> QED BY <1>2, <3>1, <3>2 DEF Registered
  <2>2. Registered \subseteq FDs BY <1>t DEF Registered
  <2>3. file'[fd] = p /\ \A g \in Registered : file'[g] = file[g]
    BY <1>t, <1>1, <1>2, <2>2
  <2> QED BY <2>1, <2>3 DEF Members
<1>7. inbox' = inbox /\ log' = log BY <1>0, <1>3, NoTextSent DEF Accept
<1>8. joined' = [joined EXCEPT ![p] = Len(Authors)]
  BY <1>0, AuthorsLen DEF Accept
<1>9. Room!Join(p) BY <1>4, <1>5, <1>6, <1>7, <1>8 DEF Room!Join, Authors
<1> QED BY <1>3, <1>9 DEF Room!Next

LEMMA RoomPost ==
  ASSUME HInv, OnText
  PROVE  Room!Next
<1>t. log \in Seq(Texts) /\ Len(log) \in Nat /\ Tables BY DInvFacts DEF HInv
<1>0. PICK p : p = Client(i) OBVIOUS
<1>1. i \in Slots /\ slot[i] # -1 /\ p \in Peers
  BY <1>0, Sender DEF OnText, TextThere, Draining, HInv
<1>2. p \in Members BY <1>t, <1>0, <1>1, MemberSlots
<1>3. UNCHANGED <<slot, file, joined, inbox>> BY DEF OnText, table, out
<1>4. Members' = Members BY <1>3 DEF Members, Registered
<1>5. Authors' = Append(Authors, p)
  <2> DEFINE text == [from |-> p, no |-> taken[Client(i)] + 1,
                      label |-> name[i], len |-> LabelLen[name[i]] + Msg.len]
  <2>1. log' = Append(log, text) BY <1>0 DEF OnText
  <2>2. text.from = p OBVIOUS
  <2> HIDE DEF text
  <2>3. /\ Len(log') = Len(log) + 1 /\ log'[Len(log) + 1] = text
        /\ \A k \in 1..Len(log) : log'[k] = log[k]
    BY <1>t, <2>1
  <2>4. Authors' = [k \in 1..Len(log)+1 |-> log'[k].from] BY <2>3 DEF Authors
  <2>5. /\ Authors \in Seq(Peers) /\ Len(Authors) = Len(log)
        /\ \A k \in 1..Len(log) : Authors[k] = log[k].from
    BY AuthorsLen
  <2>6. Append(Authors, p) =
          [k \in 1..Len(log)+1 |-> IF k = Len(log)+1 THEN p ELSE Authors[k]]
    <3> HIDE DEF Authors
    <3>1. Append(Authors, p) \in Seq(Peers) BY <1>1, <2>5
    <3>2. Len(Append(Authors, p)) = Len(log) + 1 BY <1>1, <2>5
    <3>3. \A k \in 1..Len(log)+1 :
            Append(Authors, p)[k] = IF k = Len(log)+1 THEN p ELSE Authors[k]
      BY <1>1, <1>t, <2>5
    <3> DEFINE longer == Append(Authors, p)
    <3>4. longer = [k \in 1..Len(longer) |-> longer[k]]
      <4> HIDE DEF longer
      <4>1. longer \in Seq(Peers) BY <3>1 DEF longer
      <4> QED BY <4>1
    <3> QED BY <3>2, <3>3, <3>4
  <2>7. \A k \in 1..Len(log)+1 :
          log'[k].from = IF k = Len(log)+1 THEN p ELSE Authors[k]
    BY <1>t, <2>2, <2>3, <2>5
  <2> QED BY <2>4, <2>6, <2>7
<1>6. Room!Post(p) BY <1>2, <1>3, <1>4, <1>5 DEF Room!Post, Authors
<1> QED BY <1>1, <1>6 DEF Room!Next

(* The text being broadcast is the next one that the client of slot j is   *)
(* due: what lies between it and the last one handed out is its own.       *)
LEMMA RoomHand ==
  ASSUME HInv, CastSend
  PROVE  Room!Next
<1> DEFINE p == Client(j)
           n == Len(log)
<1> USE DEF HInv
<1>t. /\ log \in Seq(Texts) /\ Len(log) \in Nat /\ Tables /\ j \in Nat
      /\ inbox \in [Peers -> Seq(Nat)] /\ joined \in [Peers -> Nat]
  BY DInvFacts
<1>1. /\ pc = "cast" /\ j \in Slots /\ slot[j] # -1 /\ j # i
      /\ UNCHANGED <<slot, file, log, joined>>
      /\ inbox' = [inbox EXCEPT ![p] = inbox[p] \o <<n>>]
  BY DEF CastSend, CastTo, SendOK, table, history
<1>2. p \in Peers /\ i \in Slots /\ slot[i] # -1 /\ Client(i) # p
  BY <1>t, <1>1, Sender, ClientsDiffer
<1>3. n \in 1..n /\ log[n].from # p /\ joined[p] < n
  BY <1>t, <1>1, <1>2 DEF Casting
<1>4. Range(inbox[p]) = DueBy(p, n - 1) /\ Rising(inbox[p])
  <2>1. Posted(j) = n - 1 BY <1>t, <1>1 DEF Posted
  <2> QED BY <1>1, <2>1 DEF Handed, HasAll
<1> HIDE DEF p, n
<1>5. p \in Members BY <1>t, <1>1, MemberSlots DEF p
<1>6. n \in Nat /\ joined[p] \in Nat /\ inbox[p] \in Seq(Nat) BY <1>t, <1>2 DEF n
<1> DEFINE cursor == IF inbox[p] = <<>> THEN joined[p] ELSE inbox[p][Len(inbox[p])]
<1>7. /\ cursor \in Nat /\ cursor < n
      /\ \A m \in cursor+1..n-1 : log[m].from = p
  <2>1. CASE inbox[p] = <<>>
    <3>1. Range(inbox[p]) = {} BY <2>1 DEF Range
    <3>2. \A m \in joined[p]+1..n-1 : m \in 1..n-1 /\ m > joined[p] BY <1>6
    <3> QED BY <1>3, <1>4, <1>6, <2>1, <3>1, <3>2 DEF DueBy
  <2>2. CASE inbox[p] # <<>>
    <3> DEFINE last == inbox[p][Len(inbox[p])]
    <3>1. Len(inbox[p]) \in DOMAIN inbox[p] /\ DOMAIN inbox[p] = 1..Len(inbox[p])
      BY <1>6, <2>2
    <3>2. last \in DueBy(p, n - 1) BY <1>4, <3>1 DEF Range
    <3>3. \A m \in Range(inbox[p]) : m <= last
      <4> SUFFICES ASSUME NEW k \in 1..Len(inbox[p]) PROVE inbox[p][k] <= last
        BY <3>1 DEF Range
      <4>1. inbox[p][k] \in Nat /\ last \in Nat /\ Len(inbox[p]) \in Nat BY <1>6, <3>1
      <4>2. CASE k = Len(inbox[p]) BY <4>1, <4>2
      <4>3. CASE k < Len(inbox[p]) BY <1>4, <3>1, <4>1, <4>3 DEF Rising
      <4> QED BY <4>1, <4>2, <4>3
    <3> HIDE DEF last
    <3>4. last \in 1..n-1 /\ last > joined[p] BY <3>2 DEF DueBy
    <3>5. ASSUME NEW m \in last+1..n-1 PROVE log[m].from = p
      <4>1. m \in 1..n-1 /\ m > joined[p] /\ ~(m <= last) BY <1>6, <3>4, <3>5
      <4>2. m \notin DueBy(p, n - 1) BY <1>4, <3>3, <4>1
      <4> QED BY <4>1, <4>2 DEF DueBy
    <3>6. cursor = last BY <2>2 DEF last
    <3> QED BY <1>6, <3>4, <3>5, <3>6
  <2> QED BY <2>1, <2>2
<1>8. cursor = Room!Cursor(p) BY DEF Room!Cursor
<1> HIDE DEF cursor
<1>9. /\ Authors \in Seq(Peers) /\ Len(Authors) = n
      /\ \A k \in 1..n : Authors[k] = log[k].from
  BY AuthorsLen DEF n
<1>10. Room!Due(p, n)
  <2>1. n \in cursor+1..n BY <1>6, <1>7
  <2>2. Authors[n] # p BY <1>3, <1>9
  <2>3. \A m \in cursor+1..n-1 : Authors[m] = p BY <1>6, <1>7, <1>9
  <2> QED BY <1>8, <1>9, <2>1, <2>2, <2>3 DEF Room!Due, Authors
<1>11. inbox' = [inbox EXCEPT ![p] = Append(inbox[p], n)]
  <2>1. inbox[p] \o <<n>> = Append(inbox[p], n) BY <1>6, AppendIsConcat
  <2> QED BY <1>1, <2>1
<1>12. Members' = Members BY <1>1 DEF Members, Registered
<1>13. Room!Hand(p)
  BY <1>1, <1>3, <1>5, <1>9, <1>10, <1>11, <1>12 DEF Room!Hand, Authors
<1> QED BY <1>2, <1>13 DEF Room!Next

LEMMA NextRoom == HInv /\ [Next]_vars => [Room!Next]_(Room!vars)
<1> SUFFICES ASSUME HInv, [Next]_vars PROVE Room!Next \/ UNCHANGED Room!vars OBVIOUS
<1>1. CASE Select \/ SelectError \/ AcceptFails \/ Reject \/ ScanEnd
  BY <1>1, RoomSame DEF Select, SelectError, AcceptFails, Reject, ScanEnd, table, out, history
<1>2. CASE Accept BY <1>2, RoomJoin
<1>3. ASSUME NEW s \in Slots, RecvGone(s) PROVE Room!Next
  BY <1>3, RoomLeave DEF RecvGone, Serves, First, ToServe, out, history
<1>4. ASSUME NEW s \in Slots, RecvData(s) PROVE UNCHANGED Room!vars
  BY <1>4, RoomSame DEF RecvData, table, out, history
<1>5. CASE DrainEnd \/ OnTextSkipped
  BY <1>5, RoomSame DEF DrainEnd, OnTextSkipped, table, out, history
<1>6. CASE DrainTooLarge
  <2>1. i \in Slots /\ slot[i] # -1
    BY <1>6, Sender DEF DrainTooLarge, Draining, HInv
  <2> QED BY <1>6, <2>1, RoomLeave DEF DrainTooLarge, out, history
<1>7. CASE OnNick
  <2>1. inbox' = inbox BY <1>7, Sender, NoTextSent DEF OnNick, Draining, HInv
  <2> QED BY <1>7, <2>1, RoomSame DEF OnNick, history
<1>8. CASE OnText BY <1>8, RoomPost
<1>9. CASE CastSkip \/ CastEnd
  BY <1>9, RoomSame DEF CastSkip, CastEnd, table, out, history
<1>10. CASE CastSend BY <1>10, RoomHand
<1>11. CASE CastFails
  BY <1>11, RoomLeave DEF CastFails, CastTo, out, history
<1>12. ASSUME NEW p \in Peers, Peer(p) PROVE UNCHANGED Room!vars
  BY <1>12, RoomSame
     DEF Peer, Connect, PeerSend, PeerRead, PeerClose, server, table, out, history
<1>13. CASE UNCHANGED vars BY <1>13, RoomSame DEF vars, table, out, history
<1> QED BY <1>1, <1>2, <1>3, <1>4, <1>5, <1>6, <1>7, <1>8, <1>9, <1>10, <1>11, <1>12,
           <1>13
        DEF Next, Server

(* The server implements the conversation: what a member is handed, in     *)
(* which order and how often is what ChatRoom says.                        *)
THEOREM ImplementsRoom == Spec => RefinesRoom
BY InitRoom, NextRoom, HandedInvariant, PTL DEF Spec, RefinesRoom, Room!Spec
=============================================================================
