------------------------------ MODULE ChatRoom ------------------------------
(***************************************************************************)
(* What the chat server keeps to, without sockets, descriptors, slots or   *)
(* rounds: there is one conversation, a sequence of texts; a member is     *)
(* handed every text posted since it joined except its own, in the order   *)
(* of the conversation, each exactly once, for as long as it is a member.  *)
(* That a sender is left out is the code's rule (clients.c:143), not its   *)
(* documentation's: README.md:89 shows Alice what she has said herself,    *)
(* and the comment at clients.c:119 speaks of all clients.                 *)
(***************************************************************************)
EXTENDS Naturals, Sequences

CONSTANTS
  Peers   (* the connections that may join, each at most once *)

VARIABLES
  members,  (* who is connected                                          *)
  log,      (* log[n] is the author of the n-th text                     *)
  since,    (* since[p]: length of the log when p joined                 *)
  inbox     (* inbox[p]: numbers of the texts p was handed, in order     *)

vars == <<members, log, since, inbox>>

Init ==
  /\ members = {}
  /\ log = <<>>
  /\ since = [p \in Peers |-> 0]
  /\ inbox = [p \in Peers |-> <<>>]

(* The number of the last text that p is known to have passed. *)
Cursor(p) == IF inbox[p] = <<>> THEN since[p] ELSE inbox[p][Len(inbox[p])]

(* Text n is the next one p is due. *)
Due(p, n) ==
  /\ n \in Cursor(p)+1 .. Len(log)
  /\ log[n] # p
  /\ \A m \in Cursor(p)+1 .. n-1 : log[m] = p

Join(p) ==
  /\ p \notin members /\ inbox[p] = <<>>
  /\ members' = members \union {p}
  /\ since' = [since EXCEPT ![p] = Len(log)]
  /\ UNCHANGED <<log, inbox>>

Post(p) ==
  /\ p \in members
  /\ log' = Append(log, p)
  /\ UNCHANGED <<members, since, inbox>>

Hand(p) ==
  /\ p \in members
  /\ \E n \in 1..Len(log) :
       /\ Due(p, n)
       /\ inbox' = [inbox EXCEPT ![p] = Append(@, n)]
  /\ UNCHANGED <<members, log, since>>

Leave(p) ==
  /\ p \in members
  /\ members' = members \ {p}
  /\ UNCHANGED <<log, since, inbox>>

Next == \E p \in Peers : Join(p) \/ Post(p) \/ Hand(p) \/ Leave(p)

Spec == Init /\ [][Next]_vars
=============================================================================
