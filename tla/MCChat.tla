------------------------------- MODULE MCChat -------------------------------
(***************************************************************************)
(* Instances of ChatServer: three connections a, b, c and what they say.   *)
(***************************************************************************)
EXTENDS ChatServer, TLC

CONSTANTS a, b, c

Nick(x) == [kind |-> "nick", name |-> x]
Text(n) == [kind |-> "text", len |-> n]

(* With no name the label is the address; lengths in units of a frame of   *)
(* at most 4: a text of 4 just fits behind "[x] ", not behind an address.  *)
Labels == [x \in {NoName, "x"} |-> IF x = NoName THEN 3 ELSE 2]

(* a and b talk; c is dropped for an oversized frame. *)
Talk == (a :> <<Text(1)>>) @@ (b :> <<Text(1)>>) @@ (c :> <<Text(5)>>)

(* a names itself, goes back to its address and talks; b listens; c, who   *)
(* may take over a's slot, says a text that its label leaves no room for.  *)
Named == (a :> <<Nick("x"), Nick(NoName), Text(1)>>)
           @@ (b :> <<>>) @@ (c :> <<Text(4)>>)
=============================================================================
