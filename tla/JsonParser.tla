----------------------------- MODULE JsonParser -----------------------------
(***************************************************************************)
(* json-parser: parser.c's recursive descent, value.c's cells, and what    *)
(* main() does with the result, over the tokens lexer_next returns.  The   *)
(* subject is memory: every malloc is a numbered block, and the model      *)
(* keeps which blocks are live, who points to them, and whether a block    *)
(* was freed twice or touched after being freed.  Any allocation may fail. *)
(***************************************************************************)
EXTENDS Naturals, Sequences

CONSTANTS
  Strings,    (* string tokens                                             *)
  Chars,      (* the characters of each, as they stand between its quotes  *)
  Scalars,    (* literal tokens (true, false, null)                        *)
  Numbers,    (* number tokens                                             *)
  Doubles,    (* values of type double                                     *)
  strtod,     (* the one nearest to each number                            *)
  Errors,     (* what else lexer_next may return: TK_ERROR                 *)
  FIRST_CAP,  (* items an array or object has room for at first: 10        *)
  MaxTokens,  (* tokens of a document (model bound)                        *)
  MaxFails    (* allocations that fail (model bound)                       *)

EOF  == "eof"
Punctuation == {"{", "}", "[", "]", ":", ","}
Kinds == Punctuation \union Strings \union Scalars \union Numbers \union Errors

ASSUME JsonAssumption ==
  /\ FIRST_CAP \in Nat \ {0}
  /\ Chars \in [Strings -> Seq(STRING)] /\ strtod \in [Numbers -> Doubles]
  /\ MaxTokens \in Nat /\ MaxFails \in Nat
  /\ EOF \notin Kinds
  /\ LET kinds == <<Punctuation, Strings, Scalars, Numbers, Errors>>   (* an enum *)
     IN  \A m, n \in DOMAIN kinds : m # n => kinds[m] \cap kinds[n] = {}

VARIABLES
  doc,    (* the tokens read so far; p->look is the last one               *)
  pc,     (* where the parser or main() is                                 *)
  stack,  (* calls of parse_array and parse_object, the innermost last,    *)
          (* with their locals: the new element or member value and key    *)
  ok,     (* what the call that just ended returned                        *)
  cells,  (* contents of each block ever allocated                         *)
  live,   (* those not freed                                               *)
  bad,    (* a freed block was freed again or touched                      *)
  lost,   (* blocks nobody points to any more (history)                    *)
  fails,  (* allocations that have failed (for the bound)                  *)
  rc      (* exit status of main()                                         *)

vars == <<doc, pc, stack, ok, cells, live, bad, lost, fails, rc>>

NULL == 0
root == 1   (* main()'s jv_new() comes first *)
look == doc[Len(doc)]

(* (Value){0}: the kind 0 is JV_OBJECT.  buf is u.obj.items, u.arr.items   *)
(* or u.str.ptr; items what the array behind it holds.  text stands for the*)
(* characters a block holds, or a number's double.                         *)
Zero     == [kind |-> "object", buf |-> NULL, cap |-> 0, items |-> <<>>, text |-> ""]
Bytes(t) == [Zero EXCEPT !.kind = "bytes", !.text = t]

Init ==
  /\ doc = <<>> /\ pc = "start" /\ stack = <<>> /\ ok = FALSE
  /\ cells = <<>> /\ live = {} /\ bad = FALSE /\ lost = {}
  /\ fails = 0 /\ rc = 0

-----------------------------------------------------------------------------
(* Blocks.                                                                 *)

Blocks == 1..Len(cells)
New    == Len(cells) + 1

(* malloc() returns NULL. *)
NoMemory == fails < MaxFails /\ fails' = fails + 1
Memory   == UNCHANGED fails

(* The blocks jv_free(b) frees. *)
Tree(b) ==
  LET tree[n \in Blocks] ==
        {n} \union ({cells[n].buf} \ {NULL}) \union
        UNION {({m.key} \ {NULL}) \union tree[m.value]
                 : m \in {cells[n].items[k] : k \in DOMAIN cells[n].items}}
  IN  IF b = NULL THEN {} ELSE tree[b]

(* The blocks of set S are freed. *)
Freed(S) ==
  /\ live' = live \ S
  /\ bad' = (bad \/ ~(S \subseteq live))

HeapSame == UNCHANGED <<cells, live, bad>>

Top  == stack[Len(stack)]
Out  == IF stack = <<>> THEN root ELSE Top.elem

-----------------------------------------------------------------------------
(* next(): once it has returned TK_EOF, lexer_next does so again.          *)
next ==
  \E t \in IF Len(doc) < MaxTokens THEN Kinds \union {EOF} ELSE {EOF} :
     doc' = Append(doc, t)

Go(place) == pc' = place /\ UNCHANGED <<ok, rc, lost>>

(* parse_value is over; its caller goes on. *)
Return(b) == pc' = "returned" /\ ok' = b /\ UNCHANGED <<rc, lost>>

(* parse_array or parse_object is over, and parse_value with it. *)
Leave(b) == stack' = SubSeq(stack, 1, Len(stack) - 1) /\ Return(b)

(* main(): the root, and the first token. *)
Start ==
  /\ pc = "start"
  /\ \/ /\ Memory /\ cells' = <<Zero>> /\ live' = {root} /\ UNCHANGED bad
        /\ next /\ Go("value") /\ UNCHANGED stack
     \/ /\ NoMemory /\ rc' = 1 /\ pc' = "done"
        /\ HeapSame /\ UNCHANGED <<doc, stack, ok, lost>>

-----------------------------------------------------------------------------
(* parse_value(p, Out)                                                     *)

ValueOpen ==
  /\ pc = "value" /\ look \in {"{", "["}
  /\ cells' = [cells EXCEPT ![Out] =
       [Zero EXCEPT !.kind = IF look = "{" THEN "object" ELSE "array"]]
  /\ stack' = Append(stack, [fn |-> look, out |-> Out, elem |-> NULL, key |-> NULL])
  /\ next /\ Go("first") /\ Memory /\ UNCHANGED <<live, bad>>

(* set_string_owned; the token is passed even if that fails. *)
ValueString ==
  /\ pc = "value" /\ look \in Strings
  /\ \/ /\ Memory
        /\ cells' = Append([cells EXCEPT ![Out].kind = "string", ![Out].buf = New],
                           Bytes(look))
        /\ live' = live \union {New}
        /\ Return(TRUE)
     \/ /\ NoMemory
        /\ cells' = [cells EXCEPT ![Out].kind = "string"]
        /\ UNCHANGED live
        /\ Return(FALSE)
  /\ next /\ UNCHANGED <<stack, bad>>

(* The copy of the digits lives only within this step. *)
ValueNumber ==
  /\ pc = "value" /\ look \in Numbers
  /\ \/ /\ Memory
        /\ cells' = [cells EXCEPT ![Out].kind = "number",
                                              ![Out].text = strtod[look]]
        /\ next /\ Return(TRUE)
     \/ NoMemory /\ UNCHANGED <<cells, doc>> /\ Return(FALSE)
  /\ UNCHANGED <<stack, live, bad>>

ValueLiteral ==
  /\ pc = "value" /\ look \in Scalars
  /\ cells' = [cells EXCEPT ![Out].kind = "literal", ![Out].text = look]
  /\ next /\ Return(TRUE) /\ Memory /\ UNCHANGED <<stack, live, bad>>

ValueUnexpected ==
  /\ pc = "value" /\ look \in (Punctuation \ {"{", "["}) \union Errors \union {EOF}
  /\ Return(FALSE) /\ Memory /\ HeapSame /\ UNCHANGED <<doc, stack>>

-----------------------------------------------------------------------------
(* parse_object and parse_array                                            *)

Closing == IF Top.fn = "{" THEN "}" ELSE "]"

(* "{}" or "[]"; otherwise the loop begins. *)
Mut_First ==
  /\ pc = "first" /\ Go("loop")
  /\ Memory /\ HeapSame /\ UNCHANGED <<doc, stack>>

First ==
  /\ pc = "first"
  /\ \/ look = Closing /\ next /\ Leave(TRUE)
     \/ look # Closing /\ Go("loop") /\ UNCHANGED <<doc, stack>>
  /\ Memory /\ HeapSame

(* The key is copied. *)
Key ==
  /\ pc = "loop" /\ Top.fn = "{" /\ look \in Strings
  /\ \/ /\ Memory
        /\ cells' = Append(cells, Bytes(look)) /\ live' = live \union {New}
        /\ stack' = [stack EXCEPT ![Len(stack)].key = New]
        /\ next /\ Go("colon")
     \/ NoMemory /\ UNCHANGED <<cells, live, doc>> /\ Leave(FALSE)
  /\ UNCHANGED bad

KeyNotString ==
  /\ pc = "loop" /\ Top.fn = "{" /\ look \notin Strings
  /\ Leave(FALSE) /\ Memory /\ HeapSame /\ UNCHANGED doc

(* ":" and the cell for the member's value. *)
Colon ==
  /\ pc = "colon" /\ look = ":"
  /\ next
  /\ \/ /\ Memory
        /\ cells' = Append(cells, Zero) /\ live' = live \union {New}
        /\ stack' = [stack EXCEPT ![Len(stack)].elem = New]
        /\ Go("value") /\ UNCHANGED bad
     \/ NoMemory /\ Freed({Top.key}) /\ UNCHANGED cells /\ Leave(FALSE)

ColonMissing ==
  /\ pc = "colon" /\ look # ":"
  /\ Freed({Top.key}) /\ UNCHANGED cells
  /\ Leave(FALSE) /\ Memory /\ UNCHANGED doc

(* The cell for an array's next element. *)
Element ==
  /\ pc = "loop" /\ Top.fn = "["
  /\ \/ /\ Memory
        /\ cells' = Append(cells, Zero) /\ live' = live \union {New}
        /\ stack' = [stack EXCEPT ![Len(stack)].elem = New] /\ Go("value")
     \/ NoMemory /\ UNCHANGED <<cells, live>> /\ Leave(FALSE)
  /\ UNCHANGED <<doc, bad>>

Locals == Tree(Top.elem) \union ({Top.key} \ {NULL})

(* The element's parse_value failed. *)
Mut_ElementFailed ==
  /\ pc = "returned" /\ stack # <<>> /\ ~ok
  /\ Freed(Tree(Top.elem)) /\ UNCHANGED cells
  /\ Leave(FALSE) /\ Memory /\ UNCHANGED doc

ElementFailed ==
  /\ pc = "returned" /\ stack # <<>> /\ ~ok
  /\ Freed(Locals) /\ UNCHANGED cells
  /\ Leave(FALSE) /\ Memory /\ UNCHANGED doc

(* arr_push, obj_push: realloc() when the array is full. *)
Mut_Full(b) == Len(cells[b].items) > cells[b].cap
Full(b) == Len(cells[b].items) >= cells[b].cap

Mut_Pushed(b) == [cells[b] EXCEPT !.items = <<[key |-> Top.key, value |-> Top.elem]>> \o @]
Pushed(b) == [cells[b] EXCEPT !.items = Append(@, [key |-> Top.key, value |-> Top.elem])]

Push ==
  LET b == Top.out IN
  /\ pc = "returned" /\ stack # <<>> /\ ok
  /\ \/ /\ ~Full(b)
        /\ cells' = [cells EXCEPT ![b] = Pushed(b)]
        /\ UNCHANGED <<live, bad>>
     \/ /\ Full(b)
        /\ cells' = Append([cells EXCEPT ![b] = [Pushed(b) EXCEPT !.buf = New,
                              !.cap = IF @ = 0 THEN FIRST_CAP ELSE @ * 2]], Bytes(""))
        /\ live' = (live \ {cells[b].buf}) \union {New}
        /\ UNCHANGED bad
  /\ stack' = [stack EXCEPT ![Len(stack)].elem = NULL, ![Len(stack)].key = NULL]
  /\ Go("after") /\ Memory /\ UNCHANGED doc

PushFails ==
  /\ pc = "returned" /\ stack # <<>> /\ ok /\ Full(Top.out)
  /\ NoMemory /\ Freed(Locals) /\ UNCHANGED cells
  /\ Leave(FALSE) /\ UNCHANGED doc

(* "," goes on, the closing bracket ends, anything else is an error. *)
After ==
  /\ pc = "after"
  /\ \/ look = "," /\ next /\ Go("loop") /\ UNCHANGED stack
     \/ look = Closing /\ next /\ Leave(TRUE)
     \/ look \notin {",", Closing} /\ Leave(FALSE) /\ UNCHANGED doc
  /\ Memory /\ HeapSame

-----------------------------------------------------------------------------
(* parser_parse and main()                                                 *)

Ended == pc = "returned" /\ stack = <<>>

(* parse_value failed: the root is overwritten, with what it points to. *)
Mut_ParseFailed ==
  /\ Ended /\ ~ok
  /\ live' = live \ Tree(root)
  /\ bad' = (bad \/ ~(Tree(root) \subseteq live) \/ root \notin live')
  /\ cells' = [cells EXCEPT ![root] = Zero]
  /\ pc' = "free" /\ rc' = 1
  /\ Memory /\ UNCHANGED <<doc, stack, ok, lost>>

ParseFailed ==
  /\ Ended /\ ~ok
  /\ lost' = Tree(root) \ {root}
  /\ cells' = [cells EXCEPT ![root] = Zero]
  /\ pc' = "free" /\ rc' = 1
  /\ Memory /\ UNCHANGED <<doc, stack, ok, live, bad>>

(* Something follows the value: the root is freed, then overwritten. *)
TrailingData ==
  /\ Ended /\ ok /\ look # EOF
  /\ live' = live \ Tree(root)
  /\ bad' = (bad \/ ~(Tree(root) \subseteq live) \/ root \notin live')
  /\ cells' = [cells EXCEPT ![root] = Zero]
  /\ pc' = "free" /\ rc' = 1
  /\ Memory /\ UNCHANGED <<doc, stack, ok, lost>>

Parsed ==
  /\ Ended /\ ok /\ look = EOF
  /\ pc' = "free" /\ rc' = 0
  /\ Memory /\ HeapSame /\ UNCHANGED <<doc, stack, ok, lost>>

(* main() frees the root, after printing it if rc = 0. *)
MainFree ==
  /\ pc = "free"
  /\ Freed(Tree(root)) /\ UNCHANGED cells
  /\ pc' = "done" /\ Memory /\ UNCHANGED <<doc, stack, ok, lost, rc>>

Next ==
  \/ Start
  \/ ValueOpen \/ ValueString \/ ValueNumber \/ ValueLiteral \/ ValueUnexpected
  \/ First \/ Key \/ KeyNotString \/ Colon \/ ColonMissing \/ Element
  \/ ElementFailed \/ Push \/ PushFails \/ After
  \/ ParseFailed \/ TrailingData \/ Parsed \/ MainFree

Spec == Init /\ [][Next]_vars

-----------------------------------------------------------------------------
Cell == [kind : {"object", "array", "string", "number", "literal", "bytes"},
         buf : Nat, cap : Nat, items : Seq([key : Nat, value : Nat]),
         text : Kinds \union Doubles \union {""}]

(* No array or object holds more than it has room for (arr_push, obj_push).*)
TypeOK ==
  /\ doc \in Seq(Kinds \union {EOF})
  /\ pc \in {"start", "value", "first", "loop", "colon", "returned", "after",
            "free", "done"}
  /\ stack \in Seq([fn : {"{", "["}, out : Nat, elem : Nat, key : Nat])
  /\ ok \in BOOLEAN /\ bad \in BOOLEAN
  /\ cells \in Seq(Cell)
  /\ \A b \in Blocks : Len(cells[b].items) <= cells[b].cap
  /\ live \subseteq Blocks /\ lost \subseteq Blocks
  /\ fails \in 0..MaxFails
  /\ rc \in {0, 1}

(* What each place is responsible for: the root's tree, the locals of each *)
(* call in progress, and what nobody can reach any more.                   *)
Held(k) == Tree(stack[k].elem) \union ({stack[k].key} \ {NULL})

RootTree == IF pc \in {"start", "done"} THEN {} ELSE Tree(root)

(* Until something goes wrong every live block has exactly one owner, that *)
(* will free it: on every way out of parse_object and parse_array, with or *)
(* without a failed allocation, nothing is dropped, shared or kept (the    *)
(* cleanup before each return 0).  Only parser_parse itself loses blocks,  *)
(* and on success nothing is left at the end.                              *)
OneOwner ==
  ~bad =>
    /\ live = RootTree \union lost \union UNION {Held(k) : k \in DOMAIN stack}
    /\ RootTree \cap lost = {}
    /\ \A k \in DOMAIN stack :
         /\ Held(k) \cap (RootTree \union lost) = {}
         /\ \A n \in 1..k-1 : Held(k) \cap Held(n) = {}
    /\ lost # {} => rc = 1

(* No block is freed twice or used after being freed.                      *)
FreedOnce == ~bad
=============================================================================
