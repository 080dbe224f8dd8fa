------------------------------ MODULE JsonDump ------------------------------
(***************************************************************************)
(* json-parser: what dump.c prints of the values that JsonParser builds,   *)
(* token by token, each a sequence of characters.  dump and heap are       *)
(* parameters of the rules, so that what two heaps hold can be compared.   *)
(***************************************************************************)
EXTENDS JsonParser, JsonText

CONSTANT Format   (* what "%.17g" makes of a double *)

ASSUME FormatAssumption == Format \in [Doubles -> Seq(STRING)]

(* A sign or a literal is printed as it is. *)
AsIs(t) == <<t>>

(* The first n parts of a list, with commas between them. *)
Joined(parts) ==
  LET text[n \in Nat] ==
        IF n = 0 THEN <<>>
        ELSE text[n-1] \o (IF n = 1 THEN <<>> ELSE <<AsIs(",")>>) \o parts[n]
  IN  text

String(heap, b) == dump_string_escaped(Chars[heap[b].text])

(* The items of cell c, a member of an object with its key. *)
Parts(dump, heap, c) ==
  [k \in DOMAIN c.items |->
     (IF c.kind = "object" THEN <<String(heap, c.items[k].key), AsIs(":")>> ELSE <<>>)
       \o dump[c.items[k].value]]

List(dump, heap, c) == Joined(Parts(dump, heap, c))[Len(c.items)]

(* dump_impl *)
Shown(dump, heap, c) ==
  CASE c.kind = "object" -> <<AsIs("{")>> \o List(dump, heap, c) \o <<AsIs("}")>>
    [] c.kind = "array"  -> <<AsIs("[")>> \o List(dump, heap, c) \o <<AsIs("]")>>
    [] c.kind = "string" -> <<String(heap, c.buf)>>
    [] c.kind = "number" -> <<Format[c.text]>>
    [] OTHER             -> <<AsIs(c.text)>>

Dump(b) == LET dump[n \in Blocks] == Shown(dump, cells, cells[n]) IN dump[b]

-----------------------------------------------------------------------------
(* How a token comes back: a string with its escapes escaped once more, a  *)
(* number as the nearest double with 17 digits, anything else as it is.    *)
Back(t) ==
  CASE t \in Strings -> dump_string_escaped(Chars[t])
    [] t \in Numbers -> Format[strtod[t]]
    [] OTHER         -> AsIs(t)

PrintOf(tokens) == [k \in DOMAIN tokens |-> Back(tokens[k])]

(* All that was read is printed: every key and value of the document, in   *)
(* its place, each converted once, and nothing more (parse_value, arr_push,*)
(* obj_push, dump_impl, dump_string_escaped).                              *)
RoundTrip ==
  pc = "free" /\ rc = 0 => Dump(root) = PrintOf(SubSeq(doc, 1, Len(doc) - 1))
=============================================================================
