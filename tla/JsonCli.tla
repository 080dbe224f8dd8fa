------------------------------ MODULE JsonCli ------------------------------
(***************************************************************************)
(* json-parser's commands: "parse", which is JsonParser alone, and "get",  *)
(* in which main() resolves a path, a sequence of characters, between      *)
(* parsing and freeing.                                                    *)
(***************************************************************************)
EXTENDS JsonParser

CONSTANT Paths   (* the path expressions of "get" *)

ASSUME PathsAssumption == Paths \subseteq Seq(STRING)

VARIABLES
  path,    (* argv[3], once it is looked at                                *)
  target,  (* what resolve_path returned                                   *)
  status   (* "", then "found", or "missing" or "no memory" (for both main *)
           (* prints "path not found" and exits with 1)                    *)

cliVars == <<path, target, status>>

Digits == {"0", "1", "2", "3", "4", "5", "6", "7", "8", "9"}
Number(ch) ==
  CHOOSE n \in 0..9 : <<"0", "1", "2", "3", "4", "5", "6", "7", "8", "9">>[n + 1] = ch

-----------------------------------------------------------------------------
(* value.c: the first member with that key, or the item at that index.     *)
Mut_jv_get_object(b, key) ==
  LET hits == {k \in DOMAIN cells[b].items : Chars[cells[cells[b].items[k].key].text] = key}
  IN  IF cells[b].kind # "object" \/ hits = {} THEN NULL
      ELSE cells[b].items[CHOOSE k \in hits : \A n \in hits : n <= k].value

jv_get_object(b, key) ==
  LET hits == {k \in DOMAIN cells[b].items : Chars[cells[cells[b].items[k].key].text] = key}
  IN  IF cells[b].kind # "object" \/ hits = {} THEN NULL
      ELSE cells[b].items[CHOOSE k \in hits : \A n \in hits : k <= n].value

jv_get_array(b, idx) ==
  IF cells[b].kind # "array" \/ idx >= Len(cells[b].items) THEN NULL
  ELSE cells[b].items[idx + 1].value

(* What resolve_path reads of path s at character p: the NUL is at         *)
(* Len(s) + 1.  Up to the first character of S, or the end; past the       *)
(* digits; and the number that the digits from p up to end are.            *)
CharAt(s, p) == IF p > Len(s) THEN "" ELSE s[p]

UpTo(s, p, S) ==
  CHOOSE q \in p..Len(s)+1 :
    (q > Len(s) \/ s[q] \in S) /\ \A n \in p..q-1 : s[n] \notin S

PastDigits(s, p) ==
  CHOOSE q \in p..Len(s)+1 :
    CharAt(s, q) \notin Digits /\ \A n \in p..q-1 : s[n] \in Digits

Index(s, p, end) ==
  LET idx[q \in p..end] == IF q = p THEN 0 ELSE 10 * idx[q-1] + Number(s[q-1])
  IN  idx[end]

(* resolve_path: from character p on, in its while loop or, inner, in the  *)
(* loop over indices, at value b.                                          *)
resolve_path(s) ==
  LET walk[p \in 1..Len(s)+1] == [inner \in BOOLEAN |-> [b \in Blocks \union {NULL} |->
        LET key == UpTo(s, p, {".", "["})
            end == PastDigits(s, p + 1)
        IN  IF b = NULL \/ p > Len(s) THEN b
            ELSE CASE s[p] = "." -> walk[p + 1][FALSE][b]
                   [] ~inner /\ s[p] \notin {".", "["} ->
                        walk[key][TRUE][jv_get_object(b, SubSeq(s, p, key - 1))]
                   [] s[p] = "[" /\ end > p + 1 /\ CharAt(s, end) = "]" ->
                        walk[end + 1][TRUE][jv_get_array(b, Index(s, p + 1, end))]
                   [] OTHER -> NULL]]
  IN  walk[1][FALSE][root]

-----------------------------------------------------------------------------
CliInit == Init /\ path = <<>> /\ target = NULL /\ status = ""

(* "get": the value is printed, or a message, before everything is freed.  *)
Get(s) ==
  /\ pc = "free" /\ rc = 0 /\ status = ""
  /\ path' = s /\ target' = resolve_path(s)
  /\ status' = IF target' = NULL THEN "missing" ELSE "found"
  /\ UNCHANGED vars

(* On the way along s a key is looked up, of which a copy is made before.  *)
LooksUp(s) ==
  \E p \in 1..Len(s) :
    /\ s[p] \notin {".", "["} /\ (p > 1 => s[p-1] = ".")
    /\ resolve_path(SubSeq(s, 1, p - 1)) # NULL

GetNoMemory(s) ==
  /\ pc = "free" /\ rc = 0 /\ status = ""
  /\ LooksUp(s) /\ NoMemory
  /\ path' = s /\ target' = NULL /\ status' = "no memory"
  /\ UNCHANGED <<doc, pc, stack, ok, cells, live, bad, lost, rc>>

CliNext ==
  \/ Next /\ UNCHANGED cliVars
  \/ \E s \in Paths : Get(s) \/ GetNoMemory(s)

CliSpec == CliInit /\ [][CliNext]_<<vars, cliVars>>
=============================================================================
