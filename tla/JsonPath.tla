------------------------------ MODULE JsonPath ------------------------------
(***************************************************************************)
(* json-parser: what a path names, in the text of a document.  The text is *)
(* cut at the commas between a value's own items, the path where a dot or  *)
(* a bracket opens a part; nothing is said of cells or pointers.           *)
(***************************************************************************)
EXTENDS JsonCli, JsonDump, FiniteSets

(* The elements of S up to k; how deep in brackets token k of v is.        *)
CountTo(S, k) == Cardinality({n \in 1..k : n \in S})

Opening(v) == {n \in 1..Len(v) : v[n] \in {"[", "{"}}
Ending(v)  == {n \in 1..Len(v) : v[n] \in {"]", "}"}}
Nesting(v, k) == CountTo(Opening(v), k) - CountTo(Ending(v), k)

(* An array or object: its brackets, and the commas of its own level, are  *)
(* the bounds of its items; item n is between the bounds n and n + 1.      *)
Bounds(v) == {1, Len(v)} \union {k \in 1..Len(v) : v[k] = "," /\ Nesting(v, k) = 1}
Bound(v, n) == CHOOSE k \in Bounds(v) : CountTo(Bounds(v), k) = n
Piece(v, n) == SubSeq(v, Bound(v, n) + 1, Bound(v, n + 1) - 1)
Size(v) == IF Len(v) <= 2 THEN 0 ELSE CountTo(Bounds(v), Len(v)) - 1

Missing == <<>>

(* The first member with that key, a token and a colon before its value.   *)
Member(v, key) ==
  LET hits == {n \in 1..Size(v) : Chars[Piece(v, n)[1]] = key}
  IN  IF v = Missing \/ v[1] # "{" \/ hits = {} THEN Missing
      ELSE LET n == CHOOSE n \in hits : \A m \in hits : n <= m
           IN  SubSeq(Piece(v, n), 3, Len(Piece(v, n)))

Item(v, n) == IF v = Missing \/ v[1] # "[" \/ n >= Size(v) THEN Missing ELSE Piece(v, n + 1)

(* What t, without its last character, is as a number. *)
Decimal(t) ==
  LET value[n \in 0..Len(t)-1] == IF n = 0 THEN 0 ELSE 10 * value[n-1] + Number(t[n])
  IN  value[Len(t)-1]

IsIndexed(t) == Len(t) >= 2 /\ t[Len(t)] = "]" /\ \A k \in 1..Len(t)-1 : t[k] \in Digits

(* A part after a bracket is an index, one after a dot, or the first, a    *)
(* key or nothing.                                                         *)
Along(v, after, t) ==
  IF after = "[" THEN IF IsIndexed(t) THEN Item(v, Decimal(t)) ELSE Missing
  ELSE IF t = <<>> THEN v ELSE Member(v, t)

(* at[j] is what the path names up to its cut j, or its end. *)
Cuts(s) == {k \in 1..Len(s) : s[k] \in {".", "["}}
CutBefore(s, j) ==
  CHOOSE i \in {0} \union Cuts(s) : i < j /\ \A n \in i+1..j-1 : n \notin Cuts(s)

Meant(v, s) ==
  LET at[j \in 0..Len(s)+1] ==
        IF j = 0 THEN v
        ELSE LET i == CutBefore(s, j)
             IN  Along(at[i], IF i = 0 THEN "." ELSE s[i], SubSeq(s, i + 1, j - 1))
  IN  at[Len(s)+1]

-----------------------------------------------------------------------------
(* "get" prints the value that the path names in the document, the first   *)
(* one if a key is there twice, and says that there is nothing where there *)
(* is none or the path is malformed, unless its memory ran out             *)
(* (resolve_path, jv_get_object, jv_get_array).                            *)
GetFindsIt ==
  pc = "free" /\ status \in {"found", "missing"} =>
    PrintOf(Meant(SubSeq(doc, 1, Len(doc) - 1), path)) =
      IF target = NULL THEN <<>> ELSE Dump(target)
=============================================================================
