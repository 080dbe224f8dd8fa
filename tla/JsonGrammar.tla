---------------------------- MODULE JsonGrammar ----------------------------
(***************************************************************************)
(* What JsonParser should accept: the JSON grammar over tokens, by the     *)
(* number of tokens, and what the parser's verdict must have to do with it.*)
(***************************************************************************)
EXTENDS JsonParser

Single == Strings \union Scalars \union Numbers

Each(S)   == {<<t>> : t \in S}
Cat(L, M) == {s \o t : s \in L, t \in M}

Wrapped(open, inner, close) == Cat(Each({open}), Cat(inner, Each({close})))

(* The values, members, lists of values and lists of members of n tokens,  *)
(* given the shorter ones.                                                 *)
ValuesOf(lang, n) ==
  IF n = 0 THEN {}
  ELSE IF n = 1 THEN Each(Single)
  ELSE IF n = 2 THEN Cat(Each({"["}), Each({"]"})) \union Cat(Each({"{"}), Each({"}"}))
  ELSE Wrapped("[", lang[n-2].list, "]") \union Wrapped("{", lang[n-2].members, "}")

MembersOf(lang, n) ==
  IF n < 3 THEN {} ELSE Cat(Each(Strings), Cat(Each({":"}), lang[n-2].value))

(* An item, a comma and a list. *)
Longer(lang, n, item, list) ==
  UNION {Cat(lang[k][item], Cat(Each({","}), lang[n-k-1][list])) : k \in 1..n-2}

Rules(lang, n) ==
  [value   |-> ValuesOf(lang, n),
   member  |-> MembersOf(lang, n),
   list    |-> ValuesOf(lang, n) \union Longer(lang, n, "value", "list"),
   members |-> MembersOf(lang, n) \union Longer(lang, n, "member", "members")]

(* All JSON values of up to MaxTokens tokens. *)
Language ==
  LET lang[n \in Nat] == Rules(lang, n)
  IN  UNION {lang[n].value : n \in 1..MaxTokens}

-----------------------------------------------------------------------------
(* The tokens before the one the parser looks at. *)
Read == SubSeq(doc, 1, Len(doc) - 1)

Begins(s, t) == Len(s) <= Len(t) /\ \A k \in 1..Len(s) : s[k] = t[k]

(* A document is refused, as far as memory lasts, only where no JSON value *)
(* goes on like that, and one that is accepted is JSON (parse_value,       *)
(* parse_array, parse_object, parser_parse).                               *)
AcceptsJson ==
  pc = "free" => IF rc = 0 THEN Read \in Language
                 ELSE fails = 0 => \A d \in Language : ~Begins(doc, Append(d, EOF))

(* The only way to free a block twice is a document with something behind  *)
(* a complete value (parser_parse and main() free the root).               *)
FreedTwiceOnlyAfterValue == bad => look # EOF /\ Read \in Language
=============================================================================
