-------------------------- MODULE CalculatorGrammar --------------------------
(***************************************************************************)
(* What arithmetic says the value of an expression is: the well-formed     *)
(* expressions of each length with their values, by the usual grammar,     *)
(* and that the calculator finds these values.                             *)
(***************************************************************************)
EXTENDS Calculator

CONSTANT MaxTokens   (* length of the expressions *)

ASSUME GrammarAssumption == MaxTokens \in Nat

(* A binary "-" is not among them: is_number takes a lone "-" for a number.*)
Sums     == {"+"}
Products == {"*", "/"}

(* A value is a set: {v}, or {} where a division cannot be done. *)
Answer(op, V, W) ==
  {Apply(op, x[1], x[2]) : x \in {y \in V \X W : ~Traps(op, y[1], y[2])}}

Combined(l, op, r) ==
  [toks |-> l.toks \o <<op>> \o r.toks, val |-> Answer(op, l.val, r.val)]

Joined(Left, Right, ops) ==
  {Combined(l, op, r) : l \in Left, r \in Right, op \in ops}

(* The factors, terms and expressions of n tokens, given the shorter ones. *)
FactorsOf(lang, n) ==
  IF n = 1 THEN {[toks |-> <<t>>, val |-> {Atoi[t]}] : t \in DOMAIN Atoi}
  ELSE IF n < 3 THEN {}
  ELSE {[toks |-> <<"(">> \o e.toks \o <<")">>, val |-> e.val] : e \in lang[n-2].expr}

TermsOf(lang, n) ==
  UNION {Joined(lang[k].term, lang[n-k-1].factor, Products) : k \in 1..n-2}

ExprsOf(lang, n) ==
  UNION {Joined(lang[k].expr, lang[n-k-1].term, Sums) : k \in 1..n-2}

Rules(lang, n) ==
  LET factors == FactorsOf(lang, n)
      terms   == factors \union TermsOf(lang, n)
  IN  [factor |-> factors, term |-> terms, expr |-> terms \union ExprsOf(lang, n)]

(* All expressions of up to MaxTokens tokens, with their values. *)
Grammar ==
  LET lang[n \in Nat] == Rules(lang, n)
  IN  UNION {lang[n].expr : n \in 1..MaxTokens}

(* A well-formed expression has the value arithmetic gives it: products    *)
(* before sums, from left to right, parentheses first; the calculator      *)
(* traps exactly when arithmetic has no answer, and never leaves its       *)
(* stacks (calc, infix_to_postfix, calculate_postfix_tokens).              *)
ResultRight ==
  phase # "convert" => \A e \in Grammar : e.toks = tokens =>
     /\ phase # "undefined"
     /\ phase \in {"free", "done"} => e.val = {result}
     /\ phase = "trap" => e.val = {}
=============================================================================
