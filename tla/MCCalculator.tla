---------------------------- MODULE MCCalculator ----------------------------
(***************************************************************************)
(* Lines for Calculator: the well-formed expressions, and any sequences.   *)
(***************************************************************************)
EXTENDS CalculatorGrammar, TLC

CONSTANTS
  Numerals,   (* what the well-formed expressions are made of *)
  Bits,       (* what the other lines are made of             *)
  MaxBits     (* length of the others                         *)

SmallInts == ("0" :> 0) @@ ("2" :> 2) @@ ("3" :> 3) @@ ("-2" :> -2)
Values == [t \in Numerals |-> SmallInts[t]]
AllWords == Numerals \union Sums \union Products \union {"(", ")"} \union Bits

WellFormed == {e.toks : e \in Grammar}

(* Any sequence of tokens, however malformed, and the expressions. *)
AnyLine == WellFormed \union UNION {[1..n -> Bits] : n \in 0..MaxBits}
=============================================================================
