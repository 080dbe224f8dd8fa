----------------------------- MODULE MCTokenize -----------------------------
(***************************************************************************)
(* All lines of up to MaxLen characters.                                   *)
(***************************************************************************)
EXTENDS TokenReference

CONSTANTS
  Chars,   (* the characters of the lines *)
  MaxLen   (* bound on their length       *)

EveryKind == {"a", "n", " ", "|", SQ, DQ, BS}

AllChars == Chars \union {LF, TAB}
AllLines == UNION {[1..n -> Chars] : n \in 0..MaxLen}
=============================================================================
