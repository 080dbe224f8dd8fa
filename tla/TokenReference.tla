--------------------------- MODULE TokenReference ---------------------------
(***************************************************************************)
(* What tokenize should make of a line, defined without a state machine:   *)
(* how each character is quoted follows from the characters before it,     *)
(* where the tokens begin from that, and what a word holds from what each  *)
(* of its characters stands for.  The recursive functions go over the      *)
(* positions of the line.                                                  *)
(***************************************************************************)
EXTENDS Tokenize

(* The quoting after a character. *)
Then(before, ch) ==
  CASE before = "escaped"     -> "none"
    [] before = "dq-escaped"  -> "dq"
    [] before = "none" /\ ch = BS -> "escaped"
    [] before = "dq" /\ ch = BS   -> "dq-escaped"
    [] before = "none" /\ ch = SQ -> "sq"
    [] before = "none" /\ ch = DQ -> "dq"
    [] before = "sq" /\ ch = SQ   -> "none"
    [] before = "dq" /\ ch = DQ   -> "none"
    [] OTHER -> before

(* The quoting in force just before character n. *)
Modes(s) ==
  LET mode[n \in 1..Len(s)+1] == IF n = 1 THEN "none" ELSE Then(mode[n-1], s[n-1])
  IN mode

Closed(s) == Modes(s)[Len(s) + 1] \in {"none", "escaped"}

(* What character ch, so quoted, contributes to a word: itself, or nothing. *)
Meaning(m, ch) ==
  CASE m = "escaped"    -> <<ch>>
    [] m = "dq-escaped" -> <<Unescaped(ch)>>
    [] m = "sq"         -> IF ch = SQ THEN <<>> ELSE <<ch>>
    [] m = "dq"         -> IF ch \in {DQ, BS} THEN <<>> ELSE <<ch>>
    [] OTHER            -> IF ch \in {SQ, DQ, BS} THEN <<>> ELSE <<ch>>

Literal(s, n) == Meaning(Modes(s)[n], s[n])

IsOp(s, n)    == Modes(s)[n] = "none" /\ s[n] \in Ops
IsSpace(s, n) == Modes(s)[n] = "none" /\ s[n] \in Space

(* A backslash that ends the line belongs to no word. *)
Dangling(s, n) == n = Len(s) /\ Modes(s)[n] = "none" /\ s[n] = BS

InWord(s, n) == ~IsOp(s, n) /\ ~IsSpace(s, n) /\ ~Dangling(s, n)

(* The last position of the word that starts at n. *)
LastOf(s, n) ==
  CHOOSE m \in n..Len(s) : /\ \A k \in n..m : InWord(s, k)
                           /\ m = Len(s) \/ ~InWord(s, m + 1)

(* What characters a to n of a line contribute to a word. *)
Written(s, a) ==
  LET text[n \in a-1..Len(s)] == IF n = a - 1 THEN <<>> ELSE text[n-1] \o Literal(s, n)
  IN text

WordAt(s, n) == Written(s, n)[LastOf(s, n)]

TokenAt(s, n) ==
  IF IsOp(s, n) THEN [op |-> TRUE, text |-> <<s[n]>>]
                ELSE [op |-> FALSE, text |-> WordAt(s, n)]

StartsWord(s, n) == InWord(s, n) /\ (n = 1 \/ ~InWord(s, n - 1))

(* The tokens that begin at the first n characters. *)
TokensTo(s) ==
  LET found[n \in 0..Len(s)] ==
        IF n = 0 THEN <<>>
        ELSE IF IsOp(s, n) \/ StartsWord(s, n) THEN Append(found[n-1], TokenAt(s, n))
        ELSE found[n-1]
  IN found

Reference(s) == TokensTo(s)[Len(s)]

(* tokenize refuses exactly the lines that end inside quotes, and finds    *)
(* exactly the words and operators that the quoting rules give.            *)
MatchesReference ==
  /\ result = "ok"    => Closed(line) /\ tokens = Reference(line)
  /\ result = "error" => ~Closed(line)

=============================================================================
