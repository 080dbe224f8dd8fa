------------------------------ MODULE Tokenize ------------------------------
(***************************************************************************)
(* tokenize() of mini-bash-like-shell's parse.c: one step per turn of its  *)
(* loop, over the characters that mean something to it; every other        *)
(* character behaves like "a".  The string's terminator is NUL.            *)
(***************************************************************************)
EXTENDS Naturals, Sequences

CONSTANTS
  Alphabet, (* the characters                                              *)
  Text,     (* the lines to tokenize: sequences of characters              *)
  BUFSIZE   (* first size of buf, 64 in the code                           *)

NUL   == "NUL"
LF    == "LF"
TAB   == "TAB"
Space == {" ", TAB, LF}
Ops   == {"|", "<", ">"}
BS    == "\\"
SQ    == "'"
DQ    == "\""

ASSUME TokenizeAssumption ==
  /\ {LF, TAB} \subseteq Alphabet
  /\ Text \subseteq Seq(Alphabet \ {NUL})
  /\ BUFSIZE \in Nat /\ BUFSIZE >= 2

VARIABLES
  line,    (* argument *)
  i,       (* index of the loop, from 0 *)
  st,      (* S_OUT, S_WORD, S_SQ, S_DQ *)
  buf,     (* characters collected; len is its length *)
  cap,     (* allocated size of buf *)
  tokens,  (* tokens found: [op |-> operator outside of quotes, text |-> ..] *)
  result   (* "" while running, then "ok" or "error" *)

locals == <<line, i, st, buf, cap, tokens, result>>

At(n) == IF n < Len(line) THEN line[n + 1] ELSE NUL
c     == At(i)
end   == c = NUL

Start ==
  /\ line \in Text
  /\ i = 0 /\ st = "S_OUT"
  /\ buf = <<>> /\ cap = BUFSIZE
  /\ tokens = <<>>
  /\ result = ""

(* BUF_PUSH: room for one more than the new character, or twice the size. *)
Mut_Grown == IF Len(buf) > cap THEN cap * 2 ELSE cap
Grown == IF Len(buf) + 1 >= cap THEN cap * 2 ELSE cap

Push(ch) == buf' = Append(buf, ch) /\ cap' = Grown

(* A word ends: a NUL is pushed, the copy becomes a token, len = 0. *)
Word == [op |-> FALSE, text |-> buf]
Operator == [op |-> TRUE, text |-> <<c>>]

Found(new) == tokens' = tokens \o new

Keep == UNCHANGED <<buf, cap>>
NoToken == UNCHANGED tokens

(* The next turn of the loop, in state s, n characters on. *)
Go(s, n) ==
  /\ st' = s
  /\ i' = i + n
  /\ UNCHANGED <<line, result>>

(* Leaving the loop. *)
Stop(r) == result' = r /\ UNCHANGED <<line, i, st>>

Turn(s) == result = "" /\ st = s

-----------------------------------------------------------------------------
(* Outside of any word. *)
OutEnd == Turn("S_OUT") /\ end /\ Keep /\ NoToken /\ Stop("ok")

OutSpace == Turn("S_OUT") /\ c \in Space /\ Keep /\ NoToken /\ Go("S_OUT", 1)

OutOperator ==
  Turn("S_OUT") /\ c \in Ops /\ Keep /\ Found(<<Operator>>) /\ Go("S_OUT", 1)

(* A quote opens, outside or inside of a word. *)
Quote(s) ==
  /\ Turn(s) /\ c \in {SQ, DQ}
  /\ Keep /\ NoToken
  /\ Go(IF c = SQ THEN "S_SQ" ELSE "S_DQ", 1)

(* An escaped character starts a word or goes on with one. *)
Escape(s) ==
  /\ Turn(s) /\ c = BS /\ At(i + 1) # NUL
  /\ Push(At(i + 1)) /\ NoToken
  /\ Go("S_WORD", 2)

(* The last character is a backslash: ignored. *)
EscapeEnd(s) ==
  Turn(s) /\ c = BS /\ At(i + 1) = NUL /\ Keep /\ NoToken /\ Go(s, 1)

Plain == c \notin Space \union Ops \union {BS, SQ, DQ, NUL}

PlainChar(s) ==
  Turn(s) /\ Plain /\ Push(c) /\ NoToken /\ Go("S_WORD", 1)

-----------------------------------------------------------------------------
(* Inside a word. *)
EndWord == buf' = <<>> /\ cap' = Grown

WordSpace ==
  /\ Turn("S_WORD") /\ c \in Space
  /\ EndWord /\ Found(<<Word>>)
  /\ Go("S_OUT", 1)

WordEnd ==
  /\ Turn("S_WORD") /\ end
  /\ EndWord /\ Found(<<Word>>)
  /\ Stop("ok")

Mut_WordOperator ==
  /\ Turn("S_WORD") /\ c \in Ops
  /\ Keep /\ Found(<<Word, Operator>>)
  /\ Go("S_OUT", 1)

WordOperator ==
  /\ Turn("S_WORD") /\ c \in Ops
  /\ EndWord /\ Found(<<Word, Operator>>)
  /\ Go("S_OUT", 1)

-----------------------------------------------------------------------------
(* Inside quotes. *)

(* The line ends in them: an error. *)
Unmatched ==
  /\ result = "" /\ st \in {"S_SQ", "S_DQ"} /\ end
  /\ Keep /\ NoToken
  /\ Stop("error")

QuoteClose ==
  /\ \/ Turn("S_SQ") /\ c = SQ
     \/ Turn("S_DQ") /\ c = DQ
  /\ Keep /\ NoToken
  /\ Go("S_WORD", 1)

SingleChar ==
  Turn("S_SQ") /\ c \notin {SQ, NUL} /\ Push(c) /\ NoToken /\ Go("S_SQ", 1)

DoubleChar ==
  Turn("S_DQ") /\ c \notin {DQ, BS, NUL} /\ Push(c) /\ NoToken /\ Go("S_DQ", 1)

(* What a backslash and x stand for in double quotes. *)
Unescaped(x) == IF x = "n" THEN LF ELSE IF x = "t" THEN TAB ELSE x

Mut_DoubleEscape ==
  /\ Turn("S_DQ") /\ c = BS
  /\ Push(Unescaped(At(i + 1))) /\ Go("S_DQ", 2)
  /\ NoToken

DoubleEscape ==
  /\ Turn("S_DQ") /\ c = BS
  /\ IF At(i + 1) = NUL THEN Keep /\ Go("S_DQ", 1)
                        ELSE Push(Unescaped(At(i + 1))) /\ Go("S_DQ", 2)
  /\ NoToken

Loop ==
  \/ OutEnd \/ OutSpace \/ OutOperator
  \/ \E s \in {"S_OUT", "S_WORD"} :
       Quote(s) \/ Escape(s) \/ EscapeEnd(s) \/ PlainChar(s)
  \/ WordSpace \/ WordEnd \/ WordOperator
  \/ Unmatched \/ QuoteClose \/ SingleChar \/ DoubleChar \/ DoubleEscape

TokenizeSpec == Start /\ [][Loop]_locals

-----------------------------------------------------------------------------
(* The loop never looks past the terminator: a step of two characters is   *)
(* only taken when the second is not the NUL (line[++i] in parse.c).       *)
InLine == i <= Len(line)

(* buf always has room for the character being pushed and for the NUL that *)
(* ends the word (BUF_PUSH).                                               *)
BufferFits == Len(buf) < cap
=============================================================================
