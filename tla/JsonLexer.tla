------------------------------ MODULE JsonLexer ------------------------------
(***************************************************************************)
(* json-parser's lexer_next.c over the buffer that read_file_all returns,  *)
(* as main() joins them: lexer_next is called until it returns TK_EOF or   *)
(* TK_ERROR.  One step looks at one character, or is one turn of the loop  *)
(* over white space.  A digit is 0 or 1, and of the letters there are      *)
(* those that mean something and "x".                                      *)
(***************************************************************************)
EXTENDS ReadFile, JsonText

Blanks   == {" ", LF, CR, TAB}
Digit    == {"0", "1"}
Hex      == Digit \union {"a", "b", "e", "f"}
Punct    == {"{", "}", "[", "]", ":", ","}
Boundary == {NUL, " ", LF, CR, TAB, VT, ",", "]", "}"}

Word == [true  |-> <<"t", "r", "u", "e">>,
         false |-> <<"f", "a", "l", "s", "e">>,
         null  |-> <<"n", "u", "l", "l">>]
Literals == DOMAIN Word

VARIABLES
  index,     (* lexer->index, counted from 1                               *)
  i,         (* the character being looked at                              *)
  st,        (* "blank": the loop over white space; "done"; or a place in  *)
             (* scan_number or scan_string                                 *)
  line, col, (* lexer->line, lexer->col                                    *)
  tokens     (* the tokens returned: from is the place of the lexeme       *)

lexVars == <<index, i, st, line, col, tokens>>
vars == <<fileVars, lexVars>>

Init ==
  /\ InitFile
  /\ index = 1 /\ i = 1 /\ st = "blank" /\ line = 1 /\ col = 1 /\ tokens = <<>>

c == storage[i]

(* What scan_number makes of the next character. *)
NumberMove ==
  CASE st = "sign" /\ c = "-"                                  -> "int"
    [] st \in {"sign", "int"} /\ c = "0"                       -> "zero"
    [] (st \in {"sign", "int"} /\ c \in Digit \ {"0"}) \/
       (st = "digits" /\ c \in Digit)                          -> "digits"
    [] st \in {"zero", "digits"} /\ c = "."                    -> "point"
    [] st \in {"point", "fraction"} /\ c \in Digit             -> "fraction"
    [] st \in {"zero", "digits", "fraction"} /\ c = "e"        -> "e"
    [] st = "e" /\ c \in {"+", "-"}                            -> "esign"
    [] st \in {"e", "esign", "exponent"} /\ c \in Digit        -> "exponent"
    [] st \in {"zero", "digits", "fraction", "exponent"} /\ c \in Boundary -> "number"
    [] OTHER                                                   -> "invalid"

(* And scan_string: after a backslash everything but NUL will do. *)
Mut_StringMove ==
  CASE st = "text" /\ c = DQ          -> "string"
    [] st = "text" /\ c = BS          -> "escape"
    [] st = "escape" /\ c = "u"       -> "u1"
    [] st = "u1" /\ c \in Hex         -> "u2"
    [] st = "u2" /\ c \in Hex         -> "u3"
    [] st = "u3" /\ c \in Hex         -> "u4"
    [] (st = "u4" /\ c \in Hex) \/
       (st = "text" /\ c \notin {DQ, BS, NUL, LF, CR}) \/
       (st = "escape" /\ c # "u")      -> "text"
    [] OTHER                          -> "invalid"

StringMove ==
  CASE st = "text" /\ c = DQ          -> "string"
    [] st = "text" /\ c = BS          -> "escape"
    [] st = "escape" /\ c = "u"       -> "u1"
    [] st = "u1" /\ c \in Hex         -> "u2"
    [] st = "u2" /\ c \in Hex         -> "u3"
    [] st = "u3" /\ c \in Hex         -> "u4"
    [] (st = "u4" /\ c \in Hex) \/
       (st = "text" /\ c \notin {DQ, BS, NUL, LF, CR}) \/
       (st = "escape" /\ c \notin {"u", NUL})-> "text"
    [] OTHER                          -> "invalid"

InNumber == {"sign", "int", "zero", "digits", "point", "fraction", "e", "esign", "exponent"}
InString == {"text", "escape", "u1", "u2", "u3", "u4"}
Scanning == InNumber \union InString
Move     == IF st \in InNumber THEN NumberMove ELSE StringMove

Calling == reading = "ok" /\ st = "blank"

-----------------------------------------------------------------------------
(* White space; a line ends with LF, CR or both.                           *)
Mut_Skipped == 1
Skipped == IF c = CR /\ storage[i + 1] = LF THEN 2 ELSE 1

Skip ==
  /\ Calling /\ c \in Blanks
  /\ index' = index + Skipped /\ i' = index'
  /\ \/ c \in {LF, CR} /\ line' = line + 1 /\ col' = 1
     \/ c = TAB /\ col' = col + 4 /\ UNCHANGED line
     \/ c = " " /\ col' = col + 1 /\ UNCHANGED line
  /\ UNCHANGED <<st, tokens>>

(* A token is returned, and the lexer moves n characters on. *)
Return(kind, from, length, n) ==
  /\ tokens' = Append(tokens, [kind |-> kind, from |-> from, length |-> length,
                               line |-> line, col |-> col])
  /\ index' = index + n /\ i' = index' /\ col' = col + n
  /\ UNCHANGED line

Error == Return("error", index, 1, 1) /\ st' = "done"

Enter ==
  /\ Calling
  /\ \/ c \in Digit \union {"-"} /\ st' = "sign" /\ UNCHANGED i
     \/ c = DQ /\ st' = "text" /\ i' = i + 1
  /\ UNCHANGED <<index, line, col, tokens>>

Scan ==
  /\ st \in Scanning /\ Move \in Scanning
  /\ st' = Move /\ i' = i + 1
  /\ UNCHANGED <<index, line, col, tokens>>

Number ==
  /\ st \in InNumber /\ Move = "number"
  /\ Return("number", index, i - index, i - index) /\ st' = "blank"

String ==
  /\ st \in InString /\ Move = "string"
  /\ Return("string", index + 1, i - index - 1, i - index + 1) /\ st' = "blank"

Invalid == st \in Scanning /\ Move = "invalid" /\ Error

(* strncmp, then is_boundary of the character behind the word. *)
Spelt ==
  {w \in Literals : /\ \A k \in 1..Len(Word[w]) : storage[index + k - 1] = Word[w][k]
                    /\ storage[index + Len(Word[w])] \in Boundary}

Literal(w) ==
  /\ Calling /\ c = Word[w][1]
  /\ \/ w \in Spelt /\ Return(w, index, Len(Word[w]), Len(Word[w])) /\ UNCHANGED st
     \/ w \notin Spelt /\ Error

Punctuation == Calling /\ c \in Punct /\ Return(c, index, 1, 1) /\ UNCHANGED st

Eof == Calling /\ c = NUL /\ Return("eof", index, 0, 0) /\ st' = "done"

Unsupported ==
  /\ Calling
  /\ c \notin Blanks \union Digit \union Punct \union {"-", DQ, "t", "f", "n", NUL}
  /\ Error

lexer_next ==
  \/ Skip \/ Enter \/ Scan \/ Number \/ String \/ Invalid
  \/ (\E w \in Literals : Literal(w)) \/ Punctuation \/ Eof \/ Unsupported

Next ==
  \/ ReadStep /\ UNCHANGED lexVars
  \/ lexer_next /\ UNCHANGED fileVars

Spec == Init /\ [][Next]_vars

-----------------------------------------------------------------------------
(* No character behind the first NUL of the buffer is looked at, whatever  *)
(* the file contains (the look-ahead of scan_number, of escapes, of CR LF, *)
(* and the comparison with a literal).                                     *)
InBuffer ==
  reading = "ok" => i <= Len(storage) /\ \A k \in 1..i-1 : storage[k] # NUL
=============================================================================
