---------------------------- MODULE MCJsonLexer ----------------------------
(***************************************************************************)
(* Files for JsonLexer, and that dump.c prints the strings in them as JSON *)
(* strings.                                                                *)
(***************************************************************************)
EXTENDS JsonTokens, SequencesExt

CONSTANT MaxLen   (* bound on the pieces files are made of *)

Upto(S, n) == UNION {[1..k -> S] : k \in 0..n}

(* Numbers, strings, escapes, white space, and short sequences of anything.*)
NumberFiles == Upto({"-", "0", "1", ".", "e"}, MaxLen) \union
               {<<"1", "e">> \o s : s \in Upto({"+", "-", "0", " "}, 3)}
StringFiles == {<<DQ>> \o s : s \in Upto({DQ, BS, "u", "x", LF, NUL}, MaxLen - 1)}
EscapeFiles == {<<DQ, BS, "u">> \o s : s \in Upto({"1", "a", "x", DQ}, MaxLen)}
ControlFiles == {<<DQ>> \o s \o <<DQ>> : s \in Upto({"SOH", BKSP, TAB, VT, FF, BS, "x"}, 2)}
BlankFiles  == Upto({" ", TAB, LF, CR, "["}, MaxLen)
Pieces      == {Word[w] : w \in Literals} \union {<<ch>> : ch \in Punct} \union
               {<<"t", "r">>, <<"n", "u", "l">>, <<"x">>, <<"1">>, <<VT>>, <<NUL>>,
                <<" ">>, <<LF>>, <<DQ, "x", TAB, DQ>>}
MixedFiles  == {FlattenSeq(s) : s \in Upto(Pieces, 3)}

AllFiles == NumberFiles \union StringFiles \union EscapeFiles \union ControlFiles
            \union BlankFiles \union MixedFiles

-----------------------------------------------------------------------------
Controls == {LF, CR, TAB, FF, BKSP} \union DOMAIN Code

(* The characters that a string stands for, the quotes left out.  Of the   *)
(* codes after "\u" only those of control characters are read.             *)
Codes(s)  == UNION {k+1..k+4 : k \in {n \in DOMAIN s : s[n] = "u" /\ Escaped(s, n)}}
Starts(s) == {k \in 2..Len(s)-1 : ~Escaped(s, k) /\ k \notin Codes(s)}

CharOf(s, k) ==
  IF s[k] # BS THEN s[k]
  ELSE CASE s[k+1] = "b" -> BKSP [] s[k+1] = "f" -> FF [] s[k+1] = "n" -> LF
         [] s[k+1] = "r" -> CR   [] s[k+1] = "t" -> TAB
         [] s[k+1] = "u" -> CHOOSE ch \in DOMAIN Code : Code[ch] = SubSeq(s, k + 2, k + 5)
         [] OTHER        -> s[k+1]

Denotes(s) ==
  LET starts == SetToSortSeq(Starts(s), <)
  IN  [n \in DOMAIN starts |-> CharOf(s, starts[n])]

(* Whatever text a string was read with, it is printed as a string of JSON *)
(* that stands for just that text, with no control character in it         *)
(* (set_string_owned keeps the text as it is; dump_string_escaped).        *)
PrintsTheText ==
  st = "done" => \A t \in DOMAIN tokens :
    tokens[t].kind = "string" =>
      LET s == SubSeq(storage, tokens[t].from, EndOf(tokens[t]) - 1)
          printed == dump_string_escaped(s)
      IN  /\ IsString(printed) /\ Denotes(printed) = s
          /\ \A k \in DOMAIN printed : printed[k] \notin Controls
=============================================================================
