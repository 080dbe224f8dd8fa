----------------------------- MODULE JsonTokens -----------------------------
(***************************************************************************)
(* What the tokens of a file are by the rules of JSON (with the liberties  *)
(* the lexer takes in strings), stated over the file's text without a      *)
(* scanner, and that the lexer of json-parser finds just these.            *)
(***************************************************************************)
EXTENDS JsonLexer, FiniteSetsExt

(* The text that counts: the file up to its first NUL.                     *)
Text == LET s == Append(file, NUL)
        IN  SubSeq(s, 1, Min({k \in DOMAIN s : s[k] = NUL}))

DigitsAt(s, a, b) == a <= b /\ b <= Len(s) /\ \A k \in a..b : s[k] \in Digit

(* "-" if negative, an integer without leading zeros up to m, a fraction up*)
(* to f, an exponent up to the end.                                        *)
IsNumber(s) ==
  \E a \in 1..2, m, f \in 1..Len(s), g \in 2..3 :
     /\ a = 2 => s[1] = "-"
     /\ DigitsAt(s, a, m) /\ (s[a] = "0" => m = a)
     /\ f = m \/ (f > m /\ s[m + 1] = "." /\ DigitsAt(s, m + 2, f))
     /\ f = Len(s) \/ (/\ s[f + 1] = "e" /\ DigitsAt(s, f + g, Len(s))
                       /\ g = 3 => s[f + 2] \in {"+", "-"})

(* Character k is preceded by an odd number of backslashes. *)
Escaped(s, k) ==
  \E n \in 1..k-1 : /\ (k - n) % 2 = 1
                    /\ \A b \in n..k-1 : s[b] = BS
                    /\ n = 1 \/ s[n - 1] # BS

IsString(s) ==
  /\ Len(s) >= 2 /\ s[1] = DQ /\ s[Len(s)] = DQ
  /\ \A k \in 2..Len(s) :
       /\ s[k] = DQ /\ k < Len(s) => Escaped(s, k)
       /\ s[k] \in {LF, CR} => Escaped(s, k)
       /\ s[k] = "u" /\ Escaped(s, k) =>
            k + 4 < Len(s) /\ \A n \in k+1..k+4 : s[n] \in Hex
  /\ ~Escaped(s, Len(s))

(* Characters p to e of the text are a token of this kind. *)
IsToken(kind, p, e) ==
  LET s == SubSeq(Text, p, e) IN
  CASE kind = "number"    -> IsNumber(s) /\ Text[e + 1] \in Boundary
    [] kind = "string"    -> IsString(s)
    [] kind \in Literals  -> s = Word[kind] /\ Text[e + 1] \in Boundary
    [] kind \in Punct     -> s = <<kind>>
    [] OTHER              -> FALSE
Kinds == {"number", "string"} \union Literals \union Punct

StartOf(t) == IF t.kind = "string" THEN t.from - 1 ELSE t.from
EndOf(t)  == StartOf(t) + t.length + (IF t.kind = "string" THEN 1 ELSE -1)

(* The place of character p, whose white space so far is in blanks: lines  *)
(* end with LF, CR or CR LF, and a tab counts as four columns.             *)
LineAt(p, blanks) ==
  1 + Cardinality({k \in blanks : k < p /\ (Text[k] = CR \/
                     (Text[k] = LF /\ ~(k - 1 \in blanks /\ Text[k - 1] = CR)))})
ColAt(p, blanks) ==
  LET start == Max({0} \union {k \in blanks : k < p /\ Text[k] \in {LF, CR}})
  IN  p - start + 3 * Cardinality({k \in blanks : start < k /\ k < p /\ Text[k] = TAB})

(* What lies before the last token and in none of the others. *)
LeftOut(toks) ==
  {k \in 1..StartOf(toks[Len(toks)])-1 :
     \A t \in 1..Len(toks)-1 : ~(StartOf(toks[t]) <= k /\ k <= EndOf(toks[t]))}

(* Tokens 1 to n-1 are tokens of the text, one after the other, ... *)
InOrder(toks) ==
  \A t \in 1..Len(toks)-1 :
    /\ IsToken(toks[t].kind, StartOf(toks[t]), EndOf(toks[t]))
    /\ EndOf(toks[t]) < StartOf(toks[t + 1])

(* ... each with its place ... *)
Marked(toks, blanks) ==
  \A t \in 1..Len(toks) : /\ toks[t].line = LineAt(StartOf(toks[t]), blanks)
                          /\ toks[t].col = ColAt(StartOf(toks[t]), blanks)

(* ... and token n tells why they end there: the text does, or no token    *)
(* begins there.                                                           *)
Stops(last) ==
  \/ last.kind = "eof" /\ last.from = Len(Text)
  \/ /\ last.kind = "error" /\ Text[last.from] \notin Blanks \union {NUL}
     /\ \A e \in last.from..Len(Text)-1, k \in Kinds : ~IsToken(k, last.from, e)

(* A file is cut into tokens by the rules, each with its place; the lexer  *)
(* stops at the end of the text or where no token begins; nothing but white*)
(* space is left out, nothing is read twice, and nothing is lost on the way*)
(* from the file (read_file_all, lexer_next).                              *)
TokensRight ==
  st = "done" =>
    /\ InOrder(tokens)
    /\ Marked(tokens, LeftOut(tokens))
    /\ \A k \in LeftOut(tokens) : Text[k] \in Blanks
    /\ Stops(tokens[Len(tokens)])
=============================================================================
