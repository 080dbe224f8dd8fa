------------------------------ MODULE JsonText ------------------------------
(***************************************************************************)
(* Characters of json-parser's texts, and how dump.c prints a string.      *)
(***************************************************************************)
EXTENDS Naturals, Sequences

LF == "\n"   CR == "\r"   TAB == "\t"   FF == "\f"   BKSP == "BKSP"
BS == "\\"   DQ == "\""

(* Of the other control characters two, with their codes in hexadecimal.   *)
VT   == "VT"
Code == [SOH |-> <<"0", "0", "0", "1">>, VT |-> <<"0", "0", "0", "b">>]

-----------------------------------------------------------------------------
(* What dump_string_escaped prints for a character, and for a string.      *)
Mut_Escape(ch) ==
  CASE ch = DQ            -> <<BS, ch>>
    [] ch = BKSP          -> <<BS, "b">>
    [] ch = FF            -> <<BS, "f">>
    [] ch = LF            -> <<BS, "n">>
    [] ch = CR            -> <<BS, "r">>
    [] ch = TAB           -> <<BS, "t">>
    [] ch \in DOMAIN Code -> <<BS, "u">> \o Code[ch]
    [] OTHER              -> <<ch>>

Escape(ch) ==
  CASE ch \in {BS, DQ}    -> <<BS, ch>>
    [] ch = BKSP          -> <<BS, "b">>
    [] ch = FF            -> <<BS, "f">>
    [] ch = LF            -> <<BS, "n">>
    [] ch = CR            -> <<BS, "r">>
    [] ch = TAB           -> <<BS, "t">>
    [] ch \in DOMAIN Code -> <<BS, "u">> \o Code[ch]
    [] OTHER              -> <<ch>>

dump_string_escaped(s) ==
  LET text[n \in Nat] == IF n = 0 THEN <<DQ>> ELSE text[n-1] \o Escape(s[n])
  IN  Append(text[Len(s)], DQ)
=============================================================================
