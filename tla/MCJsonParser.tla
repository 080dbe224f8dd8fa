---------------------------- MODULE MCJsonParser ----------------------------
(***************************************************************************)
(* Documents for JsonParser, chosen token by token as the parser asks for  *)
(* them, and paths to look up in them.                                     *)
(***************************************************************************)
EXTENDS JsonPath, JsonGrammar, SequencesExt

(* A letter, and a tab as it stands in a file: a backslash and a t. *)
AllStrings == {"s", "tab"}
AllChars   == [s |-> <<"s">>, tab |-> <<BS, "t">>]

(* 0.1 and the double nearest to it, which is 0.10000000000000001 with 17 *)
(* digits.                                                                 *)
AllDoubles == {"0x1.999999999999ap-4"}
Nearest    == [n \in {"0.1"} |-> "0x1.999999999999ap-4"]
Digits17   == [d \in AllDoubles |->
                 <<"0", ".", "1">> \o [k \in 1..15 |-> "0"] \o <<"1">>]

(* The pieces paths are made of: keys, indices, dots, and broken ones.     *)
Pieces == {<<"s">>, <<BS, "t">>, <<"x">>, <<".">>, <<"[", "0", "]">>, <<"[", "1", "]">>,
           <<"[", "0", "1", "]">>, <<"[", "0">>, <<"[", "]">>, <<"s", "]">>}
AllPaths == {FlattenSeq(s) : s \in UNION {[1..n -> Pieces] : n \in 0..2}} \union
            {<<"s", ".", "s">>, <<"s", "[", "0", "]", ".", BS, "t">>, <<"[", "1", "0", "]">>}
=============================================================================
