------------------------------- MODULE MCMyCp -------------------------------
(***************************************************************************)
(* Small file systems for MyCp, and the ways to name two places in them.   *)
(***************************************************************************)
EXTENDS MyCp, TLC

File(data) == Node("file", data)

Plain ==
  << >> :> Dir @@ <<"f">> :> File(<<"a", "b">>) @@
  <<"d">> :> Dir @@ <<"d", "f">> :> File(<<"c">>) @@
  <<"d", "s">> :> Dir @@ <<"d", "s", "f">> :> File(<<"d", "e">>) @@
  <<"e">> :> Dir @@ <<"e", "s">> :> File(<<"f">>)

Special == Node("special", <<>>)
NoLinks == [p \in {} |-> p]

(* Plain; with special files, and an e that d can be copied to; with links *)
(* at the places of the copy, to a file, to a directory and to nothing;    *)
(* with links in the origin, to a directory elsewhere and to one above;    *)
(* and with a link to nothing in the origin.                               *)
AllSystems ==
  { [tree |-> Plain, links |-> NoLinks],
    [tree |-> <<"p">> :> Special @@ <<"d", "p">> :> Special
                @@ [p \in DOMAIN Plain \ {<<"e", "s">>} |-> Plain[p]], links |-> NoLinks],
    [tree |-> [p \in DOMAIN Plain \ {<<"e", "s">>} |-> Plain[p]],
     links |-> <<"n">> :> <<"e", "n">> @@ <<"e", "f">> :> <<"f">> @@ <<"p">> :> <<"e">>],
    [tree |-> Plain, links |-> <<"d", "n">> :> <<"e">> @@ <<"p">> :> <<"d">>],
    [tree |-> Plain, links |-> <<"d", "s", "n">> :> <<"d">>],
    [tree |-> Plain, links |-> <<"d", "p">> :> <<"n", "n">>] }

AllCommands ==
  [origin : {<<"f">>, <<"d">>, <<"d", "s">>, <<"d", "f">>, <<"p">>, <<"e">>},
   dest   : {<< >>, <<"f">>, <<"d">>, <<"d", "s">>, <<"d", "n">>, <<"e">>,
             <<"n">>, <<"n", "n">>, <<"p">>},
   slash  : BOOLEAN]
=============================================================================
