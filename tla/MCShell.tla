------------------------------ MODULE MCShell ------------------------------
(***************************************************************************)
(* Lines for the instances of Shell.                                       *)
(***************************************************************************)
EXTENDS Shell

Line(toks) == [ok |-> TRUE, toks |-> toks]

(* Every kind of line, and every way a pipeline can end; all programs end  *)
(* by themselves or with their pipe.                                       *)
Ending == {
  Line(<<>>), [ok |-> FALSE, toks |-> <<"gen">>], Line(<<"cd">>),
  Line(<<"gen">>), Line(<<"nocmd">>), Line(<<"quit">>),
  Line(<<"gen", ">", "file">>), Line(<<"sink", "<", "file">>),
  Line(<<"gen", ">", "nofile">>), Line(<<"gen", ">">>),
  Line(<<"gen", "|", "sink">>), Line(<<"yes", "|", "quit">>),
  Line(<<"gen", "|", "quit">>), Line(<<"nocmd", "|", "sink">>),
  Line(<<"gen", "|", "nocmd">>), Line(<<"quit", "|", "sink">>),
  Line(<<"gen", "|">>), Line(<<"|", "sink">>),
  Line(<<"gen", "|", "sink", "|", "quit">>), Line(<<"gen", "|", "sink", ">", "file">>),
  Line(<<"gen", ">", "file", "|", "sink">>), Line(<<"cd", "|", "sink">>) }

(* Programs that only an interrupt ends. *)
Endless == {
  Line(<<"hang">>), Line(<<"sink">>), Line(<<"hang", ">", "file">>),
  Line(<<"hang", "|", "hang">>), Line(<<"gen", "|", "hang">>),
  Line(<<"yes", "|", "sink">>) }

AnyLine == Ending \union Endless

Pipeline == {Line(<<"gen", "|", "sink">>)}

(* A command ends if its programs do: the reader sees end of file when the *)
(* writer is gone, the writer gets SIGPIPE when the reader is, so no       *)
(* process may keep an end of the pipe it does not use (the close calls of *)
(* run_pipe).                                                              *)
PromptReturns ==
  pc # "prompt" /\ argv \notin {line.toks : line \in Endless}
    ~> pc \in {"prompt", "exited"}
=============================================================================
