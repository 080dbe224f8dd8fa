------------------------------- MODULE Shell -------------------------------
(***************************************************************************)
(* mini-bash-like-shell: the loop of main(), run_command and the three     *)
(* ways it runs a line (run_external, run_pipe, run_redirect), with the    *)
(* children it forks, the ends of the pipe each process holds, and Ctrl-C. *)
(*                                                                         *)
(* A line is what tokenize makes of it (module Tokenize): a sequence of    *)
(* words and of the operators "|", "<", ">".  A program is known by its    *)
(* name, and does what the scheduler of Programs below lets it do.         *)
(***************************************************************************)
EXTENDS Naturals, Sequences, FiniteSets

CONSTANTS
  Lines,     (* what the user may type: [ok |-> tokenize succeeds,         *)
             (* toks |-> the tokens (on failure: those found before it)]   *)
  PIPE_CAP,  (* units a pipe holds                                         *)
  GenLen,    (* units the program "gen" writes                             *)
  Faults,    (* system calls that may fail: subset of {"pipe", "fork"}     *)
  MaxLines,  (* lines typed (model bound)                                  *)
  MaxInts    (* times Ctrl-C is pressed (model bound)                      *)

Kids  == {1, 2}       (* pid / pid1 and pid2 *)
Ends  == {"r", "w"}   (* pfd[0] and pfd[1]   *)
Operators == {"|", "<", ">"}
Builtins  == {"pwd", "cd", "env", "exit"}

ASSUME ShellAssumption ==
  /\ Lines \subseteq [ok : BOOLEAN, toks : Seq(STRING)]
  /\ PIPE_CAP \in Nat \ {0} /\ GenLen \in Nat
  /\ Faults \subseteq {"pipe", "fork"}
  /\ MaxLines \in Nat /\ MaxInts \in Nat

VARIABLES
  pc,           (* where the shell is                                      *)
  argv,         (* tokens of the current line                              *)
  last_status,
  heap,         (* token strings allocated and not freed                   *)
  pfd,          (* ends of the current pipe the shell holds                *)
  lost,         (* ends of earlier pipes it still holds                    *)
  strays,       (* children it will never wait for                         *)
  at,           (* at[k]: stage of child k                                 *)
  args,         (* args[k]: its argument vector                            *)
  ends,         (* ends[k]: ends of the pipe it holds                      *)
  todo,         (* todo[k]: units "gen" has still to write                 *)
  exit,         (* exit[k]: its wait status                                *)
  data,         (* units in the pipe                                       *)
  lines, ints,  (* counters for the bounds                                 *)
  hit           (* Ctrl-C found all children of a command set up (history) *)

kid  == <<at, args, ends, todo, exit>>
sh   == <<argv, last_status, heap, lost, strays, lines>>
keys == <<ints, hit>>
vars == <<pc, pfd, sh, kid, data, keys>>

Exited(n) == [sig |-> FALSE, n |-> n]
Killed(n) == [sig |-> TRUE, n |-> n]
SIGINT  == 2
SIGSEGV == 11
SIGPIPE == 13

Init ==
  /\ pc = "prompt"
  /\ argv = <<>> /\ last_status = 0 /\ heap = 0
  /\ pfd = {} /\ lost = 0 /\ strays = 0 /\ data = 0
  /\ at = [k \in Kids |-> "none"]
  /\ args = [k \in Kids |-> <<>>]
  /\ ends = [k \in Kids |-> {}]
  /\ todo = [k \in Kids |-> 0]
  /\ exit = [k \in Kids |-> Exited(0)]
  /\ lines = 0 /\ ints = 0 /\ hit = FALSE

-----------------------------------------------------------------------------
(* run_command: what becomes of a token list.                              *)

OpsIn(toks) == {n \in 1..Len(toks) : toks[n] \in Operators}
FirstOp(toks) == CHOOSE n \in OpsIn(toks) : \A m \in OpsIn(toks) : n <= m

Dispatch(toks) ==
  IF OpsIn(toks) = {} THEN "fork"
  ELSE IF toks[FirstOp(toks)] = "|" THEN "pipe" ELSE "redirect"

Before(toks) == SubSeq(toks, 1, FirstOp(toks) - 1)
After(toks)  == SubSeq(toks, FirstOp(toks) + 1, Len(toks))

(* sv_free_all of a line's n tokens, of which `nulled' were overwritten.   *)
Mut_FreesNone(n, nulled) == heap' = heap
Freed(n, nulled) == heap' = heap - (n - nulled)

(* Back to the prompt with status rc. *)
Finish(rc, nulled) ==
  /\ pc' = "prompt"
  /\ last_status' = rc
  /\ Freed(Len(argv), nulled)

-----------------------------------------------------------------------------
(* The loop of main().                                                     *)

GetLine ==
  /\ pc = "prompt" /\ lines < MaxLines
  /\ lines' = lines + 1
  /\ hit' = FALSE
  /\ UNCHANGED <<pfd, lost, strays, data, ints>>

(* tokenize failed: its sv_free_all counts on a NULL at the end that is    *)
(* not there yet, so the last token stays.                                 *)
ReadBad(line) ==
  /\ GetLine
  /\ ~line.ok
  /\ heap' = heap + (IF line.toks = <<>> THEN 0 ELSE 1)
  /\ UNCHANGED <<pc, argv, last_status, kid>>

ReadBlank(line) ==
  /\ GetLine
  /\ line.ok /\ line.toks = <<>>
  /\ UNCHANGED <<pc, argv, last_status, heap, kid>>

(* handle_builtin comes before run_command looks for operators.            *)
ReadBuiltin(line) ==
  /\ GetLine
  /\ line.ok /\ line.toks # <<>> /\ line.toks[1] \in Builtins
  /\ argv' = line.toks
  /\ last_status' \in IF line.toks[1] = "env" THEN {0} ELSE {0, 1}
  /\ pc' = IF line.toks[1] = "exit" THEN "exited" ELSE "prompt"
  /\ at' = [k \in Kids |-> "none"]
  /\ UNCHANGED <<heap, args, ends, todo, exit>>

ReadCommand(line) ==
  /\ GetLine
  /\ line.ok /\ line.toks # <<>> /\ line.toks[1] \notin Builtins
  /\ argv' = line.toks
  /\ heap' = heap + Len(line.toks)
  /\ pc' = Dispatch(line.toks)
  /\ at' = [k \in Kids |-> "none"]
  /\ UNCHANGED <<last_status, args, ends, todo, exit>>

(* End of input. *)
ReadEof ==
  /\ pc = "prompt"
  /\ pc' = "exited"
  /\ UNCHANGED <<pfd, sh, kid, data, keys>>

-----------------------------------------------------------------------------
(* fork(): the child has the shell's descriptors and ignores SIGINT.       *)
Born(k, arguments) ==
  /\ at'   = [at EXCEPT ![k] = "born"]
  /\ args' = [args EXCEPT ![k] = arguments]
  /\ ends' = [ends EXCEPT ![k] = pfd]
  /\ todo' = [todo EXCEPT ![k] = GenLen]
  /\ UNCHANGED exit

(* waitpid() on child k returns. *)
Reap(k) ==
  /\ at[k] = "zombie"
  /\ at' = [at EXCEPT ![k] = "reaped"]
  /\ UNCHANGED <<args, ends, todo, exit>>

(* A call failed before anything was done: status 1. *)
GiveUp(nulled) ==
  /\ Finish(1, nulled)
  /\ UNCHANGED <<argv, lines, kid, keys, data>>

(* run_external *)
ExtFork ==
  /\ pc = "fork"
  /\ pc' = "wait"
  /\ Born(1, argv)
  /\ UNCHANGED <<pfd, sh, data, keys>>

ExtForkFails ==
  /\ pc = "fork" /\ "fork" \in Faults
  /\ GiveUp(0)
  /\ UNCHANGED <<pfd, lost, strays>>

ExtWait ==
  /\ pc = "wait"
  /\ Reap(1)
  /\ Finish(IF exit[1].sig THEN 128 + exit[1].n ELSE exit[1].n, 0)
  /\ UNCHANGED <<pfd, argv, lost, strays, lines, data, keys>>

(* run_redirect *)
RedirectNoFile ==
  /\ pc = "redirect" /\ After(argv) = <<>>
  /\ GiveUp(0)
  /\ UNCHANGED <<pfd, lost, strays>>

RedirectFork ==
  /\ pc = "redirect" /\ After(argv) # <<>>
  /\ pc' = "waitRedirect"
  /\ Born(1, Before(argv))
  /\ UNCHANGED <<pfd, sh, data, keys>>

RedirectForkFails ==
  /\ pc = "redirect" /\ After(argv) # <<>> /\ "fork" \in Faults
  /\ GiveUp(1)
  /\ UNCHANGED <<pfd, lost, strays>>

RedirectWait ==
  /\ pc = "waitRedirect"
  /\ Reap(1)
  /\ Finish(IF exit[1].sig THEN 1 ELSE exit[1].n, 1)
  /\ UNCHANGED <<pfd, argv, lost, strays, lines, data, keys>>

(* run_pipe *)
PipeCall ==
  /\ pc = "pipe"
  /\ pc' = "fork1"
  /\ pfd' = Ends
  /\ data' = 0
  /\ UNCHANGED <<sh, kid, keys>>

PipeFails ==
  /\ pc = "pipe" /\ "pipe" \in Faults
  /\ GiveUp(1)
  /\ UNCHANGED <<pfd, lost, strays>>

PipeFork1 ==
  /\ pc = "fork1"
  /\ pc' = "fork2"
  /\ Born(1, Before(argv))
  /\ UNCHANGED <<pfd, sh, data, keys>>

(* The return after a failed fork closes nothing and waits for nobody. *)
PipeForkFails ==
  /\ pc \in {"fork1", "fork2"} /\ "fork" \in Faults
  /\ lost' = lost + Cardinality(pfd)
  /\ pfd' = {}
  /\ strays' = strays + (IF pc = "fork2" THEN 1 ELSE 0)
  /\ at' = [k \in Kids |-> "none"]
  /\ Finish(1, 1)
  /\ UNCHANGED <<argv, lines, args, ends, todo, exit, data, keys>>

PipeFork2 ==
  /\ pc = "fork2"
  /\ pc' = "close"
  /\ Born(2, After(argv))
  /\ UNCHANGED <<pfd, sh, data, keys>>

Mut_PipeClose ==
  /\ pc = "close"
  /\ pc' = "wait1"
  /\ pfd' = pfd \ {"r"}
  /\ UNCHANGED <<sh, kid, data, keys>>

PipeClose ==
  /\ pc = "close"
  /\ pc' = "wait1"
  /\ pfd' = {}
  /\ UNCHANGED <<sh, kid, data, keys>>

PipeWait1 ==
  /\ pc = "wait1"
  /\ pc' = "wait2"
  /\ Reap(1)
  /\ UNCHANGED <<pfd, sh, data, keys>>

Mut_PipeStatus == IF exit[1].sig THEN 1 ELSE exit[1].n
PipeStatus == IF exit[2].sig THEN 1 ELSE exit[2].n

PipeWait2 ==
  /\ pc = "wait2"
  /\ Reap(2)
  /\ Finish(PipeStatus, 1)
  /\ UNCHANGED <<pfd, argv, lost, strays, lines, data, keys>>

ShellStep ==
  \/ ExtFork \/ ExtForkFails \/ ExtWait
  \/ RedirectNoFile \/ RedirectFork \/ RedirectForkFails \/ RedirectWait
  \/ PipeCall \/ PipeFails \/ PipeFork1 \/ PipeForkFails \/ PipeFork2
  \/ PipeClose \/ PipeWait1 \/ PipeWait2

User == ReadEof \/ \E line \in Lines :
          ReadBad(line) \/ ReadBlank(line) \/ ReadBuiltin(line) \/ ReadCommand(line)

-----------------------------------------------------------------------------
(* The children, up to execvp.                                             *)

Dies(k, status) ==
  /\ at'   = [at EXCEPT ![k] = "zombie"]
  /\ ends' = [ends EXCEPT ![k] = {}]
  /\ exit' = [exit EXCEPT ![k] = status]
  /\ UNCHANGED <<args, todo>>

(* restore_default_sigint *)
Restore(k) ==
  /\ at[k] = "born"
  /\ at' = [at EXCEPT ![k] = "ready"]
  /\ UNCHANGED <<pc, pfd, sh, args, ends, todo, exit, data, keys>>

(* The ends child k keeps: left its stdout, right its stdin. *)
Mut_Keeps(k) == IF ends[k] = {} THEN {} ELSE IF k = 1 THEN {"w"} ELSE Ends
Keeps(k) == IF ends[k] = {} THEN {} ELSE IF k = 1 THEN {"w"} ELSE {"r"}

(* open() of a redirection fails. *)
CannotOpen == OpsIn(argv) # {} /\ Dispatch(argv) = "redirect"
                /\ After(argv)[1] = "nofile"

(* execvp() succeeds; with no command at all it may fail or crash.         *)
Exec(k) ==
  /\ at[k] = "ready"
  /\ \/ /\ ~CannotOpen /\ args[k] # <<>> /\ args[k][1] # "nocmd"
        /\ at' = [at EXCEPT ![k] = "run"]
        /\ ends' = [ends EXCEPT ![k] = Keeps(k)]
        /\ UNCHANGED <<args, todo, exit>>
     \/ CannotOpen /\ Dies(k, Exited(1))
     \/ ~CannotOpen /\ args[k] = <<>> /\ Dies(k, Killed(SIGSEGV))
     \/ ~CannotOpen /\ (args[k] # <<>> => args[k][1] = "nocmd")
          /\ Dies(k, Exited(127))
  /\ UNCHANGED <<pc, pfd, sh, data, keys>>

-----------------------------------------------------------------------------
(* Programs.  "gen" writes GenLen units and succeeds, "yes" writes for     *)
(* ever, "sink" reads to the end of its input and succeeds, "quit" exits   *)
(* with 3 at once; any other name runs until it is interrupted, as does a  *)
(* program that reads from the terminal.                                   *)

Runs(k, program) == at[k] = "run" /\ args[k][1] = program
Live(k)   == at[k] \in {"born", "ready", "run"}
Held(e)   == e \in pfd \/ \E k \in Kids : Live(k) /\ e \in ends[k]
InPipe(k) == "r" \in ends[k]
OutPipe(k) == "w" \in ends[k]
FromFile(k) == "<" \in {argv[n] : n \in OpsIn(argv)}

HasOutput(k) == Runs(k, "yes") \/ (Runs(k, "gen") /\ todo[k] > 0)

WritesPipe(k) ==
  /\ HasOutput(k)
  /\ OutPipe(k) /\ Held("r") /\ data < PIPE_CAP
  /\ data' = data + 1
  /\ todo' = [todo EXCEPT ![k] = IF Runs(k, "gen") THEN @ - 1 ELSE @]
  /\ UNCHANGED <<at, args, ends, exit>>

GetsSigpipe(k) ==
  /\ HasOutput(k)
  /\ OutPipe(k) /\ ~Held("r")
  /\ Dies(k, Killed(SIGPIPE))
  /\ UNCHANGED data

WritesElsewhere(k) ==
  /\ Runs(k, "gen") /\ todo[k] > 0 /\ ~OutPipe(k)
  /\ todo' = [todo EXCEPT ![k] = 0]
  /\ UNCHANGED <<at, args, ends, exit, data>>

Reads(k) ==
  /\ Runs(k, "sink") /\ InPipe(k) /\ data > 0
  /\ data' = data - 1
  /\ UNCHANGED kid

Ends0(k) ==
  /\ \/ Runs(k, "gen") /\ todo[k] = 0
     \/ Runs(k, "sink") /\ InPipe(k) /\ data = 0 /\ ~Held("w")
     \/ Runs(k, "sink") /\ ~InPipe(k) /\ FromFile(k)
  /\ Dies(k, Exited(0))
  /\ UNCHANGED data

Quits(k) ==
  /\ Runs(k, "quit")
  /\ Dies(k, Exited(3))
  /\ UNCHANGED data

Program(k) ==
  /\ \/ WritesPipe(k) \/ GetsSigpipe(k) \/ WritesElsewhere(k)
     \/ Reads(k) \/ Ends0(k) \/ Quits(k)
  /\ UNCHANGED <<pc, pfd, sh, keys>>

Kid(k) == Restore(k) \/ Exec(k) \/ Program(k)

-----------------------------------------------------------------------------
(* Ctrl-C goes to the shell, which ignores it, and to its children: those  *)
(* past restore_default_sigint die, the others ignore it like the shell.   *)

Mut_Hit(k) == at[k] \in {"ready", "run"} /\ k = 1
Hit(k) == at[k] \in {"ready", "run"}

Waiting == pc \in {"wait", "waitRedirect", "wait1", "wait2"}

CtrlC ==
  /\ ints < MaxInts
  /\ ints' = ints + 1
  /\ at'   = [k \in Kids |-> IF Hit(k) THEN "zombie" ELSE at[k]]
  /\ ends' = [k \in Kids |-> IF Hit(k) THEN {} ELSE ends[k]]
  /\ exit' = [k \in Kids |-> IF Hit(k) THEN Killed(SIGINT) ELSE exit[k]]
  /\ hit' = (Waiting /\ \A k \in Kids : at[k] # "born")
  /\ UNCHANGED <<pc, pfd, sh, args, todo, data>>

Next == User \/ ShellStep \/ (\E k \in Kids : Kid(k)) \/ CtrlC

Spec == Init /\ [][Next]_vars

(* Every process that can take a step gets to run. *)
FairSpec == Spec /\ WF_vars(ShellStep) /\ \A k \in Kids : WF_vars(Kid(k))

-----------------------------------------------------------------------------
(* Properties.                                                             *)

Status == [sig : BOOLEAN, n : Nat]

TypeOK ==
  /\ pc \in {"prompt", "fork", "wait", "redirect", "waitRedirect", "pipe",
            "fork1", "fork2", "close", "wait1", "wait2", "exited"}
  /\ argv \in Seq(STRING)
  /\ last_status \in Nat /\ heap \in Nat
  /\ pfd \subseteq Ends /\ lost \in Nat /\ strays \in Nat
  /\ at \in [Kids -> {"none", "born", "ready", "run", "zombie", "reaped"}]
  /\ args \in [Kids -> Seq(STRING)]
  /\ ends \in [Kids -> SUBSET Ends]
  /\ todo \in [Kids -> 0..GenLen]
  /\ exit \in [Kids -> Status]
  /\ data \in 0..PIPE_CAP
  /\ lines \in 0..MaxLines /\ ints \in 0..MaxInts

(* When the prompt is back, the command is over: the children the shell    *)
(* knows of have been waited for and it holds no end of their pipe.        *)
CleanPrompt ==
  pc = "prompt" => /\ pfd = {}
                   /\ \A k \in Kids : at[k] \in {"none", "reaped"}

(* The shell waits for the children it starts: when the prompt is back it  *)
(* has forgotten none of them (README: waitpid waits for the children).    *)
EveryChildAwaited == pc = "prompt" => strays = 0

(* A line costs at most one token string (that of the operator that        *)
(* run_pipe or run_redirect overwrites, or the last one when tokenize      *)
(* fails), and none is freed twice on any of the ways back to the prompt.  *)
LosesOneAtMost == pc = "prompt" => heap \in 0..lines

(* The status of a pipeline tells whether its last program succeeded.      *)
PipeStatusHonest ==
  pc = "prompt" /\ at[2] = "reaped" =>
    (last_status = 0 <=> exit[2] = Exited(0))

(* Ctrl-C brings the prompt back, whatever the children do, once they are  *)
(* past restore_default_sigint.                                            *)
InterruptFrees == hit ~> pc \in {"prompt", "exited"}
=============================================================================
