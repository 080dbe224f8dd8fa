---------------------------- MODULE ShellProofs ----------------------------
(***************************************************************************)
(* Theorems about the shell: about Shell, for all sets of lines, sizes and *)
(* failing calls; and about Tokenize, which makes those lines, for every   *)
(* text and every initial size of its buffer.                              *)
(***************************************************************************)
EXTENDS Shell, TokenReference, FiniteSetTheorems, WellFoundedInduction, SequenceTheorems, TLAPS

(* Where a command is, and which children there are.                       *)
Over == {"prompt", "exited"}
Idle(k) == at[k] \in {"none", "reaped"}

Family ==
  /\ pc \in Over \union {"fork", "redirect", "pipe", "fork1"} => \A k \in Kids : Idle(k)
  /\ pc \in {"fork", "redirect", "pipe", "fork1", "wait", "waitRedirect", "fork2"}
       => at[2] = "none"
  /\ pc = "wait2" => at[1] = "reaped"

(* The shell holds ends of a pipe only while it sets up a pipeline.        *)
PipeOpen == pc \notin {"fork1", "fork2", "close"} => pfd = {}

(* What is allocated: the tokens of the current line, and one string at    *)
(* most for each line before.                                              *)
Strings ==
  /\ pc \in Over => heap <= lines
  /\ pc \notin Over => /\ Len(argv) \in 1..heap
                       /\ heap + 1 <= lines + Len(argv)

(* run_pipe and run_redirect are called for a line with an operator.       *)
HasOperator ==
  pc \in {"redirect", "pipe", "fork1", "fork2"} => OpsIn(argv) # {}

IInv == TypeOK /\ HasOperator /\ Family /\ PipeOpen /\ Strings /\ PipeStatusHonest

-----------------------------------------------------------------------------
(* The first operator of a line is there whenever there is an operator.    *)

LEMMA LeastExists ==
  ASSUME NEW T \in SUBSET Nat, T # {}
  PROVE  \E n \in T : \A m \in T : n <= m
<1>1. IsWellFoundedOn(OpToRel(<, Nat), Nat)
  BY NatLessThanWellFounded
<1>2. PICK n \in T : \A m \in T : ~(<<m, n>> \in OpToRel(<, Nat))
  BY <1>1, WFMin
<1>3. ASSUME NEW m \in T PROVE n <= m
  <2>1. <<m, n>> \in Nat \X Nat /\ m \in Nat /\ n \in Nat
    OBVIOUS
  <2>2. m < n => <<m, n>> \in OpToRel(<, Nat)
    BY <2>1, Zenon DEF OpToRel
  <2>3. ~(m < n)
    BY <1>2, <2>2, Zenon
  <2> QED BY <2>1, <2>3
<1> QED BY <1>3

LEMMA FirstOpThere ==
  ASSUME NEW toks \in Seq(STRING), OpsIn(toks) # {}
  PROVE  FirstOp(toks) \in 1..Len(toks)
<1>1. OpsIn(toks) \in SUBSET Nat
  BY DEF OpsIn
<1>2. \E n \in OpsIn(toks) : \A m \in OpsIn(toks) : n <= m
  BY <1>1, LeastExists
<1>3. FirstOp(toks) \in OpsIn(toks)
  BY <1>2 DEF FirstOp
<1> QED BY <1>3 DEF OpsIn

(* What a child gets is a vector of words.                                 *)
LEMMA Parts ==
  ASSUME NEW toks \in Seq(STRING), OpsIn(toks) # {}
  PROVE  Before(toks) \in Seq(STRING) /\ After(toks) \in Seq(STRING)
<1>1. FirstOp(toks) \in 1..Len(toks) /\ Len(toks) \in Nat
  BY FirstOpThere
<1>2. \A m \in 1..FirstOp(toks) - 1 : toks[m] \in STRING
  BY <1>1
<1>3. \A m \in FirstOp(toks) + 1..Len(toks) : toks[m] \in STRING
  BY <1>1
<1>4. Before(toks) \in Seq(STRING)
  BY <1>1, <1>2, SubSeqProperties DEF Before
<1>5. After(toks) \in Seq(STRING)
  BY <1>1, <1>3, SubSeqProperties DEF After
<1> QED BY <1>4, <1>5

-----------------------------------------------------------------------------
(* The groups of steps, each of which keeps the invariant.                 *)

LEMMA CountEnds == \A S \in SUBSET Ends : Cardinality(S) \in Nat
<1>1. Ends = ({} \union {"r"}) \union {"w"}
  BY DEF Ends
<1>2. IsFiniteSet(Ends)
  BY <1>1, FS_EmptySet, FS_AddElement
<1> QED BY <1>2, FS_Subset, FS_CardinalityType

LEMMA InitInv == Init => IInv
BY ShellAssumption DEF Init, IInv, TypeOK, HasOperator, Family, Over, Idle, PipeOpen,
   Strings, PipeStatusHonest, Kids, Ends, Status, Exited

LEMMA UserStep == IInv /\ User => IInv'
<1> SUFFICES ASSUME IInv, User PROVE IInv'
  OBVIOUS
<1> USE ShellAssumption DEF IInv, TypeOK, Kids, Ends, Status
<1> USE DEF HasOperator, Family, Over, Idle, PipeOpen, Strings, PipeStatusHonest
<1>1. CASE ReadEof
  BY <1>1 DEF ReadEof, sh, kid, keys
<1>2. ASSUME NEW typed \in Lines, ReadBad(typed) PROVE IInv'
  BY <1>2 DEF ReadBad, GetLine, kid
<1>3. ASSUME NEW typed \in Lines, ReadBlank(typed) PROVE IInv'
  BY <1>3 DEF ReadBlank, GetLine, kid
<1>4. ASSUME NEW typed \in Lines, ReadBuiltin(typed) PROVE IInv'
  BY <1>4 DEF ReadBuiltin, GetLine
<1>5. ASSUME NEW typed \in Lines, ReadCommand(typed) PROVE IInv'
  <2>1. Len(typed.toks) \in Nat \ {0} /\ typed.toks \in Seq(STRING)
    BY <1>5, EmptySeq, SMT DEF ReadCommand
  <2>2. /\ pc' \in {"fork", "pipe", "redirect"}
        /\ pc' # "fork" => OpsIn(argv') # {}
    BY <1>5 DEF ReadCommand, Dispatch
  <2>3. TypeOK'
    <3>1. argv' \in Seq(STRING) /\ heap' \in Nat /\ lines' \in 0..MaxLines
      BY <1>5, <2>1 DEF ReadCommand, GetLine
    <3>2. at' \in [Kids -> {"none"}] /\ UNCHANGED <<args, ends, todo, exit>>
      BY <1>5 DEF ReadCommand
    <3>3. UNCHANGED <<pfd, lost, strays, data, ints, last_status>>
      BY <1>5 DEF ReadCommand, GetLine
    <3> QED BY <2>2, <3>1, <3>2, <3>3
  <2>4. Strings'
    <3>1. heap <= lines
      BY <1>5 DEF ReadCommand, GetLine
    <3>2. /\ argv' = typed.toks /\ pc' \notin Over
          /\ heap' = heap + Len(typed.toks) /\ lines' = lines + 1
      BY <1>5, <2>2 DEF ReadCommand, GetLine
    <3>3. ASSUME NEW n \in Nat \ {0}
          PROVE  n \in 1..(heap + n) /\ (heap + n) + 1 <= (lines + 1) + n
      BY <3>1
    <3> QED BY <2>1, <3>2, <3>3
  <2>5. (HasOperator /\ Family /\ PipeOpen /\ PipeStatusHonest)'
    BY <1>5, <2>2 DEF ReadCommand, GetLine
  <2> QED BY <2>3, <2>4, <2>5
<1> QED BY <1>1, <1>2, <1>3, <1>4, <1>5 DEF User

LEMMA ShellInv == IInv /\ ShellStep => IInv'
<1> SUFFICES ASSUME IInv, ShellStep PROVE IInv'
  OBVIOUS
<1> USE ShellAssumption DEF IInv, TypeOK, Kids, Ends, Status
<1> USE DEF HasOperator, Family, Over, Idle, PipeOpen, Strings, PipeStatusHonest
<1> USE DEF sh, kid, keys, Finish, Freed, GiveUp, Born, Reap
<1>1. CASE ExtFork
  BY <1>1 DEF ExtFork
<1>2. CASE ExtForkFails
  BY <1>2 DEF ExtForkFails
<1>3. CASE ExtWait
  <2>1. last_status' \in Nat /\ heap' \in Nat
    BY <1>3, SMTT(30) DEF ExtWait
  <2>2. TypeOK'
    BY <1>3, <2>1 DEF ExtWait
  <2>3. (HasOperator /\ Family /\ PipeOpen /\ Strings /\ PipeStatusHonest)'
    BY <1>3, SMTT(30) DEF ExtWait
  <2> QED BY <2>2, <2>3
<1>4. CASE RedirectNoFile
  BY <1>4 DEF RedirectNoFile
<1>5. CASE RedirectFork
  BY <1>5, Parts, SMTT(30) DEF RedirectFork
<1>6. CASE RedirectForkFails
  BY <1>6 DEF RedirectForkFails
<1>7. CASE RedirectWait
  BY <1>7 DEF RedirectWait
<1>8. CASE PipeCall
  BY <1>8 DEF PipeCall
<1>9. CASE PipeFails
  BY <1>9 DEF PipeFails
<1>10. CASE PipeFork1
  BY <1>10, Parts DEF PipeFork1
<1>11. CASE PipeForkFails
  <2>1. lost' \in Nat
    <3>1. Cardinality(pfd) \in Nat
      BY CountEnds
    <3>2. lost' = lost + Cardinality(pfd) /\ lost \in Nat
      BY <1>11 DEF PipeForkFails
    <3> QED BY ONLY <3>1, <3>2
  <2>2. TypeOK'
    BY <1>11, <2>1, SMTT(30) DEF PipeForkFails
  <2>3. (HasOperator /\ Family /\ PipeOpen /\ Strings /\ PipeStatusHonest)'
    BY <1>11, SMTT(30) DEF PipeForkFails
  <2> QED BY <2>2, <2>3
<1>12. CASE PipeFork2
  BY <1>12, Parts DEF PipeFork2
<1>13. CASE PipeClose
  BY <1>13 DEF PipeClose
<1>14. CASE PipeWait1
  BY <1>14 DEF PipeWait1
<1>15. CASE PipeWait2
  BY <1>15 DEF PipeWait2, PipeStatus, Exited
<1> QED BY <1>1, <1>2, <1>3, <1>4, <1>5, <1>6, <1>7, <1>8, <1>9, <1>10, <1>11,
           <1>12, <1>13, <1>14, <1>15 DEF ShellStep

(* A step of a child changes that child, and no child that is over.        *)
LEMMA KidInv == ASSUME NEW k \in Kids PROVE IInv /\ Kid(k) => IInv'
<1> SUFFICES ASSUME IInv, Kid(k) PROVE IInv'
  OBVIOUS
<1> USE ShellAssumption DEF IInv, TypeOK, Kids, Ends, Status
<1> USE DEF HasOperator, Family, Over, Idle, PipeOpen, Strings, PipeStatusHonest
<1> USE DEF sh, kid, keys
<1>1. CASE Restore(k)
  BY <1>1 DEF Restore
<1>2. CASE Exec(k)
  <2> UNCHANGED <<pc, pfd, sh, data, keys>>
    BY <1>2 DEF Exec
  <2> UNCHANGED <<args, todo>>
    BY <1>2 DEF Exec, Dies
  <2>1. at[k] = "ready" /\ at' = [at EXCEPT ![k] = at'[k]]
        /\ at'[k] \in {"run", "zombie"}
    BY <1>2 DEF Exec, Dies
  <2>2. ends' \in [Kids -> SUBSET Ends]
    BY <1>2 DEF Exec, Dies, Keeps
  <2>3. exit' = [exit EXCEPT ![k] = exit'[k]] /\ exit'[k] \in Status
    <3>1. CASE UNCHANGED exit
      BY <3>1
    <3>2. CASE \E n \in Nat : \E b \in BOOLEAN : Dies(k, [sig |-> b, n |-> n])
      <4>1. PICK s \in Status : Dies(k, s)
        BY <3>2
      <4> QED BY <4>1 DEF Dies
    <3> QED BY <1>2, <3>1, <3>2 DEF Exec, Exited, Killed, SIGSEGV
  <2>4. TypeOK'
    BY <2>1, <2>2, <2>3, SMTT(30)
  <2>5. (HasOperator /\ Family /\ PipeOpen /\ Strings)'
    BY <2>1
  <2>6. PipeStatusHonest'
    BY <2>1, <2>3
  <2> QED BY <2>4, <2>5, <2>6
<1>3. CASE Program(k)
  <2> UNCHANGED <<pc, pfd, sh, keys>>
    BY <1>3 DEF Program
  <2> USE DEF HasOutput, Runs, Dies, Exited, Killed
  <2>1. CASE WritesPipe(k)
    BY <2>1, SMTT(30) DEF WritesPipe
  <2>2. CASE GetsSigpipe(k)
    BY <2>2 DEF GetsSigpipe, SIGPIPE
  <2>3. CASE WritesElsewhere(k)
    BY <2>3, SMTT(30) DEF WritesElsewhere
  <2>4. CASE Reads(k)
    BY <2>4 DEF Reads
  <2>5. CASE Ends0(k)
    BY <2>5 DEF Ends0
  <2>6. CASE Quits(k)
    BY <2>6 DEF Quits
  <2> QED BY <1>3, <2>1, <2>2, <2>3, <2>4, <2>5, <2>6 DEF Program
<1> QED BY <1>1, <1>2, <1>3 DEF Kid

LEMMA CtrlCInv == IInv /\ CtrlC => IInv'
<1> SUFFICES ASSUME IInv, CtrlC PROVE IInv'
  OBVIOUS
<1> USE ShellAssumption DEF IInv, TypeOK, Kids, Ends, Status
<1> USE DEF HasOperator, Family, Over, Idle, PipeOpen, Strings, PipeStatusHonest
<1> USE DEF sh, CtrlC, Hit, Killed, SIGINT
<1>1. TypeOK'
  OBVIOUS
<1>2. (HasOperator /\ Family /\ PipeOpen)'
  OBVIOUS
<1>3. (Strings /\ PipeStatusHonest)'
  OBVIOUS
<1> QED BY <1>1, <1>2, <1>3

LEMMA StutterInv == IInv /\ UNCHANGED vars => IInv'
BY DEF IInv, TypeOK, HasOperator, Family, Over, Idle, PipeOpen, Strings, PipeStatusHonest,
   vars, sh, kid, keys

LEMMA Invariant == Spec => []IInv
<1>1. IInv /\ [Next]_vars => IInv'
  BY UserStep, ShellInv, KidInv, CtrlCInv, StutterInv DEF Next
<1> QED BY InitInv, <1>1, PTL DEF Spec

-----------------------------------------------------------------------------
(* All variables keep their types; in particular the count of token        *)
(* strings never falls below zero, which a second free would make it do.   *)
THEOREM TypeCorrect == Spec => []TypeOK
<1>1. IInv => TypeOK
  BY DEF IInv
<1> QED BY Invariant, <1>1, PTL

(* The prompt never comes back before the children that were waited for    *)
(* are over, nor with an end of their pipe open (run_pipe, run_external,   *)
(* run_redirect), on none of the ways through a line.                      *)
THEOREM PromptClean == Spec => []CleanPrompt
<1>1. IInv => CleanPrompt
  BY DEF IInv, Family, PipeOpen, Over, Idle, CleanPrompt
<1> QED BY Invariant, <1>1, PTL

(* However long a session, it loses at most one token string per line      *)
(* (main's sv_free_all after argv was cut in two).                         *)
THEOREM LossBounded == Spec => []LosesOneAtMost
<1>1. IInv => LosesOneAtMost
  BY DEF IInv, Strings, Over, TypeOK, LosesOneAtMost
<1> QED BY Invariant, <1>1, PTL

(* After a pipeline last_status is 0 just when its last program exited     *)
(* with 0, whichever child ended first and however (run_pipe).             *)
THEOREM StatusHonest == Spec => []PipeStatusHonest
<1>1. IInv => PipeStatusHonest
  BY DEF IInv
<1> QED BY Invariant, <1>1, PTL

-----------------------------------------------------------------------------
(* tokenize.  Neither bound is inductive without the types of what it      *)
(* speaks of.                                                              *)
LineInv ==
  /\ line \in Seq(Alphabet \ {NUL})
  /\ i \in Nat /\ InLine
  /\ buf \in Seq(Alphabet)
  /\ cap \in Nat /\ cap >= 2 /\ BufferFits

(* A turn on a character other than the NUL moves on within the line. *)
LEMMA CharHere ==
  ASSUME LineInv, NEW n \in Nat, At(i + n) # NUL
  PROVE  i + n + 1 <= Len(line) /\ At(i + n) \in Alphabet
BY DEF LineInv, At

LEMMA PushFits ==
  ASSUME LineInv, NEW ch \in Alphabet, Push(ch)
  PROVE  /\ buf' \in Seq(Alphabet) /\ cap' \in Nat /\ cap' >= 2
         /\ Len(buf') < cap'
<1>1. /\ buf' = Append(buf, ch) /\ buf' \in Seq(Alphabet)
      /\ Len(buf') = Len(buf) + 1 /\ Len(buf) \in Nat
      /\ cap \in Nat /\ cap >= 2 /\ Len(buf) < cap
  BY DEF LineInv, Push, BufferFits
<1>2. cap' = Grown BY DEF Push
<1>3. CASE Len(buf) + 1 >= cap
  <2>1. cap' = cap * 2 BY <1>2, <1>3 DEF Grown
  <2>2. cap * 2 \in Nat /\ cap * 2 >= 2 /\ Len(buf) + 1 < cap * 2 BY <1>1
  <2> QED BY <1>1, <2>1, <2>2
<1>4. CASE ~(Len(buf) + 1 >= cap)
  <2>1. cap' = cap BY <1>2, <1>4 DEF Grown
  <2>2. Len(buf) + 1 < cap BY <1>1, <1>4
  <2> QED BY <1>1, <2>1, <2>2
<1> QED BY <1>3, <1>4

LEMMA EndWordFits ==
  ASSUME LineInv, EndWord
  PROVE  /\ buf' \in Seq(Alphabet) /\ cap' \in Nat /\ cap' >= 2
         /\ Len(buf') < cap'
BY DEF LineInv, EndWord, Grown

LEMMA KeepFits ==
  ASSUME LineInv, Keep
  PROVE  /\ buf' \in Seq(Alphabet) /\ cap' \in Nat /\ cap' >= 2
         /\ Len(buf') < cap'
BY DEF LineInv, Keep, BufferFits

(* The index moves n characters on, over characters of the line. *)
LEMMA GoStaysIn ==
  ASSUME LineInv, NEW s, NEW n \in Nat, Go(s, n), i + n <= Len(line)
  PROVE  line' \in Seq(Alphabet \ {NUL}) /\ i' \in Nat /\ InLine'
BY DEF LineInv, Go, InLine

LEMMA StopStaysIn ==
  ASSUME LineInv, NEW r, Stop(r)
  PROVE  line' \in Seq(Alphabet \ {NUL}) /\ i' \in Nat /\ InLine'
BY DEF LineInv, Stop, InLine

LEMMA InitLine ==
  ASSUME Start
  PROVE  LineInv
<1>1. line \in Seq(Alphabet \ {NUL}) /\ i = 0
  BY TokenizeAssumption DEF Start
<1>2. i \in Nat /\ i <= Len(line) BY <1>1
<1>3. buf = <<>> /\ cap = BUFSIZE BY DEF Start
<1>4. buf \in Seq(Alphabet) /\ Len(buf) = 0 BY <1>3
<1>5. cap \in Nat /\ cap >= 2 /\ Len(buf) < cap
  BY <1>3, <1>4, TokenizeAssumption
<1> QED BY <1>1, <1>2, <1>4, <1>5 DEF LineInv, InLine, BufferFits

LEMMA NextLine ==
  ASSUME LineInv, [Loop]_locals
  PROVE  LineInv'
<1>i. i \in Nat /\ i + 0 = i BY DEF LineInv
<1>c. c # NUL => i + 1 <= Len(line) /\ c \in Alphabet
  BY <1>i, CharHere, 0 \in Nat DEF c
<1>d. At(i + 1) # NUL => i + 2 <= Len(line) /\ At(i + 1) \in Alphabet
  BY <1>i, CharHere, 1 \in Nat
<1>k. c \in Space \union Ops \union {BS, SQ, DQ} => c # NUL
  BY DEF Space, LF, TAB, Ops, BS, SQ, DQ, NUL
<1>1. CASE OutEnd
  BY <1>1, KeepFits, StopStaysIn DEF OutEnd, LineInv, BufferFits
<1>2. CASE OutSpace
  BY <1>2, <1>c, <1>k, KeepFits, GoStaysIn DEF OutSpace, LineInv, BufferFits
<1>3. CASE OutOperator
  BY <1>3, <1>c, <1>k, KeepFits, GoStaysIn DEF OutOperator, LineInv, BufferFits
<1>4. ASSUME NEW s, Quote(s) PROVE LineInv'
  BY <1>4, <1>c, <1>k, KeepFits, GoStaysIn DEF Quote, LineInv, BufferFits
<1>5. ASSUME NEW s, Escape(s) PROVE LineInv'
  BY <1>5, <1>d, PushFits, GoStaysIn DEF Escape, LineInv, BufferFits
<1>6. ASSUME NEW s, EscapeEnd(s) PROVE LineInv'
  BY <1>6, <1>c, <1>k, KeepFits, GoStaysIn DEF EscapeEnd, LineInv, BufferFits
<1>7. ASSUME NEW s, PlainChar(s) PROVE LineInv'
  BY <1>7, <1>c, PushFits, GoStaysIn DEF PlainChar, Plain, LineInv, BufferFits
<1>8. CASE WordSpace
  BY <1>8, <1>c, <1>k, EndWordFits, GoStaysIn DEF WordSpace, LineInv, BufferFits
<1>9. CASE WordEnd
  BY <1>9, EndWordFits, StopStaysIn DEF WordEnd, LineInv, BufferFits
<1>10. CASE WordOperator
  BY <1>10, <1>c, <1>k, EndWordFits, GoStaysIn
     DEF WordOperator, LineInv, BufferFits
<1>11. CASE Unmatched
  BY <1>11, KeepFits, StopStaysIn DEF Unmatched, LineInv, BufferFits
<1>12. CASE QuoteClose
  BY <1>12, <1>c, <1>k, KeepFits, GoStaysIn DEF QuoteClose, LineInv, BufferFits
<1>13. CASE SingleChar
  BY <1>13, <1>c, PushFits, GoStaysIn DEF SingleChar, LineInv, BufferFits
<1>14. CASE DoubleChar
  BY <1>14, <1>c, PushFits, GoStaysIn DEF DoubleChar, LineInv, BufferFits
<1>15. CASE DoubleEscape
  <2>1. CASE At(i + 1) = NUL
    BY <1>15, <1>c, <1>k, <2>1, KeepFits, GoStaysIn
       DEF DoubleEscape, LineInv, BufferFits
  <2>2. CASE At(i + 1) # NUL
    <3>1. Unescaped(At(i + 1)) \in Alphabet
      BY <1>d, <2>2, TokenizeAssumption DEF Unescaped
    <3> QED BY <1>15, <1>d, <2>2, <3>1, PushFits, GoStaysIn
            DEF DoubleEscape, LineInv, BufferFits
  <2> QED BY <2>1, <2>2
<1>16. CASE UNCHANGED locals
  BY <1>16 DEF locals, LineInv, InLine, BufferFits
<1> QED BY <1>1, <1>2, <1>3, <1>4, <1>5, <1>6, <1>7, <1>8, <1>9, <1>10, <1>11,
           <1>12, <1>13, <1>14, <1>15, <1>16
        DEF Loop

LEMMA LineInvariant == TokenizeSpec => []LineInv
<1>1. Start => LineInv BY InitLine
<1>2. LineInv /\ [Loop]_locals => LineInv' BY NextLine
<1> QED BY <1>1, <1>2, PTL DEF TokenizeSpec

(* tokenize never reads past the terminator of the line (parse.c's         *)
(* line[++i]), for every line and every first size of its buffer of two or *)
(* more.                                                                   *)
THEOREM NoReadPastEnd == TokenizeSpec => []InLine
<1>1. LineInv => InLine BY DEF LineInv
<1> QED BY <1>1, LineInvariant, PTL

(* Nor does it write past the end of buf (BUF_PUSH).                       *)
THEOREM NoWritePastBuffer == TokenizeSpec => []BufferFits
<1>1. LineInv => BufferFits BY DEF LineInv
<1> QED BY <1>1, LineInvariant, PTL

-----------------------------------------------------------------------------
(* Recursion over an interval of numbers, with the step as a function of   *)
(* the value so far and the position: there is a function that satisfies   *)
(* such an equation, and its values are where the step stays.              *)

LEMMA FromBelow ==
  ASSUME NEW a \in Nat, NEW b \in Nat, NEW G,
         \A n \in a..b : (n = a \/ n - 1 \in G) => n \in G
  PROVE  a..b \subseteq G
<1> DEFINE T == (a..b) \ G
<1> SUFFICES ASSUME T # {} PROVE FALSE OBVIOUS
<1>1. T \in SUBSET Nat OBVIOUS
<1> HIDE DEF T
<1>2. PICK n \in T : \A m \in T : n <= m BY <1>1, LeastExists
<1> USE DEF T
<1>3. n # a /\ n \in a..b /\ n - 1 \notin G OBVIOUS
<1>4. n - 1 \in T BY <1>3
<1>5. n <= n - 1 BY <1>2, <1>4
<1> QED BY <1>3, <1>5

Recursive(f, a, b, base, step) ==
  f = [n \in a..b |-> IF n = a THEN base ELSE step[<<f[n - 1], n>>]]

LEMMA RecursionExists ==
  ASSUME NEW S, NEW a \in Nat, NEW b \in Nat, a <= b, NEW base \in S,
         NEW step \in [S \X Nat -> S]
  PROVE  \E f \in [a..b -> S] : Recursive(f, a, b, base, step)
<1> DEFINE Part(f, m) == f \in [a..m -> S] /\ Recursive(f, a, m, base, step)
           G == {m \in a..b : \E f : Part(f, m)}
<1>1. ASSUME NEW m \in a..b, m = a \/ m - 1 \in G PROVE m \in G
  <2>1. CASE m = a
    <3> DEFINE f == [n \in a..a |-> base]
    <3>1. f \in [a..m -> S] BY <2>1
    <3>2. f = [n \in a..m |-> IF n = a THEN base ELSE step[<<f[n - 1], n>>]] BY <2>1
    <3> QED BY <3>1, <3>2 DEF Recursive
  <2>2. CASE m # a
    <3>1. PICK f : Part(f, m - 1) BY <1>1, <2>2
    <3>2. \A n \in a..m-1 : /\ f[n] \in S
                            /\ f[n] = IF n = a THEN base ELSE step[<<f[n - 1], n>>]
      BY <3>1 DEF Recursive
    <3> DEFINE g == [n \in a..m |-> IF n = m THEN step[<<f[m - 1], m>>] ELSE f[n]]
    <3>3. m - 1 \in a..m-1 /\ m \in Nat BY <2>2
    <3>4. g \in [a..m -> S]
      <4>1. step[<<f[m - 1], m>>] \in S BY <3>2, <3>3
      <4>2. \A n \in a..m : n # m => n \in a..m-1 OBVIOUS
      <4> QED BY <3>2, <4>1, <4>2
    <3>5. ASSUME NEW n \in a..m
          PROVE  g[n] = IF n = a THEN base ELSE step[<<g[n - 1], n>>]
      <4>1. CASE n = m
        <5>1. g[m - 1] = f[m - 1] BY <3>3
        <5> QED BY <2>2, <4>1, <5>1
      <4>2. CASE n # m
        <5>1. n \in a..m-1 /\ g[n] = f[n] BY <4>2
        <5>2. n # a => g[n - 1] = f[n - 1] BY <5>1
        <5> QED BY <3>2, <5>1, <5>2
      <4> QED BY <4>1, <4>2
    <3>6. Recursive(g, a, m, base, step)
      <4> HIDE DEF g
      <4>1. g = [n \in a..m |-> g[n]] BY <3>4
      <4> QED BY <3>5, <4>1 DEF Recursive
    <3> HIDE DEF g
    <3> QED BY <3>4, <3>6
  <2> QED BY <2>1, <2>2
<1>2. a..b \subseteq G
  <2> HIDE DEF G
  <2> QED BY <1>1, FromBelow
<1> QED BY <1>2, b \in a..b

(* The quoting of each character, from the one before it. *)
ModeNames == {"none", "sq", "dq", "escaped", "dq-escaped"}

LEMMA ModesAre ==
  ASSUME NEW s \in Seq(Alphabet)
  PROVE  /\ Modes(s)[1] = "none"
         /\ \A n \in 1..Len(s) : Modes(s)[n + 1] = Then(Modes(s)[n], s[n])
<1> DEFINE b == Len(s) + 1
           step == [x \in ModeNames \X Nat |->
                      IF x[2] - 1 \in 1..Len(s) THEN Then(x[1], s[x[2] - 1]) ELSE "none"]
           Is(f) == f = [n \in 1..b |-> IF n = 1 THEN "none" ELSE Then(f[n-1], s[n-1])]
<1>1. step \in [ModeNames \X Nat -> ModeNames]
  <2>1. \A m \in ModeNames : \A ch : Then(m, ch) \in ModeNames BY DEF Then, ModeNames
  <2> QED BY <2>1 DEF ModeNames
<1>2. b \in Nat /\ 1 <= b /\ "none" \in ModeNames BY DEF ModeNames
<1>3. \E f \in [1..b -> ModeNames] : Recursive(f, 1, b, "none", step)
  <2> HIDE DEF step, b
  <2> QED BY <1>1, <1>2, RecursionExists
<1>4. PICK f \in [1..b -> ModeNames] : Recursive(f, 1, b, "none", step) BY <1>3
<1>5. \A n \in 1..b : n # 1 => step[<<f[n - 1], n>>] = Then(f[n - 1], s[n - 1])
  <2> SUFFICES ASSUME NEW n \in 1..b, n # 1
               PROVE  step[<<f[n - 1], n>>] = Then(f[n - 1], s[n - 1])
    OBVIOUS
  <2>1. n - 1 \in 1..b /\ n - 1 \in 1..Len(s) /\ n \in Nat OBVIOUS
  <2>2. f[n - 1] \in ModeNames BY <1>4, <2>1
  <2>3. <<f[n - 1], n>> \in ModeNames \X Nat BY <2>1, <2>2
  <2> QED BY <2>1, <2>3
<1>6. Is(f)
  <2> HIDE DEF step
  <2> QED BY <1>4, <1>5 DEF Recursive
<1>7. Modes(s) = CHOOSE g : Is(g) BY DEF Modes
<1>8. Is(Modes(s))
  <2> HIDE DEF Is
  <2> QED BY <1>6, <1>7
<1> QED BY <1>8

LEMMA MeaningIs ==
  ASSUME NEW m, NEW ch \in Alphabet
  PROVE  Meaning(m, ch) \in Seq(Alphabet)
<1>1. Unescaped(ch) \in Alphabet BY TokenizeAssumption DEF Unescaped
<1> QED BY <1>1 DEF Meaning

(* What a word holds, from what its characters mean. *)
LEMMA WrittenIs ==
  ASSUME NEW s \in Seq(Alphabet), NEW a \in 1..Len(s)
  PROVE  /\ Written(s, a)[a - 1] = <<>>
         /\ \A n \in a..Len(s) :
              Written(s, a)[n] = Written(s, a)[n - 1] \o Literal(s, n)
<1> DEFINE S == Seq(Alphabet)
           p == a - 1
           b == Len(s)
           step == [x \in S \X Nat |-> IF x[2] \in 1..b THEN x[1] \o Literal(s, x[2]) ELSE <<>>]
           Is(f) == f = [n \in p..b |-> IF n = p THEN <<>> ELSE f[n-1] \o Literal(s, n)]
<1>1. \A n \in 1..b : Literal(s, n) \in S
  BY MeaningIs DEF Literal
<1>2. step \in [S \X Nat -> S]
  <2>1. ASSUME NEW x \in S \X Nat
        PROVE  (IF x[2] \in 1..b THEN x[1] \o Literal(s, x[2]) ELSE <<>>) \in S
    <3>1. x[1] \in S /\ <<>> \in S OBVIOUS
    <3>2. CASE x[2] \in 1..b
      <4>1. Literal(s, x[2]) \in S BY <1>1, <3>2
      <4>2. x[1] \o Literal(s, x[2]) \in S BY <3>1, <4>1
      <4> QED BY <3>2, <4>2
    <3>3. CASE x[2] \notin 1..b BY <3>1, <3>3
    <3> QED BY <3>2, <3>3
  <2> QED BY <2>1
<1>3. p \in Nat /\ b \in Nat /\ p <= b /\ <<>> \in S OBVIOUS
<1>4. \E f \in [p..b -> S] : Recursive(f, p, b, <<>>, step)
  <2> HIDE DEF step, b, p, S
  <2> QED BY <1>2, <1>3, RecursionExists
<1>5. PICK f \in [p..b -> S] : Recursive(f, p, b, <<>>, step) BY <1>4
<1>6. \A n \in p..b : n # p => step[<<f[n - 1], n>>] = f[n - 1] \o Literal(s, n)
  <2> SUFFICES ASSUME NEW n \in p..b, n # p
               PROVE  step[<<f[n - 1], n>>] = f[n - 1] \o Literal(s, n)
    OBVIOUS
  <2>1. n - 1 \in p..b /\ n \in 1..b /\ n \in Nat OBVIOUS
  <2>2. f[n - 1] \in S BY <1>5, <2>1
  <2>3. <<f[n - 1], n>> \in S \X Nat BY <2>1, <2>2
  <2> QED BY <2>1, <2>3
<1>7. Is(f)
  <2> HIDE DEF step
  <2> QED BY <1>5, <1>6 DEF Recursive
<1>8. Written(s, a) = CHOOSE g : Is(g) BY DEF Written
<1>9. Is(Written(s, a))
  <2> HIDE DEF Is
  <2> QED BY <1>7, <1>8
<1>10. PICK w : w = Written(s, a) OBVIOUS
<1>11. Is(w) BY <1>9, <1>10
<1>12. w[p] = <<>> BY <1>3, <1>11
<1>13. \A n \in a..b : n \in p..b /\ n # p BY <1>3
<1>14. \A n \in a..b : w[n] = w[n - 1] \o Literal(s, n) BY <1>11, <1>13
<1> QED BY <1>10, <1>12, <1>14

(* The tokens that begin up to a position, from those before it. *)
Begins(s, n) == IsOp(s, n) \/ StartsWord(s, n)

LEMMA TokensToIs ==
  ASSUME NEW s \in Seq(Alphabet)
  PROVE  /\ TokensTo(s)[0] = <<>>
         /\ \A n \in 1..Len(s) :
              TokensTo(s)[n] = IF Begins(s, n) THEN Append(TokensTo(s)[n - 1], TokenAt(s, n))
                               ELSE TokensTo(s)[n - 1]
         /\ \A n \in 0..Len(s) :
              TokensTo(s)[n] \in Seq({TokenAt(s, k) : k \in 1..Len(s)})
<1> DEFINE T == {TokenAt(s, k) : k \in 1..Len(s)}
           S == Seq(T)
           b == Len(s)
           step == [x \in S \X Nat |->
                      IF x[2] \in 1..b /\ Begins(s, x[2])
                        THEN Append(x[1], TokenAt(s, x[2])) ELSE x[1]]
           Is(f) == f = [n \in 0..b |-> IF n = 0 THEN <<>>
                           ELSE IF IsOp(s, n) \/ StartsWord(s, n)
                                  THEN Append(f[n-1], TokenAt(s, n))
                           ELSE f[n-1]]
<1>1. step \in [S \X Nat -> S]
  <2>1. ASSUME NEW x \in S \X Nat
        PROVE  (IF x[2] \in 1..b /\ Begins(s, x[2])
                  THEN Append(x[1], TokenAt(s, x[2])) ELSE x[1]) \in S
    <3>1. x[1] \in S OBVIOUS
    <3>2. x[2] \in 1..b => TokenAt(s, x[2]) \in T OBVIOUS
    <3> HIDE DEF T
    <3> QED BY <3>1, <3>2
  <2> QED BY <2>1
<1>2. b \in Nat /\ 0 <= b /\ 0 \in Nat OBVIOUS
<1>3. <<>> \in S
  <2> HIDE DEF T
  <2> QED OBVIOUS
<1>4. \E f \in [0..b -> S] : Recursive(f, 0, b, <<>>, step)
  <2> HIDE DEF step, b, S
  <2> QED BY <1>1, <1>2, <1>3, RecursionExists
<1>5. PICK f \in [0..b -> S] : Recursive(f, 0, b, <<>>, step) BY <1>4
<1>6. \A n \in 0..b : n # 0 =>
        step[<<f[n - 1], n>>] = IF Begins(s, n) THEN Append(f[n - 1], TokenAt(s, n))
                                ELSE f[n - 1]
  <2> SUFFICES ASSUME NEW n \in 0..b, n # 0
               PROVE  step[<<f[n - 1], n>>] =
                        IF Begins(s, n) THEN Append(f[n - 1], TokenAt(s, n)) ELSE f[n - 1]
    OBVIOUS
  <2>1. n - 1 \in 0..b /\ n \in 1..b /\ n \in Nat OBVIOUS
  <2> HIDE DEF S
  <2>2. f[n - 1] \in S BY <1>5, <2>1
  <2>3. <<f[n - 1], n>> \in S \X Nat BY <2>1, <2>2
  <2> QED BY <2>1, <2>3
<1>7. Is(f)
  <2> HIDE DEF step, S
  <2> QED BY <1>5, <1>6 DEF Recursive, Begins
<1>8. TokensTo(s) = CHOOSE g : Is(g) BY DEF TokensTo
<1>9. Is(TokensTo(s))
  <2> HIDE DEF Is
  <2> QED BY <1>7, <1>8
<1>10. PICK w : w = TokensTo(s) OBVIOUS
<1>11. Is(w) BY <1>9, <1>10
<1>12. w[0] = <<>> BY <1>2, <1>11
<1>13. ASSUME NEW n \in 1..b
       PROVE  w[n] = IF Begins(s, n) THEN Append(w[n - 1], TokenAt(s, n)) ELSE w[n - 1]
  <2>1. n \in 0..b /\ n # 0 OBVIOUS
  <2> HIDE DEF b
  <2> QED BY <1>11, <2>1 DEF Begins
<1> DEFINE G == {n \in 0..b : w[n] \in S}
<1>14. ASSUME NEW n \in 0..b, n = 0 \/ n - 1 \in G PROVE n \in G
  <2>1. CASE n = 0 BY <1>3, <1>12, <2>1
  <2>2. CASE n # 0
    <3>1. n \in 1..b /\ TokenAt(s, n) \in T BY <2>2
    <3>2. w[n - 1] \in S BY <1>14, <2>2
    <3>3. w[n] = Append(w[n - 1], TokenAt(s, n)) \/ w[n] = w[n - 1] BY <1>13, <3>1
    <3> HIDE DEF T, b
    <3>4. Append(w[n - 1], TokenAt(s, n)) \in S BY <3>1, <3>2, AppendProperties
    <3>5. w[n] \in S BY <3>2, <3>3, <3>4
    <3> QED BY <3>5
  <2> QED BY <2>1, <2>2
<1>15. 0..b \subseteq G
  <2> HIDE DEF G
  <2> QED BY <1>2, <1>14, FromBelow
<1>16. \A n \in 0..b : w[n] \in S BY <1>15
<1> QED BY <1>10, <1>12, <1>13, <1>16

-----------------------------------------------------------------------------
(* tokenize against the reference.  Between its turns the loop has found   *)
(* the tokens that begin before its position, or all of them but the last, *)
(* the word it is in, of which buf holds what the characters so far mean.  *)
FoundBefore(s, t, j) ==
  /\ t = TokensTo(s)[j]
  /\ j = 0 \/ ~InWord(s, j)

Within(s, t, p, j, b) ==
  /\ StartsWord(s, p)
  /\ \A k \in p..j : InWord(s, k)
  /\ b = Written(s, p)[j]
  /\ t = TokensTo(s)[p - 1]
  /\ TokensTo(s)[j] = Append(t, TokenAt(s, p))

WithinSome(s, t, j, b) == \E p \in 1..j : Within(s, t, p, j, b)

Mode == Modes(line)[i + 1]

ModeKnown ==
  /\ st \in {"S_OUT", "S_WORD"}
       => Mode = "none" \/ (i = Len(line) /\ Mode = "escaped")
  /\ st = "S_SQ" => Mode = "sq"
  /\ st = "S_DQ" => Mode = "dq" \/ (i = Len(line) /\ Mode = "dq-escaped")

(* A backslash that ends the line ends the word before it. *)
Collected ==
  IF st = "S_OUT" THEN FoundBefore(line, tokens, i) /\ buf = <<>>
  ELSE \/ WithinSome(line, tokens, i, buf)
       \/ /\ i = Len(line) /\ i # 0 /\ ~InWord(line, i) /\ ~IsOp(line, i)
          /\ WithinSome(line, tokens, i - 1, buf)

Collecting ==
  /\ st \in {"S_OUT", "S_WORD", "S_SQ", "S_DQ"}
  /\ result \in {"", "ok", "error"}
  /\ ModeKnown
  /\ result = "" => Collected

LEMMA CharIs ==
  ASSUME LineInv
  PROVE  /\ line \in Seq(Alphabet) /\ i \in Nat /\ i <= Len(line) /\ Len(line) \in Nat
         /\ c # NUL <=> i < Len(line)
         /\ i < Len(line) => c = line[i + 1] /\ c \in Alphabet
         /\ At(i + 1) # NUL <=> i + 1 < Len(line)
         /\ i + 1 < Len(line) => At(i + 1) = line[i + 2] /\ At(i + 1) \in Alphabet
<1>1. /\ line \in Seq(Alphabet \ {NUL}) /\ i \in Nat /\ i <= Len(line)
      /\ Len(line) \in Nat
  BY DEF LineInv, InLine
<1>2. \A n \in 1..Len(line) : line[n] \in Alphabet /\ line[n] # NUL BY <1>1
<1>3. line \in Seq(Alphabet)
  <2>1. Seq(Alphabet \ {NUL}) \subseteq Seq(Alphabet) BY <1>1
  <2> QED BY <1>1, <2>1
<1>4. c # NUL <=> i < Len(line) BY <1>1, <1>2 DEF c, At
<1>5. i < Len(line) => c = line[i + 1] /\ c \in Alphabet BY <1>1, <1>2 DEF c, At
<1>6. At(i + 1) # NUL <=> i + 1 < Len(line)
  BY <1>1, <1>2 DEF At
<1>7. i + 1 < Len(line) => At(i + 1) = line[i + 2] /\ At(i + 1) \in Alphabet
  BY <1>1, <1>2 DEF At
<1> QED BY <1>1, <1>3, <1>4, <1>5, <1>6, <1>7

(* What a character is, from its quoting. *)
LEMMA Kinds ==
  ASSUME NEW s, NEW n
  PROVE  /\ Modes(s)[n] # "none" => InWord(s, n) /\ ~IsOp(s, n)
         /\ Modes(s)[n] = "none" /\ s[n] \in Ops => IsOp(s, n) /\ ~InWord(s, n)
         /\ Modes(s)[n] = "none" /\ s[n] \in Space => ~IsOp(s, n) /\ ~InWord(s, n)
         /\ Modes(s)[n] = "none" /\ s[n] = BS /\ n = Len(s) => ~IsOp(s, n) /\ ~InWord(s, n)
         /\ Modes(s)[n] = "none" /\ s[n] = BS /\ n # Len(s) => InWord(s, n)
         /\ Modes(s)[n] = "none" /\ s[n] \notin Ops \union Space \union {BS} => InWord(s, n)
BY DEF IsOp, IsSpace, Dangling, InWord, Ops, Space, BS, LF, TAB

(* A character that belongs to a word is the first of one, or goes on with *)
(* the one being collected.                                                *)
LEMMA Grows ==
  ASSUME NEW s \in Seq(Alphabet), NEW t, NEW j \in 0..Len(s), j < Len(s), NEW b,
         (FoundBefore(s, t, j) /\ b = <<>>) \/ WithinSome(s, t, j, b),
         InWord(s, j + 1)
  PROVE  WithinSome(s, t, j + 1, b \o Literal(s, j + 1))
<1>1. j + 1 \in 1..Len(s) /\ (j + 1) - 1 = j OBVIOUS
<1>2. TokensTo(s)[j + 1] =
        IF Begins(s, j + 1) THEN Append(TokensTo(s)[j], TokenAt(s, j + 1)) ELSE TokensTo(s)[j]
  BY <1>1, TokensToIs
<1>3. ~IsOp(s, j + 1) BY DEF InWord
<1>4. CASE FoundBefore(s, t, j) /\ b = <<>>
  <2>1. StartsWord(s, j + 1) BY <1>1, <1>4 DEF FoundBefore, StartsWord
  <2>2. TokensTo(s)[j + 1] = Append(t, TokenAt(s, j + 1))
    BY <1>2, <1>4, <2>1 DEF Begins, FoundBefore
  <2>3. Written(s, j + 1)[j + 1] = b \o Literal(s, j + 1)
    <3>1. PICK a \in 1..Len(s) : a = j + 1 BY <1>1
    <3>2. a \in a..Len(s) BY <3>1
    <3>3. Written(s, a)[a - 1] = <<>> /\ Written(s, a)[a] = Written(s, a)[a - 1] \o Literal(s, a)
      BY <3>2, WrittenIs
    <3>4. Written(s, a)[a] = b \o Literal(s, a) BY <1>4, <3>3
    <3> QED BY <3>1, <3>4
  <2>4. \A k \in j+1..j+1 : InWord(s, k) BY <1>1
  <2>5. Within(s, t, j + 1, j + 1, b \o Literal(s, j + 1))
    BY <1>1, <1>4, <2>1, <2>2, <2>3, <2>4 DEF Within, FoundBefore
  <2> QED BY <1>1, <2>5 DEF WithinSome
<1>5. CASE WithinSome(s, t, j, b)
  <2>1. PICK p \in 1..j : Within(s, t, p, j, b) BY <1>5 DEF WithinSome
  <2>2. p \in 1..Len(s) /\ j + 1 \in p..Len(s) /\ j \in p..j /\ p \in 1..j+1 BY <1>1
  <2>3. InWord(s, j) BY <2>1, <2>2 DEF Within
  <2>4. ~StartsWord(s, j + 1) BY <1>1, <2>2, <2>3 DEF StartsWord
  <2>5. TokensTo(s)[j + 1] = TokensTo(s)[j] BY <1>2, <1>3, <2>4 DEF Begins
  <2>6. Written(s, p)[j + 1] = Written(s, p)[j] \o Literal(s, j + 1)
    BY <1>1, <2>2, WrittenIs
  <2>7. \A k \in p..j+1 : k \in p..j \/ k = j + 1 OBVIOUS
  <2>8. Within(s, t, p, j + 1, b \o Literal(s, j + 1))
    BY <2>1, <2>5, <2>6, <2>7 DEF Within
  <2> QED BY <2>2, <2>8 DEF WithinSome
<1> QED BY <1>4, <1>5

(* A word is over where the next character belongs to none. *)
LEMMA WordOver ==
  ASSUME NEW s \in Seq(Alphabet), NEW t, NEW j \in 0..Len(s), NEW b,
         WithinSome(s, t, j, b), j = Len(s) \/ ~InWord(s, j + 1)
  PROVE  TokensTo(s)[j] = Append(t, [op |-> FALSE, text |-> b])
<1>1. PICK p \in 1..j : Within(s, t, p, j, b) BY DEF WithinSome
<1>2. p \in 1..Len(s) /\ j \in p..Len(s) /\ p \in p..j OBVIOUS
<1>3. ~IsOp(s, p) BY <1>1, <1>2 DEF Within, InWord
<1>4. LastOf(s, p) = j
  <2> DEFINE Last(m) == /\ \A k \in p..m : InWord(s, k)
                        /\ m = Len(s) \/ ~InWord(s, m + 1)
  <2>1. Last(j) BY <1>1 DEF Within
  <2>2. ASSUME NEW m \in p..Len(s), Last(m) PROVE m = j
    <3>1. CASE m < j
      <4>1. m + 1 \in p..j /\ m # Len(s) BY <3>1
      <4> QED BY <1>1, <2>2, <4>1 DEF Within
    <3>2. CASE m > j
      <4>1. j + 1 \in p..m /\ j # Len(s) BY <3>2
      <4> QED BY <2>2, <4>1
    <3> QED BY <3>1, <3>2
  <2>3. LastOf(s, p) = CHOOSE m \in p..Len(s) : Last(m) BY DEF LastOf
  <2> HIDE DEF Last
  <2> QED BY <1>2, <2>1, <2>2, <2>3
<1>5. TokenAt(s, p) = [op |-> FALSE, text |-> b]
  BY <1>1, <1>3, <1>4 DEF TokenAt, WordAt, Within
<1>6. TokensTo(s)[j] = Append(t, TokenAt(s, p)) BY <1>1 DEF Within
<1> QED BY <1>5, <1>6, Zenon

(* A character at which no token begins adds none. *)
LEMMA Passes ==
  ASSUME NEW s \in Seq(Alphabet), NEW j \in 1..Len(s), ~InWord(s, j), ~IsOp(s, j)
  PROVE  TokensTo(s)[j] = TokensTo(s)[j - 1]
BY TokensToIs DEF Begins, StartsWord

(* An operator is a token by itself. *)
LEMMA OperatorAdds ==
  ASSUME NEW s \in Seq(Alphabet), NEW j \in 1..Len(s), IsOp(s, j)
  PROVE  TokensTo(s)[j] = Append(TokensTo(s)[j - 1], [op |-> TRUE, text |-> <<s[j]>>])
BY TokensToIs DEF Begins, TokenAt

(* The tokens found are a sequence, whatever they are. *)
LEMMA TokensAreSeq ==
  ASSUME NEW s \in Seq(Alphabet), NEW t, NEW j \in 0..Len(s), NEW b,
         FoundBefore(s, t, j) \/ WithinSome(s, t, j, b)
  PROVE  \E T : t \in Seq(T)
<1>1. \A n \in 0..Len(s) : \E T : TokensTo(s)[n] \in Seq(T) BY TokensToIs
<1>2. CASE FoundBefore(s, t, j) BY <1>1, <1>2 DEF FoundBefore
<1>3. CASE WithinSome(s, t, j, b)
  <2>1. PICK p \in 1..j : t = TokensTo(s)[p - 1] BY <1>3 DEF WithinSome, Within
  <2>2. p - 1 \in 0..Len(s) OBVIOUS
  <2> QED BY <1>1, <2>1, <2>2
<1> QED BY <1>2, <1>3

LEMMA AppendOne ==
  ASSUME NEW T, NEW t \in Seq(T), NEW x, NEW y
  PROVE  t \o <<x>> = Append(t, x) /\ t \o <<x, y>> = Append(Append(t, x), y)
<1>1. PICK U : U = T \union {x, y} OBVIOUS
<1>2. t \in Seq(U) /\ x \in U /\ y \in U BY <1>1
<1> QED BY <1>2

(* The loop, at a character of the line. *)
Running == LineInv /\ Collecting /\ result = "" /\ i < Len(line)

LEMMA RunningIs ==
  ASSUME Running
  PROVE  /\ line \in Seq(Alphabet) /\ i \in 0..Len(line) /\ i + 1 \in 1..Len(line)
         /\ (i + 1) - 1 = i /\ i \in Nat /\ Len(line) \in Nat
         /\ c = line[i + 1] /\ c # NUL /\ c \in Alphabet
         /\ (FoundBefore(line, tokens, i) /\ buf = <<>>) \/ WithinSome(line, tokens, i, buf)
         /\ st = "S_OUT" => FoundBefore(line, tokens, i) /\ buf = <<>>
         /\ st # "S_OUT" => WithinSome(line, tokens, i, buf)
         /\ st \in {"S_OUT", "S_WORD"} => Mode = "none"
         /\ st = "S_SQ" => Mode = "sq"
         /\ st = "S_DQ" => Mode = "dq"
         /\ Modes(line)[i + 2] = Then(Mode, c)
         /\ Literal(line, i + 1) = Meaning(Mode, c)
         /\ Append(tokens, Word) = tokens \o <<Word>>
         /\ Append(tokens, Operator) = tokens \o <<Operator>>
         /\ Append(Append(tokens, Word), Operator) = tokens \o <<Word, Operator>>
         /\ buf \in Seq(Alphabet) /\ buf \o <<>> = buf
         /\ \A ch \in Alphabet : Append(buf, ch) = buf \o <<ch>>
<1>1. LineInv /\ Collecting /\ result = "" /\ i < Len(line) BY DEF Running
<1>2. /\ line \in Seq(Alphabet) /\ i \in Nat /\ i < Len(line) /\ Len(line) \in Nat
      /\ c = line[i + 1] /\ c # NUL /\ c \in Alphabet
  BY <1>1, CharIs
<1>3. i \in 0..Len(line) /\ i + 1 \in 1..Len(line) /\ (i + 1) - 1 = i BY <1>2
<1>4. Collected /\ ModeKnown BY <1>1 DEF Collecting
<1>5. /\ st = "S_OUT" => FoundBefore(line, tokens, i) /\ buf = <<>>
      /\ st # "S_OUT" => WithinSome(line, tokens, i, buf)
  BY <1>2, <1>4 DEF Collected
<1>6. /\ st \in {"S_OUT", "S_WORD"} => Mode = "none"
      /\ st = "S_SQ" => Mode = "sq"
      /\ st = "S_DQ" => Mode = "dq"
  BY <1>2, <1>4 DEF ModeKnown
<1>7. Modes(line)[i + 2] = Then(Mode, c)
  <2>1. PICK n \in 1..Len(line) : n = i + 1 BY <1>3
  <2>2. Modes(line)[n + 1] = Then(Modes(line)[n], line[n]) BY <1>2, ModesAre
  <2>3. n + 1 = i + 2 BY <1>2, <2>1
  <2> QED BY <1>2, <2>1, <2>2, <2>3 DEF Mode
<1>8. Literal(line, i + 1) = Meaning(Mode, c) BY <1>2 DEF Literal, Mode
<1>9. \E T : tokens \in Seq(T) BY <1>2, <1>3, <1>5, TokensAreSeq
<1>10. /\ Append(tokens, Word) = tokens \o <<Word>>
       /\ Append(tokens, Operator) = tokens \o <<Operator>>
       /\ Append(Append(tokens, Word), Operator) = tokens \o <<Word, Operator>>
  <2>1. PICK T : tokens \in Seq(T) BY <1>9
  <2>2. PICK w, o : w = Word /\ o = Operator OBVIOUS
  <2>3. \A x, y : tokens \o <<x>> = Append(tokens, x)
                 /\ tokens \o <<x, y>> = Append(Append(tokens, x), y)
    BY <2>1, AppendOne
  <2>4. /\ Append(tokens, w) = tokens \o <<w>>
        /\ Append(tokens, o) = tokens \o <<o>>
        /\ Append(Append(tokens, w), o) = tokens \o <<w, o>>
    BY <2>3
  <2> QED BY <2>2, <2>4
<1>11. buf \in Seq(Alphabet) BY <1>1 DEF LineInv
<1>12. buf \o <<>> = buf /\ \A ch \in Alphabet : Append(buf, ch) = buf \o <<ch>>
  BY <1>11
<1> QED BY <1>2, <1>3, <1>5, <1>6, <1>7, <1>8, <1>10, <1>11, <1>12

(* A turn over one character of a word. *)
LEMMA WordGoesOn ==
  ASSUME Running, InWord(line, i + 1), NEW s, s # "S_OUT", Go(s, 1), NoToken,
         buf' = buf \o Literal(line, i + 1)
  PROVE  Collected'
<1>1. /\ line \in Seq(Alphabet) /\ i \in 0..Len(line) /\ i < Len(line)
      /\ (FoundBefore(line, tokens, i) /\ buf = <<>>) \/ WithinSome(line, tokens, i, buf)
  BY RunningIs DEF Running
<1>2. WithinSome(line, tokens, i + 1, buf') BY <1>1, Grows
<1>3. line' = line /\ i' = i + 1 /\ st' = s /\ tokens' = tokens BY DEF Go, NoToken
<1> QED BY <1>2, <1>3 DEF Collected

(* A turn over two, the first of which stands for nothing. *)
LEMMA WordGoesOnTwo ==
  ASSUME Running, InWord(line, i + 1), Literal(line, i + 1) = <<>>,
         i + 1 < Len(line), InWord(line, i + 2),
         NEW s, s # "S_OUT", Go(s, 2), NoToken,
         buf' = buf \o Literal(line, i + 2)
  PROVE  Collected'
<1>1. /\ line \in Seq(Alphabet) /\ i \in 0..Len(line) /\ i < Len(line)
      /\ (FoundBefore(line, tokens, i) /\ buf = <<>>) \/ WithinSome(line, tokens, i, buf)
      /\ buf \o <<>> = buf
  BY RunningIs DEF Running
<1>2. WithinSome(line, tokens, i + 1, buf) BY <1>1, Grows
<1>3. PICK j \in 0..Len(line) : j = i + 1 BY <1>1
<1>4. j < Len(line) /\ j + 1 = i + 2 BY <1>1, <1>3
<1>5. WithinSome(line, tokens, j, buf) BY <1>2, <1>3
<1>6. InWord(line, j + 1) BY <1>4
<1>7. WithinSome(line, tokens, j + 1, buf \o Literal(line, j + 1))
  BY <1>1, <1>4, <1>5, <1>6, Grows
<1>8. line' = line /\ i' = i + 2 /\ st' = s /\ tokens' = tokens BY DEF Go, NoToken
<1> QED BY <1>4, <1>7, <1>8 DEF Collected

(* A turn after which the loop is outside of any word. *)
LEMMA Outside ==
  ASSUME Running, ~InWord(line, i + 1), Go("S_OUT", 1), buf' = <<>>,
         tokens' = TokensTo(line)[i + 1]
  PROVE  Collected'
BY RunningIs DEF Go, Collected, FoundBefore

(* A turn that ends the word. *)
LEMMA WordDone ==
  ASSUME Running, st = "S_WORD", ~InWord(line, i + 1)
  PROVE  TokensTo(line)[i] = Append(tokens, Word)
<1>1. /\ line \in Seq(Alphabet) /\ i \in 0..Len(line)
      /\ WithinSome(line, tokens, i, buf)
  BY RunningIs
<1>2. TokensTo(line)[i] = Append(tokens, [op |-> FALSE, text |-> buf]) BY <1>1, WordOver
<1> QED BY <1>2 DEF Word

LEMMA CollectingNext ==
  ASSUME LineInv, Collecting, Loop
  PROVE  Collecting'
<1> USE DEF Turn
<1>0. result = "" /\ line \in Seq(Alphabet) /\ ModeKnown /\ Collected
  <2>1. result = ""
    BY DEF Loop, OutEnd, OutSpace, OutOperator, Quote, Escape, EscapeEnd, PlainChar,
           WordSpace, WordEnd, WordOperator, Unmatched, QuoteClose, SingleChar,
           DoubleChar, DoubleEscape
  <2> QED BY <2>1, CharIs DEF Collecting
<1>r. c # NUL => Running BY <1>0, CharIs DEF Running
<1>e. c # NUL /\ At(i + 1) = NUL => i + 1 = Len(line) BY CharIs
<1>m. ASSUME NEW s, Go(s, 1), Running,
             s \in {"S_OUT", "S_WORD"}
               => Then(Mode, c) = "none" \/ (i + 1 = Len(line) /\ Then(Mode, c) = "escaped"),
             s = "S_SQ" => Then(Mode, c) = "sq",
             s = "S_DQ" => Then(Mode, c) = "dq" \/ (i + 1 = Len(line) /\ Then(Mode, c) = "dq-escaped"),
             s \in {"S_OUT", "S_WORD", "S_SQ", "S_DQ"}, Collected'
      PROVE  Collecting'
  <2>1. line' = line /\ i' = i + 1 /\ st' = s /\ result' = result BY <1>m DEF Go
  <2>2. Mode' = Then(Mode, c)
    <3>1. i' + 1 = i + 2 BY <2>1, <1>m, RunningIs
    <3> QED BY <2>1, <3>1, <1>m, RunningIs DEF Mode
  <2>3. ModeKnown' BY <1>m, <2>1, <2>2 DEF ModeKnown
  <2> QED BY <1>0, <1>m, <2>1, <2>3 DEF Collecting
<1>o. ASSUME NEW s \in {"S_OUT", "S_WORD"}, Go(s, 1), Running, Then(Mode, c) = "none",
             Collected'
      PROVE  Collecting'
  <2>1. s # "S_SQ" /\ s # "S_DQ" OBVIOUS
  <2> QED BY <1>o, <2>1, <1>m
<1>s. ASSUME NEW r \in {"ok", "error"}, Stop(r) PROVE Collecting'
  <2>1. line' = line /\ i' = i /\ st' = st /\ result' = r BY <1>s DEF Stop
  <2>2. Mode' = Mode BY <2>1 DEF Mode
  <2>3. ModeKnown' BY <1>0, <2>1, <2>2 DEF ModeKnown
  <2> QED BY <2>1, <2>3 DEF Collecting
<1>k. /\ c \in Space => c \notin {BS, SQ, DQ, NUL}
      /\ c \in Ops => c \notin {BS, SQ, DQ, NUL}
      /\ c \in {SQ, DQ} => c \notin Space \union Ops \union {BS, NUL}
      /\ c = SQ => c # DQ
      /\ c = BS => c \notin Space \union Ops \union {SQ, DQ, NUL}
  BY DEF Space, Ops, BS, SQ, DQ, NUL, LF, TAB
<1>l. Running => line[i + 1] = c /\ Modes(line)[i + 1] = Mode
  BY RunningIs DEF Mode
<1>1. CASE OutEnd BY <1>1, <1>s DEF OutEnd
<1>2. CASE OutSpace
  <2>1. Running /\ Mode = "none" /\ st = "S_OUT" /\ Go("S_OUT", 1)
        /\ buf' = buf /\ tokens' = tokens /\ c \in Space
    BY <1>2, <1>r, <1>k, RunningIs DEF OutSpace, Keep, NoToken
  <2>2. ~IsOp(line, i + 1) /\ ~InWord(line, i + 1) BY <2>1, <1>l, Kinds
  <2>3. TokensTo(line)[i + 1] = TokensTo(line)[i] BY <2>1, <2>2, RunningIs, Passes
  <2>4. buf' = <<>> /\ tokens' = TokensTo(line)[i + 1]
    BY <2>1, <2>3, RunningIs DEF FoundBefore
  <2>5. Collected' BY <2>1, <2>2, <2>4, Outside
  <2>6. Then(Mode, c) = "none" BY <2>1, <1>k DEF Then
  <2> QED BY <2>1, <2>5, <2>6, <1>o
<1>3. CASE OutOperator
  <2>1. Running /\ Mode = "none" /\ st = "S_OUT" /\ Go("S_OUT", 1)
        /\ buf' = buf /\ tokens' = tokens \o <<Operator>> /\ c \in Ops
    BY <1>3, <1>r, <1>k, RunningIs DEF OutOperator, Keep, Found
  <2>2. IsOp(line, i + 1) /\ ~InWord(line, i + 1) BY <2>1, <1>l, Kinds
  <2>3. TokensTo(line)[i + 1] = Append(TokensTo(line)[i], [op |-> TRUE, text |-> <<c>>])
    BY <2>1, <2>2, <1>l, RunningIs, OperatorAdds
  <2>4. buf' = <<>> /\ tokens' = TokensTo(line)[i + 1]
    BY <2>1, <2>3, RunningIs DEF FoundBefore, Operator
  <2>5. Collected' BY <2>1, <2>2, <2>4, Outside
  <2>6. Then(Mode, c) = "none" BY <2>1, <1>k DEF Then
  <2> QED BY <2>1, <2>5, <2>6, <1>o
<1>4. ASSUME NEW s \in {"S_OUT", "S_WORD"}, Quote(s) PROVE Collecting'
  <2> DEFINE q == IF c = SQ THEN "S_SQ" ELSE "S_DQ"
  <2>1. Running /\ Mode = "none" /\ Go(q, 1) /\ NoToken
        /\ buf' = buf /\ c \in {SQ, DQ} /\ q # "S_OUT"
    BY <1>4, <1>r, <1>k, RunningIs DEF Quote, Keep
  <2>2. InWord(line, i + 1) BY <2>1, <1>k, <1>l, Kinds
  <2>3. Literal(line, i + 1) = <<>> BY <2>1, <1>k, RunningIs DEF Meaning
  <2>4. Collected' BY <2>1, <2>2, <2>3, RunningIs, WordGoesOn
  <2>5. /\ c = SQ => Then(Mode, c) = "sq"
        /\ c = DQ => Then(Mode, c) = "dq"
    BY <2>1, <1>k DEF Then
  <2> QED BY <2>1, <2>4, <2>5, <1>k, <1>m
<1>7. ASSUME NEW s \in {"S_OUT", "S_WORD"}, PlainChar(s) PROVE Collecting'
  <2>1. Running /\ Mode = "none" /\ Go("S_WORD", 1) /\ NoToken
        /\ buf' = Append(buf, c) /\ c \notin Space \union Ops \union {BS, SQ, DQ, NUL}
    BY <1>7, <1>r, RunningIs DEF PlainChar, Plain, Push
  <2>2. InWord(line, i + 1) BY <2>1, <1>l, Kinds
  <2>3. Literal(line, i + 1) = <<c>> BY <2>1, RunningIs DEF Meaning
  <2>4. Collected' BY <2>1, <2>2, <2>3, RunningIs, WordGoesOn
  <2>5. Then(Mode, c) = "none" BY <2>1 DEF Then
  <2> QED BY <2>1, <2>4, <2>5, <1>o
<1>5. ASSUME NEW s \in {"S_OUT", "S_WORD"}, Escape(s) PROVE Collecting'
  <2>1. Running /\ Mode = "none" /\ Go("S_WORD", 2) /\ NoToken /\ c = BS
        /\ buf' = Append(buf, At(i + 1)) /\ At(i + 1) # NUL
    BY <1>5, <1>r, <1>k, RunningIs DEF Escape, Push
  <2>2. i + 1 < Len(line) /\ At(i + 1) = line[i + 2] /\ At(i + 1) \in Alphabet
    BY <2>1, CharIs
  <2>3. InWord(line, i + 1) BY <2>1, <2>2, <1>l, RunningIs, Kinds
  <2>4. Literal(line, i + 1) = <<>> BY <2>1, RunningIs DEF Meaning
  <2>5. Modes(line)[i + 2] = "escaped" BY <2>1, <1>k, RunningIs DEF Then
  <2>6. InWord(line, i + 2) BY <2>5, Kinds
  <2>7. Literal(line, i + 2) = <<At(i + 1)>> BY <2>2, <2>5 DEF Literal, Meaning
  <2>8. buf' = buf \o Literal(line, i + 2) BY <2>1, <2>2, <2>7, RunningIs
  <2>9. Collected' BY <2>1, <2>2, <2>3, <2>4, <2>6, <2>8, WordGoesOnTwo
  <2>10. Mode' = "none"
    <3>1. PICK n \in 1..Len(line) : n = i + 2 BY <2>1, <2>2, RunningIs
    <3>2. Modes(line)[n + 1] = Then(Modes(line)[n], line[n]) BY <1>0, ModesAre
    <3>3. line' = line /\ i' + 1 = n + 1 BY <2>1, <3>1, RunningIs DEF Go
    <3> QED BY <2>5, <3>1, <3>2, <3>3 DEF Mode, Then
  <2> QED BY <1>0, <2>1, <2>9, <2>10 DEF Collecting, ModeKnown, Go
<1>6. ASSUME NEW s \in {"S_OUT", "S_WORD"}, EscapeEnd(s) PROVE Collecting'
  <2>1. Running /\ Mode = "none" /\ Go(s, 1) /\ tokens' = tokens /\ c = BS /\ st = s
        /\ buf' = buf /\ i + 1 = Len(line)
    BY <1>6, <1>e, <1>r, <1>k, RunningIs DEF EscapeEnd, Keep, NoToken
  <2>2. ~IsOp(line, i + 1) /\ ~InWord(line, i + 1) BY <2>1, <1>l, Kinds
  <2>3. TokensTo(line)[i + 1] = TokensTo(line)[i] BY <2>1, <2>2, RunningIs, Passes
  <2>4. Then(Mode, c) = "escaped" BY <2>1, <1>k DEF Then
  <2>5. line' = line /\ i' = i + 1 /\ st' = s /\ i' - 1 = i /\ i' # 0
    BY <2>1, RunningIs DEF Go
  <2>6. CASE s = "S_OUT"
    <3>1. buf' = <<>> /\ tokens' = TokensTo(line)[i + 1]
      BY <2>1, <2>3, <2>6, RunningIs DEF FoundBefore
    <3>2. Collected' BY <2>1, <2>2, <2>6, <3>1, Outside
    <3> QED BY <2>1, <2>4, <3>2, <1>m
  <2>7. CASE s # "S_OUT"
    <3>1. WithinSome(line, tokens, i, buf) BY <2>1, <2>7, RunningIs
    <3>2. Collected' BY <2>1, <2>2, <2>5, <2>7, <3>1 DEF Collected
    <3> QED BY <2>1, <2>4, <3>2, <1>m
  <2> QED BY <2>6, <2>7
<1>8. CASE WordSpace
  <2>1. Running /\ Mode = "none" /\ st = "S_WORD" /\ Go("S_OUT", 1)
        /\ buf' = <<>> /\ tokens' = tokens \o <<Word>> /\ c \in Space
    BY <1>8, <1>r, <1>k, RunningIs DEF WordSpace, EndWord, Found
  <2>2. ~IsOp(line, i + 1) /\ ~InWord(line, i + 1) BY <2>1, <1>l, Kinds
  <2>3. TokensTo(line)[i + 1] = TokensTo(line)[i] BY <2>1, <2>2, RunningIs, Passes
  <2>4. TokensTo(line)[i] = Append(tokens, Word) BY <2>1, <2>2, WordDone
  <2>5. tokens' = TokensTo(line)[i + 1] BY <2>1, <2>3, <2>4, RunningIs
  <2>6. Collected' BY <2>1, <2>2, <2>5, Outside
  <2>7. Then(Mode, c) = "none" BY <2>1, <1>k DEF Then
  <2> QED BY <2>1, <2>6, <2>7, <1>o
<1>9. CASE WordEnd BY <1>9, <1>s DEF WordEnd
<1>10. CASE WordOperator
  <2>1. Running /\ Mode = "none" /\ st = "S_WORD" /\ Go("S_OUT", 1)
        /\ buf' = <<>> /\ tokens' = tokens \o <<Word, Operator>> /\ c \in Ops
    BY <1>10, <1>r, <1>k, RunningIs DEF WordOperator, EndWord, Found
  <2>2. IsOp(line, i + 1) /\ ~InWord(line, i + 1) BY <2>1, <1>l, Kinds
  <2>3. TokensTo(line)[i + 1] = Append(TokensTo(line)[i], Operator)
    BY <2>1, <2>2, <1>l, RunningIs, OperatorAdds DEF Operator
  <2>4. TokensTo(line)[i] = Append(tokens, Word) BY <2>1, <2>2, WordDone
  <2>5. tokens' = TokensTo(line)[i + 1] BY <2>1, <2>3, <2>4, RunningIs
  <2>6. Collected' BY <2>1, <2>2, <2>5, Outside
  <2>7. Then(Mode, c) = "none" BY <2>1, <1>k DEF Then
  <2> QED BY <2>1, <2>6, <2>7, <1>o
<1>11. CASE Unmatched BY <1>11, <1>s DEF Unmatched
<1>12. CASE QuoteClose
  <2>1. Running /\ Go("S_WORD", 1) /\ NoToken /\ buf' = buf
        /\ ((Mode = "sq" /\ c = SQ) \/ (Mode = "dq" /\ c = DQ))
    BY <1>12, <1>r, <1>k, RunningIs DEF QuoteClose, Keep
  <2>2. InWord(line, i + 1) BY <2>1, <1>l, Kinds
  <2>3. Literal(line, i + 1) = <<>> BY <2>1, RunningIs DEF Meaning
  <2>4. Collected' BY <2>1, <2>2, <2>3, RunningIs, WordGoesOn
  <2>5. Then(Mode, c) = "none" BY <2>1 DEF Then
  <2> QED BY <2>1, <2>4, <2>5, <1>o
<1>13. CASE SingleChar
  <2>1. Running /\ Mode = "sq" /\ Go("S_SQ", 1) /\ NoToken
        /\ buf' = Append(buf, c) /\ c # SQ
    BY <1>13, <1>r, RunningIs DEF SingleChar, Push
  <2>2. InWord(line, i + 1) BY <2>1, <1>l, Kinds
  <2>3. Literal(line, i + 1) = <<c>> BY <2>1, RunningIs DEF Meaning
  <2>4. Collected' BY <2>1, <2>2, <2>3, RunningIs, WordGoesOn
  <2>5. Then(Mode, c) = "sq" BY <2>1 DEF Then
  <2> QED BY <2>1, <2>4, <2>5, <1>m
<1>14. CASE DoubleChar
  <2>1. Running /\ Mode = "dq" /\ Go("S_DQ", 1) /\ NoToken
        /\ buf' = Append(buf, c) /\ c \notin {DQ, BS}
    BY <1>14, <1>r, RunningIs DEF DoubleChar, Push
  <2>2. InWord(line, i + 1) BY <2>1, <1>l, Kinds
  <2>3. Literal(line, i + 1) = <<c>> BY <2>1, RunningIs DEF Meaning
  <2>4. Collected' BY <2>1, <2>2, <2>3, RunningIs, WordGoesOn
  <2>5. Then(Mode, c) = "dq" BY <2>1 DEF Then
  <2> QED BY <2>1, <2>4, <2>5, <1>m
<1>15. CASE DoubleEscape
  <2>1. Running /\ Mode = "dq" /\ c = BS /\ NoToken
    BY <1>15, <1>r, <1>k, RunningIs DEF DoubleEscape
  <2>2. InWord(line, i + 1) BY <2>1, <1>l, Kinds
  <2>3. Literal(line, i + 1) = <<>> BY <2>1, RunningIs DEF Meaning
  <2>4. Then(Mode, c) = "dq-escaped" BY <2>1 DEF Then, BS, DQ
  <2>5. CASE At(i + 1) = NUL
    <3>1. Go("S_DQ", 1) /\ buf' = buf /\ i + 1 = Len(line)
      BY <1>15, <1>e, <1>k, <2>1, <2>5 DEF DoubleEscape, Keep
    <3>2. Collected' BY <2>1, <2>2, <2>3, <3>1, RunningIs, WordGoesOn
    <3> QED BY <2>1, <2>4, <3>1, <3>2, <1>m
  <2>6. CASE At(i + 1) # NUL
    <3>1. Go("S_DQ", 2) /\ buf' = Append(buf, Unescaped(At(i + 1)))
      BY <1>15, <2>6 DEF DoubleEscape, Push
    <3>2. i + 1 < Len(line) /\ At(i + 1) = line[i + 2] /\ At(i + 1) \in Alphabet
      BY <2>6, CharIs
    <3>3. Unescaped(At(i + 1)) \in Alphabet BY <3>2, TokenizeAssumption DEF Unescaped
    <3>4. Modes(line)[i + 2] = "dq-escaped" BY <2>1, <2>4, RunningIs
    <3>5. InWord(line, i + 2) BY <3>4, Kinds
    <3>6. Literal(line, i + 2) = <<Unescaped(At(i + 1))>>
      BY <3>2, <3>4 DEF Literal, Meaning
    <3>7. buf' = buf \o Literal(line, i + 2) BY <2>1, <3>1, <3>3, <3>6, RunningIs
    <3>8. Collected' BY <2>1, <2>2, <2>3, <3>1, <3>2, <3>5, <3>7, WordGoesOnTwo
    <3>9. Mode' = "dq"
      <4>1. PICK n \in 1..Len(line) : n = i + 2 BY <2>1, <3>2, RunningIs
      <4>2. Modes(line)[n + 1] = Then(Modes(line)[n], line[n]) BY <1>0, ModesAre
      <4>3. line' = line /\ i' + 1 = n + 1 BY <2>1, <3>1, <4>1, RunningIs DEF Go
      <4> QED BY <3>4, <4>1, <4>2, <4>3 DEF Mode, Then
    <3> QED BY <1>0, <3>1, <3>8, <3>9 DEF Collecting, ModeKnown, Go
  <2> QED BY <2>5, <2>6
<1> QED BY <1>1, <1>2, <1>3, <1>4, <1>5, <1>6, <1>7, <1>8, <1>9, <1>10, <1>11,
           <1>12, <1>13, <1>14, <1>15
        DEF Loop

(* What the loop has when it stops. *)
Stopped == result # ""

LEMMA StopsRight ==
  ASSUME LineInv, Collecting, Loop, Stopped'
  PROVE  MatchesReference'
<1>n. /\ line \in Seq(Alphabet) /\ i <= Len(line) /\ i \in Nat /\ Len(line) \in Nat
      /\ c # NUL <=> i < Len(line)
  BY CharIs
<1>1. /\ line \in Seq(Alphabet) /\ i \in 0..Len(line) /\ Len(line) \in Nat
      /\ c = NUL => i = Len(line)
  BY <1>n
<1>2. OutEnd \/ WordEnd \/ Unmatched => ModeKnown /\ Collected
  BY DEF Collecting, OutEnd, WordEnd, Unmatched, Turn
<1>3. CASE OutEnd
  <2>1. /\ i = Len(line) /\ line' = line /\ tokens' = tokens /\ result' = "ok" /\ st = "S_OUT"
    BY <1>1, <1>3 DEF OutEnd, end, Stop, NoToken, Turn
  <2>2. Closed(line) BY <1>2, <1>3, <2>1 DEF ModeKnown, Mode, Closed
  <2>3. tokens = Reference(line) BY <1>2, <1>3, <2>1 DEF Collected, FoundBefore, Reference
  <2> QED BY <2>1, <2>2, <2>3 DEF MatchesReference
<1>4. CASE WordEnd
  <2>1. /\ i = Len(line) /\ line' = line /\ tokens' = tokens \o <<Word>> /\ result' = "ok"
        /\ st = "S_WORD"
    BY <1>1, <1>4 DEF WordEnd, end, Stop, Found, Turn
  <2>2. Closed(line) BY <1>2, <1>4, <2>1 DEF ModeKnown, Mode, Closed
  <2>3. TokensTo(line)[i] = Append(tokens, Word) /\ \E T : tokens \in Seq(T)
    <3>1. CASE WithinSome(line, tokens, i, buf)
      <4> QED BY <1>1, <2>1, <3>1, WordOver, TokensAreSeq DEF Word
    <3>2. CASE /\ i # 0 /\ ~InWord(line, i) /\ ~IsOp(line, i)
               /\ WithinSome(line, tokens, i - 1, buf)
      <4>1. PICK j \in 0..Len(line) : j = i - 1 /\ j + 1 = i BY <1>1, <3>2
      <4>2. WithinSome(line, tokens, j, buf) /\ ~InWord(line, j + 1) BY <3>2, <4>1
      <4>3. TokensTo(line)[j] = Append(tokens, Word) BY <1>1, <4>2, WordOver DEF Word
      <4>4. i \in 1..Len(line) BY <1>1, <3>2
      <4>5. TokensTo(line)[i] = TokensTo(line)[i - 1] BY <1>1, <3>2, <4>4, Passes
      <4>6. \E T : tokens \in Seq(T) BY <1>1, <4>2, TokensAreSeq
      <4> QED BY <4>1, <4>3, <4>5, <4>6
    <3> QED BY <1>2, <1>4, <2>1, <3>1, <3>2 DEF Collected
  <2>4. tokens \o <<Word>> = Append(tokens, Word) BY <2>3, AppendOne
  <2>5. tokens' = Reference(line) BY <2>1, <2>3, <2>4 DEF Reference
  <2> QED BY <2>1, <2>2, <2>5 DEF MatchesReference
<1>5. CASE Unmatched
  <2>1. /\ i = Len(line) /\ line' = line /\ result' = "error" /\ st \in {"S_SQ", "S_DQ"}
    BY <1>1, <1>5 DEF Unmatched, end, Stop
  <2>2. ~Closed(line) BY <1>2, <1>5, <2>1 DEF ModeKnown, Mode, Closed
  <2> QED BY <2>1, <2>2 DEF MatchesReference
<1> QED BY <1>3, <1>4, <1>5
        DEF Loop, OutSpace, OutOperator, Quote, Escape, EscapeEnd, PlainChar, WordSpace,
            WordOperator, QuoteClose, SingleChar, DoubleChar, DoubleEscape, Go, Turn,
            Stopped

TokensInv == LineInv /\ Collecting /\ MatchesReference

(* tokenize refuses exactly the lines that end inside quotes, and finds in *)
(* every other exactly the words and operators that the quoting rules give *)
(* it (parse.c), for every line over every alphabet.                       *)
THEOREM FindsTheTokens == TokenizeSpec => []MatchesReference
<1>1. ASSUME Start PROVE TokensInv
  <2>1. LineInv BY <1>1, InitLine
  <2>2. line \in Seq(Alphabet) BY <2>1, CharIs
  <2>3. i = 0 /\ st = "S_OUT" /\ buf = <<>> /\ tokens = <<>>
    BY <1>1 DEF Start
  <2>s. result = "" BY <1>1 DEF Start
  <2>4. Mode = "none"
    <3>1. i + 1 = 1 BY <2>3
    <3> QED BY <2>2, <3>1, ModesAre DEF Mode
  <2>5. FoundBefore(line, tokens, i) BY <2>2, <2>3, TokensToIs DEF FoundBefore
  <2>6. Collecting BY <2>3, <2>s, <2>4, <2>5 DEF Collecting, ModeKnown, Collected
  <2> QED BY <2>1, <2>s, <2>6 DEF TokensInv, MatchesReference
<1>2. ASSUME TokensInv, [Loop]_locals PROVE TokensInv'
  <2>1. LineInv' BY <1>2, NextLine DEF TokensInv
  <2>2. CASE Loop
    <3>1. Collecting' BY <1>2, <2>2, CollectingNext DEF TokensInv
    <3>2. MatchesReference' BY <1>2, <2>2, StopsRight DEF TokensInv, MatchesReference, Stopped
    <3> QED BY <2>1, <3>1, <3>2 DEF TokensInv
  <2>3. CASE UNCHANGED locals
    <3>1. Collecting' BY <1>2, <2>3 DEF TokensInv, locals, Collecting, ModeKnown, Mode, Collected
    <3>2. MatchesReference' BY <1>2, <2>3 DEF TokensInv, locals, MatchesReference
    <3> QED BY <2>1, <3>1, <3>2 DEF TokensInv
  <2> QED BY <1>2, <2>2, <2>3
<1>3. TokensInv => MatchesReference BY DEF TokensInv
<1> QED BY <1>1, <1>2, <1>3, PTL DEF TokenizeSpec
=============================================================================
