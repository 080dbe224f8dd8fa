----------------------------- MODULE Calculator -----------------------------
(***************************************************************************)
(* stack-calculator's calc(): infix_to_postfix, calculate_postfix_tokens   *)
(* and the frees at the end, over the tokens strtok finds in a line.       *)
(* Stacks are sequences with the top at the end.  Reading an array below   *)
(* its first element is undefined in C: the model stops there.             *)
(***************************************************************************)
EXTENDS Integers, Sequences, FiniteSets

CONSTANTS
  Words,     (* the tokens: numerals, operators, parentheses, anything     *)
  Atoi,      (* numerals, "-5" included, and their values                  *)
  Lines,     (* the lines entered: sequences of Words                      *)
  STACK_MAX, (* size of tokens[] and of both stacks                        *)
  INT_MAX    (* of a two's complement int                                  *)

Ints == -INT_MAX - 1 .. INT_MAX

Arithmetic == {"+", "-", "*", "/"}

ASSUME CalculatorAssumption ==
  /\ DOMAIN Atoi \subseteq Words \ ({"(", ")"} \union Arithmetic)
  /\ Atoi \in [DOMAIN Atoi -> Ints]
  /\ Lines \subseteq Seq(Words)
  /\ STACK_MAX \in Nat
  /\ INT_MAX \in Nat

VARIABLES
  tokens,    (* the line's tokens                                          *)
  phase,     (* "convert", "eval", "free"; then "done", or "undefined",    *)
             (* "trap" (SIGFPE), "badfree"                                 *)
  i,         (* tokens handled in this phase                               *)
  op_stack,
  output,    (* output_tokens; token_idx and out_count are its length      *)
  nums,      (* numberStack                                                *)
  result

vars == <<tokens, phase, i, op_stack, output, nums, result>>

Init ==
  /\ \E line \in Lines :
       tokens = SubSeq(line, 1, IF Len(line) < STACK_MAX THEN Len(line)
                                                         ELSE STACK_MAX)
  /\ phase = "convert" /\ i = 0
  /\ op_stack = <<>> /\ output = <<>> /\ nums = <<>>
  /\ result = 0

Mut_precedence(op) == IF op \in {"+", "-", "/"} THEN 1 ELSE IF op = "*" THEN 2 ELSE 0
precedence(op) ==
  IF op \in {"+", "-"} THEN 1 ELSE IF op \in {"*", "/"} THEN 2 ELSE 0

(* A lone "-" passes as a number without digits, of value 0. *)
is_number(t) == t \in DOMAIN Atoi \/ t = "-"
Value(t) == IF t = "-" THEN 0 ELSE Atoi[t]

top(stack)  == stack[Len(stack)]
Rest(stack) == SubSeq(stack, 1, Len(stack) - 1)

-----------------------------------------------------------------------------
(* infix_to_postfix                                                        *)

c == tokens[i + 1]
Converting == phase = "convert" /\ i < Len(tokens)

push(t) == op_stack' = Append(op_stack, t)

Mut_PopToOutput == output' = Append(output, top(op_stack)) /\ UNCHANGED op_stack
PopToOutput ==
  output' = Append(output, top(op_stack)) /\ op_stack' = Rest(op_stack)

Consume == i' = i + 1 /\ UNCHANGED <<tokens, phase, nums, result>>
StayAt  == UNCHANGED <<tokens, phase, i, nums, result>>
Undefined == phase' = "undefined"
               /\ UNCHANGED <<tokens, i, op_stack, output, nums, result>>

Number ==
  /\ Converting /\ is_number(c)
  /\ output' = Append(output, c) /\ UNCHANGED op_stack
  /\ Consume

OpenParen ==
  Converting /\ c = "(" /\ push(c) /\ UNCHANGED output /\ Consume

(* ")": pop up to the "(", which is dropped; without one, peek() goes      *)
(* below the stack.                                                        *)
CloseParen ==
  /\ Converting /\ c = ")"
  /\ \/ op_stack = <<>> /\ Undefined
     \/ op_stack # <<>> /\ top(op_stack) # "(" /\ PopToOutput /\ StayAt
     \/ /\ op_stack # <<>> /\ top(op_stack) = "("
        /\ op_stack' = Rest(op_stack) /\ UNCHANGED output
        /\ Consume

Mut_Yields == op_stack # <<>> /\ precedence(top(op_stack)) > precedence(c)
Yields == op_stack # <<>> /\ precedence(top(op_stack)) >= precedence(c)

Operator ==
  /\ Converting /\ ~is_number(c) /\ c \notin {"(", ")"}
  /\ \/ Yields /\ PopToOutput /\ StayAt
     \/ ~Yields /\ push(c) /\ UNCHANGED output /\ Consume

Mut_Flushed == Len(op_stack) <= 1
Flushed == op_stack = <<>>

Flush ==
  /\ phase = "convert" /\ i = Len(tokens)
  /\ \/ ~Flushed /\ PopToOutput /\ StayAt
     \/ Flushed /\ phase' = "eval" /\ i' = 0
          /\ UNCHANGED <<tokens, op_stack, output, nums, result>>

-----------------------------------------------------------------------------
(* calculate_postfix_tokens                                                *)

target == output[i + 1]
Evaluating == phase = "eval" /\ i < Len(output)
Target == i' = i + 1 /\ UNCHANGED <<tokens, phase, op_stack, output, result>>

PushNumber ==
  Evaluating /\ is_number(target) /\ nums' = Append(nums, Value(target)) /\ Target

Wrap(n) == ((n + INT_MAX + 1) % (2 * (INT_MAX + 1))) - (INT_MAX + 1)

(* C's division drops the fraction. *)
Abs(n) == IF n < 0 THEN -n ELSE n
Quotient(a, b) ==
  IF (a < 0) = (b < 0) THEN Abs(a) \div Abs(b) ELSE -(Abs(a) \div Abs(b))

Traps(op, a, b) == op = "/" /\ (b # 0 => Quotient(a, b) \notin Ints)

Apply(op, a, b) ==
  CASE op = "+" -> Wrap(a + b) [] op = "-" -> Wrap(a - b)
    [] op = "*" -> Wrap(a * b) [] op = "/" -> Quotient(a, b)

Compute ==
  LET s1 == nums[Len(nums) - 1]
      s2 == top(nums) IN
  /\ Evaluating /\ ~is_number(target) /\ target \in Arithmetic
  /\ \/ Len(nums) < 2 /\ Undefined
     \/ /\ Len(nums) >= 2 /\ Traps(target, s1, s2)
        /\ phase' = "trap"
        /\ UNCHANGED <<tokens, i, op_stack, output, nums, result>>
     \/ /\ Len(nums) >= 2 /\ ~Traps(target, s1, s2)
        /\ nums' = Append(Rest(Rest(nums)), Apply(target, s1, s2))
        /\ Target

Ignore ==
  /\ Evaluating /\ ~is_number(target) /\ target \notin Arithmetic
  /\ UNCHANGED nums /\ Target

Return ==
  /\ phase = "eval" /\ i = Len(output)
  /\ \/ nums = <<>> /\ Undefined
     \/ /\ nums # <<>>
        /\ result' = top(nums) /\ nums' = Rest(nums)
        /\ phase' = "free"
        /\ UNCHANGED <<tokens, i, op_stack, output>>

(* All STACK_MAX entries of tokens[] are freed; those behind the last      *)
(* token were never set and free() may be handed anything.                 *)
Free ==
  /\ phase = "free"
  /\ phase' \in {"done"} \union (IF Len(tokens) < STACK_MAX THEN {"badfree"} ELSE {})
  /\ UNCHANGED <<tokens, i, op_stack, output, nums, result>>

Next ==
  \/ Number \/ OpenParen \/ CloseParen \/ Operator \/ Flush
  \/ PushNumber \/ Compute \/ Ignore \/ Return
  \/ Free

Spec == Init /\ [][Next]_vars

-----------------------------------------------------------------------------
TypeOK ==
  /\ tokens \in Seq(Words) /\ output \in Seq(Words) /\ op_stack \in Seq(Words)
  /\ phase \in {"convert", "eval", "free", "done", "undefined", "trap", "badfree"}
  /\ i \in Nat
  /\ nums \in Seq(Ints) /\ result \in Ints

(* None of the three arrays, none of which is checked when written, is     *)
(* written past its end: output_tokens has room for token_count tokens     *)
(* only, the stacks for STACK_MAX (infix_to_postfix, push, push2).         *)
ArraysFit ==
  /\ Len(output) <= Len(tokens)
  /\ Len(op_stack) <= STACK_MAX
  /\ Len(nums) <= STACK_MAX

(* Operators wait on the stack only above looser ones, or above a "(":     *)
(* what makes one pass over the line enough (the while loop of             *)
(* infix_to_postfix).                                                      *)
StackRises ==
  \A k \in 1..Len(op_stack) - 1 :
     op_stack[k+1] = "(" \/ precedence(op_stack[k]) < precedence(op_stack[k+1])

Occurs(t, s) == Cardinality({k \in DOMAIN s : s[k] = t})

NumbersOf(s) ==
  LET upto[n \in 0..Len(s)] ==
        IF n = 0 THEN <<>>
        ELSE IF is_number(s[n]) THEN Append(upto[n - 1], s[n]) ELSE upto[n - 1]
  IN  upto[Len(s)]

Handled == SubSeq(tokens, 1, i)

(* The conversion neither loses nor doubles an operator, and the numbers   *)
(* come out in the order they went in, for any line, balanced or not.      *)
NothingLost ==
  /\ phase = "convert" =>
       /\ \A t \in Words \ {"(", ")"} :
            Occurs(t, output) + Occurs(t, op_stack) = Occurs(t, Handled)
       /\ NumbersOf(output) = NumbersOf(Handled)
  /\ phase = "eval" =>
       /\ \A t \in Words \ {"(", ")"} : Occurs(t, output) = Occurs(t, tokens)
       /\ NumbersOf(output) = NumbersOf(tokens)
=============================================================================
