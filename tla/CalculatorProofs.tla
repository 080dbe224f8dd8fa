-------------------------- MODULE CalculatorProofs --------------------------
(***************************************************************************)
(* No line, however malformed, makes the calculator write past the end of  *)
(* one of its arrays, the operator stack always rises, and the conversion  *)
(* to postfix only rearranges; and every well-formed line gets the value   *)
(* arithmetic gives it: for all lines, numerals and sizes.                 *)
(***************************************************************************)
EXTENDS CalculatorGrammar, SequenceTheorems, FiniteSetTheorems, WellFoundedInduction, TLAPS

(***************************************************************************)
(* ArraysFit is not inductive: that output_tokens has room for what is     *)
(* still on the operator stack must be known too.  Every token handled     *)
(* adds at most one entry to the two together, popping moves one across.   *)
(***************************************************************************)
Room ==
  /\ Len(tokens) <= STACK_MAX
  /\ phase = "convert" => i <= Len(tokens) /\ Len(output) + Len(op_stack) <= i
  /\ Len(output) + Len(op_stack) <= Len(tokens)
  /\ phase = "convert" => nums = <<>>
  /\ phase = "eval" => Len(nums) <= i /\ i <= Len(output)
  /\ Len(nums) <= Len(output)

IInv == TypeOK /\ Room /\ StackRises

LEMMA RestSeq ==
  ASSUME NEW S, NEW s \in Seq(S), s # <<>>
  PROVE  /\ Rest(s) \in Seq(S) /\ Len(Rest(s)) = Len(s) - 1
         /\ Len(s) \in Nat /\ Len(s) >= 1 /\ top(s) \in S
         /\ \A k \in 1..Len(s)-1 : Rest(s)[k] = s[k]
<1>1. Len(s) \in Nat /\ Len(s) >= 1 OBVIOUS
<1>2. s[Len(s)] \in S BY <1>1
<1>3. \A k \in 1 .. Len(s) - 1 : s[k] \in S BY <1>1
<1>4. /\ SubSeq(s, 1, Len(s) - 1) \in Seq(S)
      /\ Len(SubSeq(s, 1, Len(s) - 1)) = Len(s) - 1
      /\ \A k \in 1 .. Len(s) - 1 : SubSeq(s, 1, Len(s) - 1)[k] = s[k]
  <2>1. /\ SubSeq(s, 1, Len(s) - 1) \in Seq(S)
        /\ Len(SubSeq(s, 1, Len(s) - 1)) = IF 1 <= Len(s) - 1
                                            THEN Len(s) - 1 - 1 + 1 ELSE 0
        /\ \A k \in 1 .. Len(s) - 1 - 1 + 1 :
             SubSeq(s, 1, Len(s) - 1)[k] = s[1 + k - 1]
    BY <1>1, <1>3, SubSeqProperties
  <2>2. Len(s) - 1 - 1 + 1 = Len(s) - 1 BY <1>1
  <2>3. \A k \in 1 .. Len(s) - 1 : 1 + k - 1 = k BY <1>1
  <2> QED BY <1>1, <2>1, <2>2, <2>3
<1> QED BY <1>1, <1>2, <1>4 DEF Rest, top

LEMMA AppendSeq ==
  ASSUME NEW S, NEW s \in Seq(S), NEW x \in S
  PROVE  /\ Append(s, x) \in Seq(S) /\ Len(Append(s, x)) = Len(s) + 1
         /\ Len(s) \in Nat
         /\ \A k \in 1..Len(s) : Append(s, x)[k] = s[k]
         /\ Append(s, x)[Len(s) + 1] = x
OBVIOUS

(* What a step of the conversion does to the two stacks. *)
LEMMA PopMoves ==
  ASSUME IInv, op_stack # <<>>, PopToOutput
  PROVE  /\ output' \in Seq(Words) /\ op_stack' \in Seq(Words)
         /\ Len(output') + Len(op_stack') = Len(output) + Len(op_stack)
         /\ Len(output') \in Nat /\ Len(op_stack') \in Nat
         /\ Len(output) \in Nat /\ Len(op_stack) \in Nat
         /\ Len(output') = Len(output) + 1
         /\ StackRises'
<1>1. /\ Rest(op_stack) \in Seq(Words)
      /\ Len(Rest(op_stack)) = Len(op_stack) - 1
      /\ Len(op_stack) \in Nat /\ Len(op_stack) >= 1 /\ top(op_stack) \in Words
      /\ \A k \in 1..Len(op_stack)-1 : Rest(op_stack)[k] = op_stack[k]
  BY RestSeq DEF IInv, TypeOK
<1>2. /\ Append(output, top(op_stack)) \in Seq(Words)
      /\ Len(Append(output, top(op_stack))) = Len(output) + 1
      /\ Len(output) \in Nat
  BY <1>1, AppendSeq DEF IInv, TypeOK
<1>3. StackRises'
  BY <1>1 DEF PopToOutput, IInv, StackRises
<1> QED BY <1>1, <1>2, <1>3 DEF PopToOutput

LEMMA DropKeepsRising ==
  ASSUME IInv, op_stack # <<>>, op_stack' = Rest(op_stack)
  PROVE  StackRises'
<1>1. /\ Len(Rest(op_stack)) = Len(op_stack) - 1 /\ Len(op_stack) \in Nat
      /\ Len(op_stack) >= 1
      /\ \A k \in 1..Len(op_stack)-1 : Rest(op_stack)[k] = op_stack[k]
  BY RestSeq DEF IInv, TypeOK
<1> QED BY <1>1 DEF IInv, StackRises

LEMMA PushKeepsRising ==
  ASSUME IInv, NEW t \in Words, push(t),
         t = "(" \/ op_stack = <<>> \/ precedence(top(op_stack)) < precedence(t)
  PROVE  StackRises'
<1>1. /\ op_stack' = Append(op_stack, t) /\ Len(op_stack') = Len(op_stack) + 1
      /\ Len(op_stack) \in Nat
      /\ \A k \in 1..Len(op_stack) : op_stack'[k] = op_stack[k]
      /\ op_stack'[Len(op_stack) + 1] = t
  BY AppendSeq DEF IInv, TypeOK, push
<1> SUFFICES ASSUME NEW k \in 1..Len(op_stack')-1
             PROVE  op_stack'[k+1] = "("
                      \/ precedence(op_stack'[k]) < precedence(op_stack'[k+1])
  BY DEF StackRises, precedence
<1>2. k \in 1..Len(op_stack) BY <1>1
<1>3. CASE k = Len(op_stack)
  <2>1. op_stack # <<>> /\ op_stack'[k] = top(op_stack) /\ op_stack'[k+1] = t
    BY <1>1, <1>2, <1>3 DEF top
  <2> QED BY <2>1
<1>4. CASE k # Len(op_stack)
  <2>1. k \in 1..Len(op_stack)-1 /\ k+1 \in 1..Len(op_stack) BY <1>1, <1>2, <1>4
  <2> QED BY <1>1, <1>2, <2>1 DEF IInv, StackRises
<1> QED BY <1>3, <1>4

LEMMA StepUndefined == IInv /\ Undefined => IInv'
BY DEF IInv, Undefined, TypeOK, Room, StackRises

LEMMA WordHere ==
  ASSUME IInv, Converting PROVE c \in Words /\ i \in Nat /\ Len(tokens) \in Nat
BY DEF IInv, TypeOK, Converting, c

LEMMA StepNumber == IInv /\ Number => IInv'
<1> SUFFICES ASSUME IInv, Number PROVE IInv' OBVIOUS
<1>1. c \in Words /\ i \in Nat /\ Len(tokens) \in Nat
  BY WordHere DEF Number
<1>2. output' = Append(output, c) /\ Append(output, c) \in Seq(Words)
        /\ Len(Append(output, c)) = Len(output) + 1 /\ Len(output) \in Nat
  BY <1>1, AppendSeq DEF IInv, TypeOK, Number
<1>3. TypeOK' BY <1>1, <1>2 DEF IInv, TypeOK, Number, Consume
<1>4. Room'
  <2>1. Len(op_stack) \in Nat BY DEF IInv, TypeOK
  <2>2. Len(nums) = 0 /\ nums = <<>>
    BY DEF IInv, Room, Number, Converting
  <2> QED BY <1>1, <1>2, <2>1, <2>2 DEF IInv, Room, Number, Consume, Converting
<1>5. StackRises' BY DEF IInv, StackRises, Number
<1> QED BY <1>3, <1>4, <1>5 DEF IInv

(* Pushing the current token. *)
LEMMA StepPush ==
  ASSUME IInv, Converting, push(c), UNCHANGED output, Consume,
         c = "(" \/ op_stack = <<>> \/ precedence(top(op_stack)) < precedence(c)
  PROVE  IInv'
<1>1. c \in Words /\ i \in Nat /\ Len(tokens) \in Nat
  BY WordHere
<1>2. op_stack' \in Seq(Words) /\ Len(op_stack') = Len(op_stack) + 1
        /\ Len(op_stack) \in Nat
  BY <1>1, AppendSeq DEF IInv, TypeOK, push
<1>3. TypeOK' BY <1>1, <1>2 DEF IInv, TypeOK, Consume
<1>4. Room'
  <2>1. Len(output) \in Nat BY DEF IInv, TypeOK
  <2>2. Len(nums) = 0 /\ nums = <<>> BY DEF IInv, Room, Converting
  <2> QED BY <1>1, <1>2, <2>1, <2>2 DEF IInv, Room, Consume, Converting
<1>5. StackRises' BY <1>1, PushKeepsRising
<1> QED BY <1>3, <1>4, <1>5 DEF IInv

(* Moving the top of the operator stack to the output. *)
LEMMA StepPop ==
  ASSUME IInv, phase = "convert", op_stack # <<>>, PopToOutput, StayAt
  PROVE  IInv'
<1>1. /\ output' \in Seq(Words) /\ op_stack' \in Seq(Words) /\ StackRises'
      /\ Len(output') + Len(op_stack') = Len(output) + Len(op_stack)
      /\ Len(output') \in Nat /\ nums = <<>>
  BY PopMoves DEF IInv, Room
<1>2. TypeOK' BY <1>1 DEF IInv, TypeOK, StayAt
<1>3. Room' BY <1>1 DEF IInv, Room, StayAt
<1> QED BY <1>1, <1>2, <1>3 DEF IInv

LEMMA StepCloseParen == IInv /\ CloseParen => IInv'
<1> SUFFICES ASSUME IInv, CloseParen PROVE IInv' OBVIOUS
<1>1. CASE op_stack = <<>> /\ Undefined BY <1>1, StepUndefined
<1>2. CASE op_stack # <<>> /\ PopToOutput /\ StayAt
  BY <1>2, StepPop DEF CloseParen, Converting
<1>3. CASE /\ op_stack # <<>> /\ op_stack' = Rest(op_stack)
           /\ UNCHANGED output /\ Consume
  <2>1. op_stack' \in Seq(Words) /\ Len(op_stack') = Len(op_stack) - 1
          /\ Len(op_stack) \in Nat /\ Len(op_stack) >= 1
    BY <1>3, RestSeq DEF IInv, TypeOK
  <2>2. i \in Nat /\ Len(tokens) \in Nat /\ Len(output) \in Nat /\ Converting
    BY DEF IInv, TypeOK, CloseParen
  <2>3. TypeOK' BY <1>3, <2>1, <2>2 DEF IInv, TypeOK, Consume
  <2>4. Room'
    <3>1. Len(nums) = 0 /\ nums = <<>> BY <2>2 DEF IInv, Room, Converting
    <3> QED BY <1>3, <2>1, <2>2, <3>1 DEF IInv, Room, Consume, Converting
  <2>5. StackRises' BY <1>3, DropKeepsRising
  <2> QED BY <2>3, <2>4, <2>5 DEF IInv
<1> QED BY <1>1, <1>2, <1>3 DEF CloseParen

LEMMA StepOperator == IInv /\ Operator => IInv'
<1> SUFFICES ASSUME IInv, Operator PROVE IInv' OBVIOUS
<1>1. CASE Yields /\ PopToOutput /\ StayAt
  BY <1>1, StepPop DEF Operator, Yields, Converting
<1>2. CASE ~Yields /\ push(c) /\ UNCHANGED output /\ Consume
  <2>1. op_stack = <<>> \/ precedence(top(op_stack)) < precedence(c)
    BY <1>2 DEF Yields, precedence
  <2> QED BY <1>2, <2>1, StepPush DEF Operator
<1> QED BY <1>1, <1>2 DEF Operator

LEMMA StepFlush == IInv /\ Flush => IInv'
<1> SUFFICES ASSUME IInv, Flush PROVE IInv' OBVIOUS
<1>1. CASE ~Flushed /\ PopToOutput /\ StayAt
  BY <1>1, StepPop DEF Flush, Flushed
<1>2. CASE /\ phase' = "eval" /\ i' = 0
           /\ UNCHANGED <<tokens, op_stack, output, nums, result>>
  <2>1. TypeOK' BY <1>2 DEF IInv, TypeOK
  <2>2. Len(nums) = 0 /\ nums = <<>> /\ Len(output) \in Nat
    BY DEF IInv, Room, Flush, TypeOK
  <2>3. Room' BY <1>2, <2>2 DEF IInv, Room
  <2>4. StackRises' BY <1>2 DEF IInv, StackRises
  <2> QED BY <2>1, <2>3, <2>4 DEF IInv
<1> QED BY <1>1, <1>2 DEF Flush

-----------------------------------------------------------------------------
(* Evaluation: nums changes, the operator stack does not.                  *)
LEMMA StepTarget ==
  ASSUME IInv, Evaluating, Target, nums' \in Seq(Ints),
         Len(nums') <= Len(nums) + 1
  PROVE  IInv'
<1>1. i \in Nat /\ Len(output) \in Nat /\ i < Len(output) /\ phase = "eval"
        /\ Len(nums) \in Nat /\ Len(nums') \in Nat
  BY DEF IInv, TypeOK, Evaluating
<1>2. TypeOK' BY <1>1 DEF IInv, TypeOK, Target
<1>3. Room' BY <1>1 DEF IInv, Room, Target
<1>4. StackRises' BY DEF IInv, StackRises, Target
<1> QED BY <1>2, <1>3, <1>4 DEF IInv

LEMMA WrapFits == ASSUME NEW n \in Int PROVE Wrap(n) \in Ints
<1> DEFINE M == INT_MAX + 1
<1>1. M \in Nat /\ M >= 1 BY CalculatorAssumption
<1>2. 2 * M \in Nat /\ 2 * M > 0 BY <1>1
<1>3. (n + M) \in Int BY <1>1
<1>4. (n + M) % (2 * M) \in 0 .. 2 * M - 1
  <2> HIDE DEF M
  <2> DEFINE a == n + M b == 2 * M
  <2>1. a \in Int /\ b \in Nat /\ b > 0 BY <1>2, <1>3
  <2> HIDE DEF a, b
  <2>2. a % b \in 0 .. b - 1 BY <2>1
  <2> QED BY <2>2 DEF a, b
<1>5. Wrap(n) = ((n + M) % (2 * M)) - M
  BY CalculatorAssumption DEF Wrap
<1> HIDE DEF M
<1>6. ((n + M) % (2 * M)) - M \in -M .. M - 1 BY <1>1, <1>4
<1> QED BY <1>5, <1>6, CalculatorAssumption DEF M, Ints

LEMMA ApplyFits ==
  ASSUME NEW op \in Arithmetic, NEW a \in Ints, NEW b \in Ints, ~Traps(op, a, b)
  PROVE  Apply(op, a, b) \in Ints
<1>1. a \in Int /\ b \in Int BY CalculatorAssumption DEF Ints
<1>2. a + b \in Int /\ a - b \in Int /\ a * b \in Int BY <1>1
<1>3. CASE op = "+" BY <1>2, <1>3, WrapFits DEF Apply
<1>4. CASE op = "-" BY <1>2, <1>4, WrapFits DEF Apply
<1>5. CASE op = "*" BY <1>2, <1>5, WrapFits DEF Apply
<1>6. CASE op = "/" BY <1>6 DEF Apply, Traps
<1> QED BY <1>3, <1>4, <1>5, <1>6 DEF Arithmetic

LEMMA StepCompute == IInv /\ Compute => IInv'
<1> SUFFICES ASSUME IInv, Compute PROVE IInv' OBVIOUS
<1> DEFINE s1 == nums[Len(nums) - 1]
           s2 == top(nums)
<1>1. CASE Undefined BY <1>1, StepUndefined
<1>2. CASE /\ phase' = "trap"
           /\ UNCHANGED <<tokens, i, op_stack, output, nums, result>>
  BY <1>2 DEF IInv, TypeOK, Room, StackRises
<1>3. CASE /\ Len(nums) >= 2 /\ ~Traps(target, s1, s2)
           /\ nums' = Append(Rest(Rest(nums)), Apply(target, s1, s2))
           /\ Target
  <2>1. nums \in Seq(Ints) /\ Len(nums) \in Nat BY DEF IInv, TypeOK
  <2>2. s1 \in Ints /\ s2 \in Ints BY <1>3, <2>1 DEF top
  <2>3. target \in Arithmetic BY DEF Compute
  <2>4. Apply(target, s1, s2) \in Ints BY <1>3, <2>2, <2>3, ApplyFits
  <2>5. Rest(nums) \in Seq(Ints) /\ Len(Rest(nums)) = Len(nums) - 1
    BY <1>3, <2>1, RestSeq
  <2>6. Rest(Rest(nums)) \in Seq(Ints) /\ Len(Rest(Rest(nums))) = Len(nums) - 2
    <3>1. Rest(nums) # <<>> BY <1>3, <2>1, <2>5
    <3> QED BY <2>1, <2>5, <3>1, RestSeq
  <2> HIDE DEF s1, s2
  <2>7. nums' \in Seq(Ints) /\ Len(nums') = Len(nums) - 1
    BY <1>3, <2>1, <2>4, <2>6, AppendSeq
  <2> QED BY <1>3, <2>1, <2>7, StepTarget DEF Compute
<1> QED BY <1>1, <1>2, <1>3 DEF Compute

LEMMA StepPushNumber == IInv /\ PushNumber => IInv'
<1> SUFFICES ASSUME IInv, PushNumber PROVE IInv' OBVIOUS
<1>1. 0 \in Ints BY CalculatorAssumption DEF Ints
<1>2. Value(target) \in Ints
  BY <1>1, CalculatorAssumption DEF PushNumber, is_number, Value
<1>3. nums' \in Seq(Ints) /\ Len(nums') = Len(nums) + 1
  BY <1>2, AppendSeq DEF IInv, TypeOK, PushNumber
<1>4. Len(nums) \in Nat BY DEF IInv, TypeOK
<1> QED BY <1>3, <1>4, StepTarget DEF PushNumber

LEMMA StepReturn == IInv /\ Return => IInv'
<1> SUFFICES ASSUME IInv, Return PROVE IInv' OBVIOUS
<1>1. CASE Undefined BY <1>1, StepUndefined
<1>2. CASE /\ nums # <<>> /\ result' = top(nums) /\ nums' = Rest(nums)
           /\ phase' = "free" /\ UNCHANGED <<tokens, i, op_stack, output>>
  <2>1. /\ Rest(nums) \in Seq(Ints) /\ Len(Rest(nums)) = Len(nums) - 1
        /\ top(nums) \in Ints /\ Len(nums) \in Nat
    BY <1>2, RestSeq DEF IInv, TypeOK
  <2>2. TypeOK' BY <1>2, <2>1 DEF IInv, TypeOK
  <2>3. Room'
    <3>1. Len(output) \in Nat BY DEF IInv, TypeOK
    <3> QED BY <1>2, <2>1, <3>1 DEF IInv, Room
  <2>4. StackRises' BY <1>2 DEF IInv, StackRises
  <2> QED BY <2>2, <2>3, <2>4 DEF IInv
<1> QED BY <1>1, <1>2 DEF Return

LEMMA StepFree == IInv /\ Free => IInv'
BY DEF IInv, TypeOK, Room, StackRises, Free

LEMMA InitIInv == Init => IInv
<1> SUFFICES ASSUME Init PROVE IInv OBVIOUS
<1>1. PICK line \in Lines :
        tokens = SubSeq(line, 1, IF Len(line) < STACK_MAX THEN Len(line)
                                                          ELSE STACK_MAX)
  BY DEF Init
<1>2. line \in Seq(Words) /\ Len(line) \in Nat /\ STACK_MAX \in Nat
  BY CalculatorAssumption
<1>3. tokens \in Seq(Words) /\ Len(tokens) <= STACK_MAX /\ Len(tokens) \in Nat
  BY <1>1, <1>2
<1>4. 0 \in Ints BY CalculatorAssumption DEF Ints
<1>5. /\ op_stack = <<>> /\ output = <<>> /\ nums = <<>> /\ i = 0
      /\ result = 0 /\ phase = "convert"
  BY DEF Init
<1>6. Len(op_stack) = 0 /\ Len(output) = 0 /\ Len(nums) = 0 BY <1>5
<1>7. TypeOK BY <1>3, <1>4, <1>5 DEF TypeOK
<1>8. Room BY <1>3, <1>5, <1>6 DEF Room
<1>9. StackRises BY <1>6 DEF StackRises
<1> QED BY <1>7, <1>8, <1>9 DEF IInv

LEMMA NextIInv == IInv /\ [Next]_vars => IInv'
<1> SUFFICES ASSUME IInv, [Next]_vars PROVE IInv' OBVIOUS
<1>1. CASE OpenParen BY <1>1, StepPush DEF OpenParen
<1>2. CASE Ignore
  <2>1. nums' \in Seq(Ints) /\ Len(nums') <= Len(nums) + 1
    <3>1. nums' = nums /\ nums \in Seq(Ints) /\ Len(nums) \in Nat
      BY <1>2 DEF Ignore, IInv, TypeOK
    <3> QED BY <3>1
  <2> QED BY <1>2, <2>1, StepTarget DEF Ignore
<1>3. CASE UNCHANGED vars BY <1>3 DEF vars, IInv, TypeOK, Room, StackRises
<1> QED BY <1>1, <1>2, <1>3, StepNumber, StepCloseParen, StepOperator, StepFlush,
           StepPushNumber, StepCompute, StepReturn, StepFree
        DEF Next

LEMMA Invariance == Spec => []IInv
BY InitIInv, NextIInv, PTL DEF Spec

(* The variables stay in their ranges; results wrap like ints.             *)
THEOREM TypeCorrect == Spec => []TypeOK
BY Invariance, PTL DEF IInv

(* No array is written past its end, for balanced lines and all others.    *)
THEOREM NoOverflow == Spec => []ArraysFit
<1>1. IInv => ArraysFit
  <2> SUFFICES ASSUME IInv PROVE ArraysFit OBVIOUS
  <2>1. /\ Len(output) \in Nat /\ Len(op_stack) \in Nat /\ Len(nums) \in Nat
        /\ Len(tokens) \in Nat /\ STACK_MAX \in Nat
    BY CalculatorAssumption DEF IInv, TypeOK
  <2> QED BY <2>1 DEF IInv, Room, ArraysFit
<1> QED BY <1>1, Invariance, PTL

(* The operator stack rises.                                               *)
THEOREM OperatorsRise == Spec => []StackRises
BY Invariance, PTL DEF IInv

-----------------------------------------------------------------------------
(* How often a token occurs, and the numbers among the tokens.             *)
LEMMA OccursAppend ==
  ASSUME NEW S, NEW s \in Seq(S), NEW x \in S, NEW t
  PROVE  /\ Occurs(t, s) \in Nat
         /\ Occurs(t, Append(s, x)) = Occurs(t, s) + (IF x = t THEN 1 ELSE 0)
<1> DEFINE K == {k \in DOMAIN s : s[k] = t}
           new == Append(s, x)
           J == {k \in DOMAIN new : new[k] = t}
           n == Len(s) + 1
<1>1. /\ DOMAIN s = 1..Len(s) /\ DOMAIN new = 1..n /\ Len(s) \in Nat
      /\ new[n] = x /\ \A k \in 1..Len(s) : new[k] = s[k]
  OBVIOUS
<1>2. IsFiniteSet(K)
  <2>1. IsFiniteSet(1..Len(s)) BY <1>1, FS_Interval
  <2> QED BY <1>1, <2>1, FS_Subset
<1>3. n \notin K BY <1>1
<1>4. J = IF x = t THEN K \union {n} ELSE K
  <2> HIDE DEF new
  <2>1. 1..n = (1..Len(s)) \union {n} BY <1>1
  <2> QED BY <1>1, <2>1
<1>5. Occurs(t, s) = Cardinality(K) /\ Occurs(t, new) = Cardinality(J) BY DEF Occurs
<1> HIDE DEF K, J, new, n
<1>6. Cardinality(K) \in Nat BY <1>2, FS_CardinalityType
<1>7. Cardinality(K \union {n}) = Cardinality(K) + 1 BY <1>2, <1>3, FS_AddElement
<1> QED BY <1>4, <1>5, <1>6, <1>7 DEF new

(* Taking the last entry off. *)
LEMMA RestOf ==
  ASSUME NEW S, NEW s \in Seq(S), s # <<>>
  PROVE  s = Append(Rest(s), top(s)) /\ Rest(s) \in Seq(S) /\ top(s) \in S
<1>1. /\ Rest(s) \in Seq(S) /\ Len(Rest(s)) = Len(s) - 1
      /\ Len(s) \in Nat /\ Len(s) >= 1 /\ top(s) \in S
      /\ \A k \in 1..Len(s)-1 : Rest(s)[k] = s[k]
  BY RestSeq
<1>2. PICK r, x : r = Rest(s) /\ x = top(s) OBVIOUS
<1>3. x = s[Len(s)] BY <1>2 DEF top
<1>4. /\ Append(r, x) \in Seq(S) /\ Len(Append(r, x)) = Len(s)
      /\ \A k \in 1..Len(s) : Append(r, x)[k] = s[k]
  <2>1. r \in Seq(S) /\ x \in S /\ Len(r) = Len(s) - 1 BY <1>1, <1>2
  <2>2. /\ Append(r, x) \in Seq(S) /\ Len(Append(r, x)) = Len(r) + 1
        /\ \A k \in 1..Len(r) : Append(r, x)[k] = r[k]
        /\ Append(r, x)[Len(r) + 1] = x
    BY <2>1
  <2> QED BY <1>1, <1>2, <1>3, <2>1, <2>2
<1>5. Append(r, x) = s BY <1>4
<1> QED BY <1>1, <1>2, <1>5

(* A prefix and the entry after it. *)
LEMMA OneMore ==
  ASSUME NEW S, NEW s \in Seq(S), NEW n \in Nat, n < Len(s)
  PROVE  /\ SubSeq(s, 1, n + 1) = Append(SubSeq(s, 1, n), s[n + 1])
         /\ SubSeq(s, 1, n) \in Seq(S) /\ s[n + 1] \in S
<1>1. /\ SubSeq(s, 1, n) \in Seq(S) /\ Len(SubSeq(s, 1, n)) = n
      /\ \A k \in 1..n : SubSeq(s, 1, n)[k] = s[k]
  OBVIOUS
<1>2. /\ SubSeq(s, 1, n+1) \in Seq(S) /\ Len(SubSeq(s, 1, n+1)) = n+1
      /\ \A k \in 1..n+1 : SubSeq(s, 1, n+1)[k] = s[k]
  OBVIOUS
<1>3. s[n + 1] \in S OBVIOUS
<1>4. PICK p, q, x : p = SubSeq(s, 1, n) /\ q = SubSeq(s, 1, n+1) /\ x = s[n + 1] OBVIOUS
<1>5. /\ Append(p, x) \in Seq(S) /\ Len(Append(p, x)) = n + 1
      /\ \A k \in 1..n : Append(p, x)[k] = p[k]
      /\ Append(p, x)[n + 1] = x
  <2>1. p \in Seq(S) /\ Len(p) = n /\ x \in S BY <1>1, <1>3, <1>4
  <2> QED BY <2>1
<1>6. \A k \in 1..n+1 : Append(p, x)[k] = q[k] BY <1>1, <1>2, <1>4, <1>5
<1>7. Append(p, x) = q
  <2>1. q \in Seq(S) /\ Len(q) = n + 1 BY <1>2, <1>4
  <2> QED BY <1>5, <1>6, <2>1
<1> QED BY <1>1, <1>3, <1>4, <1>7

(* Induction up to L. *)
LEMMA Upwards ==
  ASSUME NEW L \in Nat, NEW G,
         \A n \in 0..L : (n = 0 \/ n - 1 \in G) => n \in G
  PROVE  0..L \subseteq G
<1> SUFFICES ASSUME NEW n \in 0..L, n \notin G PROVE FALSE OBVIOUS
<1> DEFINE Bad == {m \in Nat : m \in 0..L /\ m \notin G}
<1>1. n \in Bad OBVIOUS
<1>2. PICK d \in Bad : \A e \in Bad : ~(<<e, d>> \in OpToRel(<, Nat))
  BY <1>1, NatLessThanWellFounded, WFMin, Bad \subseteq Nat
<1>3. d # 0 /\ d - 1 \notin G OBVIOUS
<1>4. d - 1 \in Bad /\ d - 1 < d BY <1>3
<1>5. <<d - 1, d>> \in OpToRel(<, Nat) BY <1>4 DEF OpToRel
<1> QED BY <1>2, <1>4, <1>5

Pick(f, s, n) ==
  IF n = 0 THEN <<>> ELSE IF is_number(s[n]) THEN Append(f[n - 1], s[n]) ELSE f[n - 1]

Picks(f, s) == f = [n \in 0..Len(s) |-> Pick(f, s, n)]

LEMMA NumbersOfIs == \A s : NumbersOf(s) = (CHOOSE f : Picks(f, s))[Len(s)]
BY Zenon DEF NumbersOf, Picks, Pick

LEMMA PicksExist ==
  ASSUME NEW s, Len(s) \in Nat
  PROVE  Picks(CHOOSE f : Picks(f, s), s)
<1> DEFINE Part(f, n) == f = [m \in 0..n |-> Pick(f, s, m)]
           G == {n \in 0..Len(s) : \E f : Part(f, n)}
<1>1. ASSUME NEW n \in 0..Len(s), n = 0 \/ n - 1 \in G PROVE n \in G
  <2>1. CASE n = 0
    <3> DEFINE f == [m \in 0..0 |-> Pick(<<>>, s, m)]
    <3>1. \A m \in 0..0 : Pick(f, s, m) = Pick(<<>>, s, m) BY DEF Pick
    <3>2. Part(f, 0) BY <3>1
    <3> QED BY <2>1, <3>2
  <2>2. CASE n # 0
    <3>1. PICK f : Part(f, n - 1) BY <1>1, <2>2
    <3> DEFINE g == [m \in 0..n |-> IF m = n THEN Pick(f, s, n) ELSE f[m]]
    <3>2. \A m \in 0..n : g[m] = Pick(g, s, m)
      <4> SUFFICES ASSUME NEW m \in 0..n PROVE g[m] = Pick(g, s, m) OBVIOUS
      <4>1. CASE m = 0
        <5>1. g[0] = f[0] /\ f[0] = Pick(f, s, 0) BY <2>2, <3>1
        <5> QED BY <4>1, <5>1 DEF Pick
      <4>2. CASE m # 0
        <5>1. g[m - 1] = f[m - 1] BY <4>2
        <5>2. Pick(g, s, m) = Pick(f, s, m) BY <4>2, <5>1 DEF Pick
        <5>3. CASE m = n BY <5>2, <5>3
        <5>4. CASE m # n
          <6>1. f[m] = Pick(f, s, m) BY <3>1, <5>4
          <6> QED BY <5>2, <5>4, <6>1
        <5> QED BY <5>3, <5>4
      <4> QED BY <4>1, <4>2
    <3>3. Part(g, n) BY <3>2
    <3> QED BY <3>3
  <2> QED BY <2>1, <2>2
<1>2. 0..Len(s) \subseteq G
  <2> HIDE DEF G
  <2> QED BY <1>1, Upwards
<1>3. \E f : Picks(f, s)
  <2>1. Len(s) \in G BY <1>2
  <2> QED BY <2>1 DEF Picks
<1> QED BY <1>3

LEMMA PickedAt ==
  ASSUME NEW f, NEW s, Picks(f, s), NEW n \in 0..Len(s)
  PROVE  f[n] = Pick(f, s, n)
BY Zenon DEF Picks

LEMMA NumbersAppend ==
  ASSUME NEW S, NEW s \in Seq(S), NEW x \in S
  PROVE  NumbersOf(Append(s, x)) =
           IF is_number(x) THEN Append(NumbersOf(s), x) ELSE NumbersOf(s)
<1>1. PICK new : new = Append(s, x) OBVIOUS
<1>2. /\ Len(s) \in Nat /\ Len(new) = Len(s) + 1 /\ new[Len(s) + 1] = x
      /\ \A k \in 1..Len(s) : new[k] = s[k]
  BY <1>1
<1>3. PICK f, g : f = (CHOOSE h : Picks(h, s)) /\ g = (CHOOSE h : Picks(h, new)) OBVIOUS
<1>4. /\ Picks(f, s) /\ NumbersOf(s) = f[Len(s)]
      /\ Picks(g, new) /\ NumbersOf(new) = g[Len(s) + 1]
  BY <1>2, <1>3, PicksExist, NumbersOfIs
<1>5. \A n \in 0..Len(s) : f[n] = Pick(f, s, n) /\ g[n] = Pick(g, new, n)
  <2>1. \A n \in 0..Len(s) : f[n] = Pick(f, s, n) BY <1>4, PickedAt
  <2>2. \A n \in 0..Len(new) : g[n] = Pick(g, new, n) BY <1>4, PickedAt
  <2>3. 0..Len(s) \subseteq 0..Len(new) BY <1>2
  <2> QED BY <2>1, <2>2, <2>3
<1> DEFINE G == {n \in 0..Len(s) : f[n] = g[n]}
<1>6. ASSUME NEW n \in 0..Len(s), n = 0 \/ n - 1 \in G PROVE n \in G
  <2>1. CASE n = 0 BY <1>5, <2>1 DEF Pick
  <2>2. CASE n # 0
    <3>1. f[n - 1] = g[n - 1] BY <1>6, <2>2
    <3>2. new[n] = s[n] BY <1>2, <2>2
    <3> QED BY <1>5, <2>2, <3>1, <3>2 DEF Pick
  <2> QED BY <2>1, <2>2
<1>7. 0..Len(s) \subseteq G
  <2> HIDE DEF G
  <2> QED BY <1>2, <1>6, Upwards
<1>8. g[Len(s)] = f[Len(s)] BY <1>2, <1>7
<1>9. g[Len(s) + 1] = Pick(g, new, Len(s) + 1)
  <2>1. Len(s) + 1 \in 0..Len(new) BY <1>2
  <2> QED BY <1>4, <2>1, PickedAt
<1>10. g[Len(s) + 1] = IF is_number(x) THEN Append(f[Len(s)], x) ELSE f[Len(s)]
  <2>1. Len(s) + 1 # 0 /\ Len(s) + 1 - 1 = Len(s) BY <1>2
  <2> QED BY <1>2, <1>8, <1>9, <2>1 DEF Pick
<1> QED BY <1>1, <1>4, <1>10

-----------------------------------------------------------------------------
(* NothingLost needs to know that numbers never wait on the stack.         *)
NoNumberWaits == \A k \in 1..Len(op_stack) : ~is_number(op_stack[k])

LInv == NothingLost /\ (phase = "convert" => NoNumberWaits)

LEMMA ParensAreNoNumbers == ~is_number("(") /\ ~is_number(")")
BY CalculatorAssumption DEF is_number

LEMMA HandledGrows ==
  ASSUME IInv, Converting, Consume
  PROVE  /\ Handled' = Append(Handled, c) /\ Handled \in Seq(Words) /\ c \in Words
         /\ phase = "convert" /\ phase' = "convert"
<1>1. tokens \in Seq(Words) /\ i \in Nat /\ i < Len(tokens) BY DEF IInv, TypeOK, Converting
<1>2. /\ SubSeq(tokens, 1, i + 1) = Append(SubSeq(tokens, 1, i), tokens[i + 1])
      /\ SubSeq(tokens, 1, i) \in Seq(Words) /\ tokens[i + 1] \in Words
  BY <1>1, OneMore
<1>3. tokens' = tokens /\ i' = i + 1 /\ phase' = phase BY DEF Consume
<1>4. phase = "convert" BY DEF Converting
<1> QED BY <1>2, <1>3, <1>4 DEF Handled, c

LEMMA PushedNone ==
  ASSUME NoNumberWaits, op_stack \in Seq(Words), NEW t \in Words, ~is_number(t), push(t)
  PROVE  NoNumberWaits'
<1>1. /\ op_stack' = Append(op_stack, t) /\ Len(op_stack') = Len(op_stack) + 1
      /\ Len(op_stack) \in Nat
      /\ \A k \in 1..Len(op_stack) : op_stack'[k] = op_stack[k]
      /\ op_stack'[Len(op_stack) + 1] = t
  BY AppendSeq DEF push
<1> SUFFICES ASSUME NEW k \in 1..Len(op_stack') PROVE ~is_number(op_stack'[k])
  BY DEF NoNumberWaits, is_number
<1>2. CASE k \in 1..Len(op_stack) BY <1>1, <1>2 DEF NoNumberWaits
<1>3. CASE k = Len(op_stack) + 1 BY <1>1, <1>3
<1> QED BY <1>1, <1>2, <1>3

LEMMA PoppedNone ==
  ASSUME NoNumberWaits, op_stack \in Seq(Words), op_stack # <<>>, op_stack' = Rest(op_stack)
  PROVE  NoNumberWaits' /\ ~is_number(top(op_stack))
<1>1. /\ Len(op_stack') = Len(op_stack) - 1 /\ Len(op_stack) \in Nat /\ Len(op_stack) >= 1
      /\ \A k \in 1..Len(op_stack)-1 : op_stack'[k] = op_stack[k]
  BY RestSeq
<1>2. \A k \in 1..Len(op_stack') : ~is_number(op_stack'[k])
  BY <1>1 DEF NoNumberWaits
<1>3. NoNumberWaits' BY <1>2 DEF NoNumberWaits, is_number
<1>4. ~is_number(op_stack[Len(op_stack)])
  <2>1. Len(op_stack) \in 1..Len(op_stack) BY <1>1
  <2> QED BY <2>1 DEF NoNumberWaits
<1> QED BY <1>3, <1>4 DEF top

LEMMA LostNumber ==
  ASSUME IInv, LInv, Number
  PROVE  LInv'
<1>1. /\ Handled' = Append(Handled, c) /\ Handled \in Seq(Words) /\ c \in Words
      /\ phase = "convert" /\ phase' = "convert"
  BY HandledGrows DEF Number
<1>2. /\ output' = Append(output, c) /\ output \in Seq(Words) /\ op_stack' = op_stack
      /\ op_stack \in Seq(Words) /\ is_number(c)
  BY DEF Number, IInv, TypeOK
<1>3. ASSUME NEW t \in Words \ {"(", ")"}
      PROVE  Occurs(t, output') + Occurs(t, op_stack') = Occurs(t, Handled')
  <2>1. Occurs(t, output) + Occurs(t, op_stack) = Occurs(t, Handled)
    BY <1>1 DEF LInv, NothingLost
  <2>2. /\ Occurs(t, output') = Occurs(t, output) + (IF c = t THEN 1 ELSE 0)
        /\ Occurs(t, output) \in Nat
    BY <1>1, <1>2, OccursAppend
  <2>3. Occurs(t, Handled') = Occurs(t, Handled) + (IF c = t THEN 1 ELSE 0)
    BY <1>1, OccursAppend
  <2>4. Occurs(t, op_stack) \in Nat /\ Occurs(t, op_stack') = Occurs(t, op_stack)
    BY <1>1, <1>2, OccursAppend
  <2> QED BY <2>1, <2>2, <2>3, <2>4
<1>4. NumbersOf(output') = NumbersOf(Handled')
  <2>1. NumbersOf(output) = NumbersOf(Handled) BY <1>1 DEF LInv, NothingLost
  <2>2. NumbersOf(output') = Append(NumbersOf(output), c) BY <1>1, <1>2, NumbersAppend
  <2>3. NumbersOf(Handled') = Append(NumbersOf(Handled), c) BY <1>1, <1>2, NumbersAppend
  <2> QED BY <2>1, <2>2, <2>3
<1>5. NoNumberWaits' BY <1>1, <1>2 DEF LInv, NoNumberWaits, is_number
<1>6. NothingLost' BY <1>1, <1>3, <1>4 DEF NothingLost, Occurs, NumbersOf, is_number
<1> QED BY <1>5, <1>6 DEF LInv

LEMMA LostPush ==
  ASSUME IInv, LInv, Converting, ~is_number(c), push(c), UNCHANGED output, Consume
  PROVE  LInv'
<1>1. /\ Handled' = Append(Handled, c) /\ Handled \in Seq(Words) /\ c \in Words
      /\ phase = "convert" /\ phase' = "convert"
  BY HandledGrows
<1>2. /\ op_stack' = Append(op_stack, c) /\ op_stack \in Seq(Words)
      /\ output' = output /\ output \in Seq(Words)
  BY DEF push, IInv, TypeOK
<1>3. ASSUME NEW t \in Words \ {"(", ")"}
      PROVE  Occurs(t, output') + Occurs(t, op_stack') = Occurs(t, Handled')
  <2>1. Occurs(t, output) + Occurs(t, op_stack) = Occurs(t, Handled)
    BY <1>1 DEF LInv, NothingLost
  <2>2. /\ Occurs(t, op_stack') = Occurs(t, op_stack) + (IF c = t THEN 1 ELSE 0)
        /\ Occurs(t, op_stack) \in Nat
    BY <1>1, <1>2, OccursAppend
  <2>3. Occurs(t, Handled') = Occurs(t, Handled) + (IF c = t THEN 1 ELSE 0)
    BY <1>1, OccursAppend
  <2>4. Occurs(t, output) \in Nat /\ Occurs(t, output') = Occurs(t, output)
    BY <1>1, <1>2, OccursAppend
  <2> QED BY <2>1, <2>2, <2>3, <2>4
<1>4. NumbersOf(output') = NumbersOf(Handled')
  <2>1. NumbersOf(output) = NumbersOf(Handled) BY <1>1 DEF LInv, NothingLost
  <2>2. NumbersOf(Handled') = NumbersOf(Handled) BY <1>1, NumbersAppend
  <2> QED BY <1>2, <2>1, <2>2
<1>5. NoNumberWaits' BY <1>1, <1>2, PushedNone DEF LInv
<1>6. NothingLost' BY <1>1, <1>3, <1>4 DEF NothingLost, Occurs, NumbersOf, is_number
<1> QED BY <1>5, <1>6 DEF LInv

LEMMA LostPop ==
  ASSUME IInv, LInv, phase = "convert", op_stack # <<>>, PopToOutput, StayAt
  PROVE  LInv'
<1>1. Handled' = Handled /\ phase' = "convert" BY DEF StayAt, Handled
<1>2. /\ op_stack = Append(Rest(op_stack), top(op_stack)) /\ Rest(op_stack) \in Seq(Words)
      /\ top(op_stack) \in Words /\ op_stack \in Seq(Words) /\ output \in Seq(Words)
  BY RestOf DEF IInv, TypeOK
<1>3. output' = Append(output, top(op_stack)) /\ op_stack' = Rest(op_stack)
  BY DEF PopToOutput
<1>4. ASSUME NEW t \in Words \ {"(", ")"}
      PROVE  Occurs(t, output') + Occurs(t, op_stack') = Occurs(t, Handled')
  <2>1. Occurs(t, output) + Occurs(t, op_stack) = Occurs(t, Handled)
    BY DEF LInv, NothingLost
  <2>2. PICK x : x = top(op_stack) OBVIOUS
  <2>3. /\ Occurs(t, output') = Occurs(t, output) + (IF x = t THEN 1 ELSE 0)
        /\ Occurs(t, output) \in Nat
    BY <1>2, <1>3, <2>2, OccursAppend
  <2>4. /\ Occurs(t, op_stack) = Occurs(t, op_stack') + (IF x = t THEN 1 ELSE 0)
        /\ Occurs(t, op_stack') \in Nat
    <3>1. PICK r, s : r = op_stack' /\ s = op_stack OBVIOUS
    <3>2. s = Append(r, x) /\ r \in Seq(Words) /\ x \in Words BY <1>2, <1>3, <2>2, <3>1
    <3>3. Occurs(t, Append(r, x)) = Occurs(t, r) + (IF x = t THEN 1 ELSE 0)
      BY <3>2, OccursAppend
    <3>4. Occurs(t, r) \in Nat BY <3>2, OccursAppend
    <3> QED BY <3>1, <3>2, <3>3, <3>4
  <2> QED BY <1>1, <2>1, <2>3, <2>4
<1>5. NoNumberWaits' /\ ~is_number(top(op_stack)) BY <1>2, <1>3, PoppedNone DEF LInv
<1>6. NumbersOf(output') = NumbersOf(Handled')
  <2>1. NumbersOf(output) = NumbersOf(Handled) BY DEF LInv, NothingLost
  <2>2. NumbersOf(output') = NumbersOf(output) BY <1>2, <1>3, <1>5, NumbersAppend
  <2> QED BY <1>1, <2>1, <2>2
<1>7. NothingLost' BY <1>1, <1>4, <1>6 DEF NothingLost, Occurs, NumbersOf, is_number
<1> QED BY <1>5, <1>7 DEF LInv

LEMMA LostCloseParen == IInv /\ LInv /\ CloseParen => LInv'
<1> SUFFICES ASSUME IInv, LInv, CloseParen PROVE LInv' OBVIOUS
<1>0. Converting /\ phase = "convert" /\ c = ")" BY DEF CloseParen, Converting
<1>1. CASE Undefined BY <1>1 DEF Undefined, LInv, NothingLost
<1>2. CASE op_stack # <<>> /\ PopToOutput /\ StayAt BY <1>0, <1>2, LostPop
<1>3. CASE /\ op_stack # <<>> /\ top(op_stack) = "(" /\ op_stack' = Rest(op_stack)
           /\ UNCHANGED output /\ Consume
  <2>1. /\ Handled' = Append(Handled, c) /\ Handled \in Seq(Words) /\ c \in Words
        /\ phase' = "convert"
    BY <1>0, <1>3, HandledGrows
  <2>2. /\ op_stack = Append(Rest(op_stack), "(") /\ Rest(op_stack) \in Seq(Words)
        /\ "(" \in Words /\ op_stack \in Seq(Words) /\ output \in Seq(Words)
    <3>1. op_stack \in Seq(Words) /\ output \in Seq(Words) BY DEF IInv, TypeOK
    <3> QED BY <1>3, <3>1, RestOf
  <2>3. ASSUME NEW t \in Words \ {"(", ")"}
        PROVE  Occurs(t, output') + Occurs(t, op_stack') = Occurs(t, Handled')
    <3>1. Occurs(t, output) + Occurs(t, op_stack) = Occurs(t, Handled)
      BY <1>0 DEF LInv, NothingLost
    <3>2. /\ Occurs(t, op_stack) = Occurs(t, op_stack') + (IF "(" = t THEN 1 ELSE 0)
          /\ Occurs(t, op_stack') \in Nat
      <4>1. PICK r, s : r = op_stack' /\ s = op_stack OBVIOUS
      <4>2. s = Append(r, "(") /\ r \in Seq(Words) BY <1>3, <2>2, <4>1
      <4>3. Occurs(t, Append(r, "(")) = Occurs(t, r) + (IF "(" = t THEN 1 ELSE 0)
        BY <2>2, <4>2, OccursAppend
      <4>4. Occurs(t, r) \in Nat BY <2>2, <4>2, OccursAppend
      <4> QED BY <4>1, <4>2, <4>3, <4>4
    <3>3. /\ Occurs(t, Handled') = Occurs(t, Handled) + (IF ")" = t THEN 1 ELSE 0)
          /\ Occurs(t, Handled) \in Nat
      BY <1>0, <2>1, OccursAppend
    <3> QED BY <1>3, <3>1, <3>2, <3>3
  <2>4. NumbersOf(output') = NumbersOf(Handled')
    <3>1. NumbersOf(output) = NumbersOf(Handled) BY <1>0 DEF LInv, NothingLost
    <3>2. NumbersOf(Handled') = NumbersOf(Handled)
      BY <1>0, <2>1, NumbersAppend, ParensAreNoNumbers
    <3> QED BY <1>3, <3>1, <3>2
  <2>5. NoNumberWaits' BY <1>0, <1>3, <2>2, PoppedNone DEF LInv
  <2>6. NothingLost' BY <2>1, <2>3, <2>4 DEF NothingLost, Occurs, NumbersOf, is_number
  <2> QED BY <2>5, <2>6 DEF LInv
<1> QED BY <1>1, <1>2, <1>3 DEF CloseParen

LEMMA LostOperator == IInv /\ LInv /\ Operator => LInv'
<1> SUFFICES ASSUME IInv, LInv, Operator PROVE LInv' OBVIOUS
<1>0. Converting /\ phase = "convert" /\ ~is_number(c) BY DEF Operator, Converting
<1>1. CASE Yields /\ PopToOutput /\ StayAt BY <1>0, <1>1, LostPop DEF Yields
<1>2. CASE push(c) /\ UNCHANGED output /\ Consume BY <1>0, <1>2, LostPush
<1> QED BY <1>1, <1>2 DEF Operator

LEMMA LostOpenParen == IInv /\ LInv /\ OpenParen => LInv'
<1> SUFFICES ASSUME IInv, LInv, OpenParen PROVE LInv' OBVIOUS
<1>1. /\ Converting /\ c = "(" /\ push(c) /\ UNCHANGED output /\ Consume
  BY DEF OpenParen
<1> QED BY <1>1, LostPush, ParensAreNoNumbers

LEMMA LostFlush == IInv /\ LInv /\ Flush => LInv'
<1> SUFFICES ASSUME IInv, LInv, Flush PROVE LInv' OBVIOUS
<1>0. phase = "convert" /\ i = Len(tokens) /\ tokens \in Seq(Words)
  BY DEF Flush, IInv, TypeOK
<1>1. CASE ~Flushed /\ PopToOutput /\ StayAt BY <1>0, <1>1, LostPop DEF Flushed
<1>2. CASE /\ Flushed /\ phase' = "eval"
           /\ UNCHANGED <<tokens, op_stack, output, nums, result>>
  <2>1. Handled = tokens BY <1>0 DEF Handled
  <2>2. ASSUME NEW t \in Words \ {"(", ")"} PROVE Occurs(t, output') = Occurs(t, tokens')
    <3>1. Occurs(t, output) + Occurs(t, op_stack) = Occurs(t, tokens)
      BY <1>0, <2>1 DEF LInv, NothingLost
    <3>2. Occurs(t, op_stack) = 0
      <4>1. {k \in DOMAIN op_stack : op_stack[k] = t} = {} BY <1>2 DEF Flushed
      <4> QED BY <4>1, FS_EmptySet DEF Occurs
    <3>3. Occurs(t, output) \in Nat
      <4>1. output \in Seq(Words) BY DEF IInv, TypeOK
      <4> QED BY <4>1, OccursAppend
    <3> QED BY <1>2, <3>1, <3>2, <3>3
  <2>3. NumbersOf(output') = NumbersOf(tokens')
    BY <1>0, <1>2, <2>1 DEF LInv, NothingLost
  <2>4. NothingLost' BY <1>2, <2>2, <2>3 DEF NothingLost, Occurs, NumbersOf, is_number
  <2> QED BY <1>2, <2>4 DEF LInv
<1> QED BY <1>1, <1>2 DEF Flush

(* The steps of the evaluation leave the tokens and the output alone. *)
LEMMA LostEval ==
  ASSUME LInv, phase' # "convert", phase' = "eval" => phase = "eval",
         UNCHANGED <<tokens, output>>
  PROVE  LInv'
<1>1. NothingLost' BY DEF LInv, NothingLost, Occurs, NumbersOf, is_number
<1> QED BY <1>1 DEF LInv

LEMMA InitLInv == Init => LInv
<1> SUFFICES ASSUME Init PROVE LInv OBVIOUS
<1>1. output = <<>> /\ op_stack = <<>> /\ i = 0 /\ phase = "convert" BY DEF Init
<1>2. tokens \in Seq(Words) BY InitIInv DEF IInv, TypeOK
<1>3. Handled = <<>> BY <1>1, <1>2 DEF Handled
<1>4. \A t : Occurs(t, <<>>) = 0
  <2>1. \A t : {k \in DOMAIN <<>> : <<>>[k] = t} = {} OBVIOUS
  <2> QED BY <2>1, FS_EmptySet DEF Occurs
<1>5. NothingLost BY <1>1, <1>3, <1>4 DEF NothingLost
<1>6. NoNumberWaits BY <1>1 DEF NoNumberWaits
<1> QED BY <1>5, <1>6 DEF LInv

LEMMA NextLInv == IInv /\ LInv /\ [Next]_vars => LInv'
<1> SUFFICES ASSUME IInv, LInv, [Next]_vars PROVE LInv' OBVIOUS
<1>1. CASE PushNumber \/ Compute \/ Ignore
  <2>1. UNCHANGED <<tokens, output>> /\ phase' # "convert" /\ (phase' = "eval" => phase = "eval")
    BY <1>1 DEF PushNumber, Compute, Ignore, Evaluating, Target, Undefined
  <2> QED BY <2>1, LostEval
<1>2. CASE Return \/ Free
  <2>1. UNCHANGED <<tokens, output>> /\ phase' # "convert" /\ phase' # "eval"
    BY <1>2 DEF Return, Free, Undefined
  <2> QED BY <2>1, LostEval
<1>3. CASE UNCHANGED vars
  <2>1. UNCHANGED <<tokens, phase, i, op_stack, output>> BY <1>3 DEF vars
  <2>2. Handled' = Handled BY <2>1 DEF Handled
  <2>3. NothingLost' BY <2>1, <2>2 DEF LInv, NothingLost, Occurs, NumbersOf, is_number
  <2>4. NoNumberWaits <=> NoNumberWaits' BY <2>1 DEF NoNumberWaits, is_number
  <2> QED BY <2>1, <2>3, <2>4 DEF LInv
<1> QED BY <1>1, <1>2, <1>3, LostNumber, LostOpenParen, LostCloseParen, LostOperator, LostFlush
        DEF Next

(* The conversion to postfix is a rearrangement: each operator of the line *)
(* comes out once, each number once and in its place among the numbers     *)
(* (infix_to_postfix), for balanced lines and all others.                  *)
THEOREM ConversionKeepsTokens == Spec => []NothingLost
<1>1. Init => IInv /\ LInv BY InitIInv, InitLInv
<1>2. (IInv /\ LInv) /\ [Next]_vars => (IInv /\ LInv)' BY NextIInv, NextLInv
<1>3. IInv /\ LInv => NothingLost BY DEF LInv
<1> QED BY <1>1, <1>2, <1>3, PTL DEF Spec

-----------------------------------------------------------------------------
(***************************************************************************)
(* The grammar.  Its rules refer only to shorter expressions, so there is  *)
(* a function that obeys them.                                             *)
(***************************************************************************)
LEMMA StrongInduction ==
  ASSUME NEW G, \A n \in Nat : (\A m \in 0..n-1 : m \in G) => n \in G
  PROVE  Nat \subseteq G
<1> SUFFICES ASSUME Nat \ G # {} PROVE FALSE OBVIOUS
<1>1. PICK n \in Nat \ G : \A m \in Nat \ G : ~(<<m, n>> \in OpToRel(<, Nat))
  BY NatLessThanWellFounded, WFMin, Nat \ G \subseteq Nat
<1>2. PICK m \in 0..n-1 : m \notin G BY <1>1
<1>3. m \in Nat \ G /\ n \in Nat /\ m < n BY <1>2
<1>4. <<m, n>> \in OpToRel(<, Nat) BY <1>3 DEF OpToRel
<1> QED BY <1>1, <1>3, <1>4

IsLang(f) == f = [n \in Nat |-> Rules(f, n)]
Lang == CHOOSE f : IsLang(f)

LEMMA GrammarIs == Grammar = UNION {Lang[n].expr : n \in 1..MaxTokens}
BY Zenon DEF Grammar, Lang, IsLang

(* What the rules say of n tokens depends on the shorter ones only. *)
LEMMA RulesSame ==
  ASSUME NEW f, NEW g, NEW n \in Nat, \A m \in 0..n-1 : f[m] = g[m]
  PROVE  Rules(f, n) = Rules(g, n)
<1>1. ~(n < 3) => f[n-2] = g[n-2] OBVIOUS
<1>2. FactorsOf(f, n) = FactorsOf(g, n) BY <1>1, Zenon DEF FactorsOf
<1>3. \A k \in 1..n-2 : f[k] = g[k] /\ f[n-k-1] = g[n-k-1] OBVIOUS
<1>4. TermsOf(f, n) = TermsOf(g, n) BY <1>3, Zenon DEF TermsOf
<1>5. ExprsOf(f, n) = ExprsOf(g, n) BY <1>3, Zenon DEF ExprsOf
<1> QED BY <1>2, <1>4, <1>5, Zenon DEF Rules

LEMMA LangExists == IsLang(Lang)
<1> DEFINE Part(f, n) == f = [m \in 0..n |-> Rules(f, m)]
           G == {n \in Nat : \E f : Part(f, n)}
<1>1. ASSUME NEW n \in Nat, NEW f, NEW m \in Nat, NEW g, Part(f, n), Part(g, m)
      PROVE  \A k \in Nat : k <= n /\ k <= m => f[k] = g[k]
  <2> DEFINE H == {k \in Nat : k <= n /\ k <= m => f[k] = g[k]}
  <2>1. ASSUME NEW k \in Nat, \A j \in 0..k-1 : j \in H PROVE k \in H
    <3> SUFFICES ASSUME k <= n, k <= m PROVE f[k] = g[k] OBVIOUS
    <3>1. \A j \in 0..k-1 : f[j] = g[j] BY <2>1
    <3>2. Rules(f, k) = Rules(g, k) BY <3>1, RulesSame
    <3>3. k \in 0..n /\ k \in 0..m OBVIOUS
    <3>4. f[k] = Rules(f, k) BY <1>1, <3>3, Zenon
    <3>5. g[k] = Rules(g, k) BY <1>1, <3>3, Zenon
    <3> QED BY <3>2, <3>4, <3>5
  <2> HIDE DEF H
  <2>2. Nat \subseteq H BY <2>1, StrongInduction
  <2> QED BY <2>2 DEF H
<1> DEFINE F(n) == CHOOSE f : Part(f, n)
           h == [n \in Nat |-> F(n)[n]]
<1>2. ASSUME NEW n \in Nat, \A m \in 0..n-1 : m \in G PROVE n \in G
  <2> DEFINE g == [m \in 0..n |-> Rules(h, m)]
  <2>1. ASSUME NEW m \in 0..n-1 PROVE Part(F(m), m)
    BY <1>2, Zenon
  <2>2. ASSUME NEW m \in 0..n-1 PROVE h[m] = Rules(h, m)
    <3>1. m \in Nat /\ \A k \in 0..m-1 : k \in 0..n-1 /\ k <= m /\ k \in Nat OBVIOUS
    <3>2. h[m] = F(m)[m] BY <3>1
    <3> HIDE DEF F
    <3>3. \A k \in 0..m-1 : h[k] = F(m)[k]
      <4> SUFFICES ASSUME NEW k \in 0..m-1 PROVE h[k] = F(m)[k] OBVIOUS
      <4>1. k \in Nat /\ k \in 0..n-1 /\ k <= m BY <3>1
      <4>2. h[k] = F(k)[k] BY <4>1
      <4>3. Part(F(k), k) /\ Part(F(m), m) BY <2>1, <4>1
      <4>4. F(k)[k] = F(m)[k] BY <1>1, <3>1, <4>1, <4>3
      <4> QED BY <4>2, <4>4
    <3>4. Rules(h, m) = Rules(F(m), m)
      <4> HIDE DEF h
      <4> QED BY <3>1, <3>3, RulesSame
    <3>5. F(m)[m] = Rules(F(m), m)
      <4>1. Part(F(m), m) BY <2>1
      <4>2. m \in 0..m BY <3>1
      <4> QED BY <4>1, <4>2, Zenon
    <3> QED BY <3>2, <3>4, <3>5
  <2>3. ASSUME NEW m \in 0..n PROVE Rules(h, m) = Rules(g, m)
    <3>1. \A k \in 0..m-1 : k \in 0..n-1 /\ k \in 0..n /\ m \in Nat OBVIOUS
    <3>2. \A k \in 0..m-1 : h[k] = g[k] BY <2>2, <3>1
    <3> HIDE DEF h, g
    <3> QED BY <3>2, RulesSame, m \in Nat
  <2>4. g = [m \in 0..n |-> Rules(g, m)]
    <3>1. g = [m \in 0..n |-> g[m]] OBVIOUS
    <3>2. \A m \in 0..n : g[m] = Rules(h, m) OBVIOUS
    <3> HIDE DEF g
    <3> QED BY <2>3, <3>1, <3>2, Zenon
  <2> HIDE DEF g
  <2> QED BY <2>4
<1>3. Nat \subseteq G
  <2> HIDE DEF G
  <2> QED BY <1>2, StrongInduction
<1>4. ASSUME NEW n \in Nat PROVE h[n] = Rules(h, n)
  <2>1. \A k \in Nat : Part(F(k), k) BY <1>3, Zenon
  <2>2. h[n] = F(n)[n] OBVIOUS
  <2> HIDE DEF F
  <2>3. \A k \in 0..n-1 : h[k] = F(n)[k]
    <3> SUFFICES ASSUME NEW k \in 0..n-1 PROVE h[k] = F(n)[k] OBVIOUS
    <3>1. k \in Nat /\ k <= n OBVIOUS
    <3>2. F(k)[k] = F(n)[k] BY <1>1, <2>1, <3>1
    <3> QED BY <3>1, <3>2
  <2>4. Rules(h, n) = Rules(F(n), n)
    <3> HIDE DEF h
    <3> QED BY <2>3, RulesSame
  <2>5. F(n)[n] = Rules(F(n), n) BY <2>1, n \in 0..n, Zenon
  <2> QED BY <2>2, <2>4, <2>5
<1>5. IsLang(h)
  <2>1. h = [n \in Nat |-> h[n]] OBVIOUS
  <2> HIDE DEF h
  <2> QED BY <1>4, <2>1, Zenon DEF IsLang
<1> HIDE DEF h
<1> QED BY <1>5, Zenon DEF Lang

LEMMA LangRule ==
  ASSUME NEW n \in Nat
  PROVE  /\ Lang[n].factor = FactorsOf(Lang, n)
         /\ Lang[n].term = Lang[n].factor \union TermsOf(Lang, n)
         /\ Lang[n].expr = Lang[n].term \union ExprsOf(Lang, n)
<1>1. Lang = [m \in Nat |-> Rules(Lang, m)] BY LangExists DEF IsLang
<1>2. Lang[n] = Rules(Lang, n) BY <1>1, Zenon
<1> QED BY <1>2 DEF Rules

-----------------------------------------------------------------------------
Val == SUBSET Ints
Signs == Sums \union Products \union {"(", ")"}
Marks == DOMAIN Atoi \union Signs

LEMMA AnswerFits ==
  ASSUME NEW op \in Sums \union Products, NEW V \in Val, NEW W \in Val
  PROVE  Answer(op, V, W) \in Val
<1> SUFFICES ASSUME NEW v \in V, NEW w \in W, ~Traps(op, v, w)
             PROVE  Apply(op, v, w) \in Ints
  BY DEF Answer, Val
<1>1. v \in Ints /\ w \in Ints /\ op \in Arithmetic
  BY DEF Val, Sums, Products, Arithmetic
<1> QED BY <1>1, ApplyFits

(* What is in the language has its length, and a value. *)
IsPhrase(e, n) == e.toks \in Seq(Marks) /\ Len(e.toks) = n /\ e.val \in Val

LEMMA JoinedOf ==
  ASSUME NEW Left, NEW Right, NEW ops \in SUBSET (Sums \union Products), NEW e,
         NEW k \in Nat, NEW m \in Nat,
         \A l \in Left : IsPhrase(l, k), \A r \in Right : IsPhrase(r, m),
         e \in Joined(Left, Right, ops)
  PROVE  IsPhrase(e, k + m + 1)
<1>1. PICK l \in Left, r \in Right, op \in ops :
        e = Combined(l, op, r)
  BY DEF Joined
<1>2. IsPhrase(l, k) /\ IsPhrase(r, m) OBVIOUS
<1>3. op \in Sums \union Products /\ op \in Marks BY DEF Marks, Signs
<1>4. e.val \in Val BY <1>1, <1>2, <1>3, AnswerFits DEF IsPhrase, Combined
<1>5. PICK s, t : s = l.toks /\ t = r.toks OBVIOUS
<1>6. s \in Seq(Marks) /\ t \in Seq(Marks) /\ Len(s) = k /\ Len(t) = m
  BY <1>2, <1>5 DEF IsPhrase
<1>7. s \o <<op>> \o t \in Seq(Marks) /\ Len(s \o <<op>> \o t) = k + m + 1
  BY <1>3, <1>6
<1> QED BY <1>1, <1>4, <1>5, <1>7 DEF IsPhrase, Combined

LEMMA Phrases == \A n \in Nat : \A e \in Lang[n].expr : IsPhrase(e, n)
<1> DEFINE G == {n \in Nat : \A e \in Lang[n].expr : IsPhrase(e, n)}
<1>1. ASSUME NEW n \in Nat, \A m \in 0..n-1 : m \in G PROVE n \in G
  <2>1. ASSUME NEW m \in 0..n-1
        PROVE  /\ \A e \in Lang[m].expr : IsPhrase(e, m)
               /\ \A e \in Lang[m].term : IsPhrase(e, m)
               /\ \A e \in Lang[m].factor : IsPhrase(e, m)
    <3>1. \A e \in Lang[m].expr : IsPhrase(e, m) BY <1>1
    <3>2. m \in Nat OBVIOUS
    <3> QED BY <3>1, <3>2, LangRule
  <2>2. ASSUME NEW e \in FactorsOf(Lang, n) PROVE IsPhrase(e, n)
    <3>1. CASE n = 1
      <4>1. PICK t \in DOMAIN Atoi : e = [toks |-> <<t>>, val |-> {Atoi[t]}]
        BY <2>2, <3>1 DEF FactorsOf
      <4>2. {Atoi[t]} \in Val BY CalculatorAssumption DEF Val
      <4>3. <<t>> \in Seq(Marks) /\ Len(<<t>>) = 1 BY DEF Marks
      <4> QED BY <3>1, <4>1, <4>2, <4>3 DEF IsPhrase
    <3>2. CASE n # 1
      <4>1. ~(n < 3) /\ n - 2 \in 0..n-1 /\ n - 2 \in Nat BY <2>2, <3>2 DEF FactorsOf
      <4>2. PICK x \in Lang[n-2].expr : e = [toks |-> <<"(">> \o x.toks \o <<")">>, val |-> x.val]
        BY <2>2, <3>2, <4>1 DEF FactorsOf
      <4>3. IsPhrase(x, n - 2) BY <2>1, <4>1
      <4>4. PICK s : s = x.toks OBVIOUS
      <4>5. s \in Seq(Marks) /\ Len(s) = n - 2 BY <4>3, <4>4 DEF IsPhrase
      <4>6. "(" \in Marks /\ ")" \in Marks BY DEF Marks, Signs
      <4>7. <<"(">> \o s \o <<")">> \in Seq(Marks) /\ Len(<<"(">> \o s \o <<")">>) = n
        BY <4>1, <4>5, <4>6
      <4> QED BY <4>2, <4>3, <4>4, <4>7 DEF IsPhrase
    <3> QED BY <3>1, <3>2
  <2>3. ASSUME NEW e \in TermsOf(Lang, n) PROVE IsPhrase(e, n)
    <3>1. PICK k \in 1..n-2 : e \in Joined(Lang[k].term, Lang[n-k-1].factor, Products)
      BY DEF TermsOf
    <3>2. /\ k \in 0..n-1 /\ n-k-1 \in 0..n-1 /\ k \in Nat /\ n-k-1 \in Nat
          /\ k + (n-k-1) + 1 = n
      OBVIOUS
    <3> QED BY <2>1, <3>1, <3>2, JoinedOf
  <2>4. ASSUME NEW e \in ExprsOf(Lang, n) PROVE IsPhrase(e, n)
    <3>1. PICK k \in 1..n-2 : e \in Joined(Lang[k].expr, Lang[n-k-1].term, Sums)
      BY DEF ExprsOf
    <3>2. /\ k \in 0..n-1 /\ n-k-1 \in 0..n-1 /\ k \in Nat /\ n-k-1 \in Nat
          /\ k + (n-k-1) + 1 = n
      OBVIOUS
    <3> QED BY <2>1, <3>1, <3>2, JoinedOf
  <2> QED BY <2>2, <2>3, <2>4, LangRule
<1> HIDE DEF G
<1>2. Nat \subseteq G BY <1>1, StrongInduction
<1> QED BY <1>2 DEF G

-----------------------------------------------------------------------------
(***************************************************************************)
(* Expressions in a line s: the tokens p to r make one, of this value.     *)
(***************************************************************************)
Span(s, p, r, v) == p \in 1..Len(s) /\ r \in p..Len(s) /\ v \in Val

FactorAt(s, p, r, v) ==
  Span(s, p, r, v) /\ \E e \in Lang[r-p+1].factor : e.toks = SubSeq(s, p, r) /\ e.val = v
TermAt(s, p, r, v) ==
  Span(s, p, r, v) /\ \E e \in Lang[r-p+1].term : e.toks = SubSeq(s, p, r) /\ e.val = v
ExprAt(s, p, r, v) ==
  Span(s, p, r, v) /\ \E e \in Lang[r-p+1].expr : e.toks = SubSeq(s, p, r) /\ e.val = v

LEMMA SubAt ==
  ASSUME NEW S, NEW s \in Seq(S), NEW p \in 1..Len(s), NEW r \in 0..Len(s), p <= r + 1
  PROVE  /\ SubSeq(s, p, r) \in Seq(S) /\ Len(SubSeq(s, p, r)) = r - p + 1
         /\ \A k \in 1..r-p+1 : SubSeq(s, p, r)[k] = s[p + k - 1]
OBVIOUS

LEMMA SameSeq ==
  ASSUME NEW S, NEW T, NEW s \in Seq(S), NEW t \in Seq(T), Len(s) = Len(t),
         \A k \in 1..Len(s) : s[k] = t[k]
  PROVE  s = t
OBVIOUS

(* A piece made of two with a sign between them, and one in parentheses. *)
Tied(a, op, b) == a \o <<op>> \o b
Enclosed(a)    == <<"(">> \o a \o <<")">>

(* w is the piece of s from p to r; w is made of the two, or of the one. *)
IsPiece(w, s, p, r) == Len(w) = r - p + 1 /\ \A k \in 1..r-p+1 : w[k] = s[p + k - 1]

IsTied(w, a, op, b) ==
  /\ Len(a) \in Nat /\ Len(b) \in Nat /\ Len(w) = Len(a) + Len(b) + 1
  /\ \A k \in 1..Len(a) : w[k] = a[k]
  /\ w[Len(a) + 1] = op
  /\ \A k \in 1..Len(b) : w[Len(a) + 1 + k] = b[k]

IsEnclosed(w, a) ==
  /\ Len(a) \in Nat /\ Len(w) = Len(a) + 2
  /\ w[1] = "(" /\ w[Len(a) + 2] = ")"
  /\ \A k \in 1..Len(a) : w[1 + k] = a[k]

LEMMA TiedIs ==
  ASSUME NEW a \in Seq(Marks), NEW b \in Seq(Marks), NEW op \in Marks
  PROVE  IsTied(Tied(a, op, b), a, op, b)
BY DEF Tied, IsTied

LEMMA EnclosedIs ==
  ASSUME NEW a \in Seq(Marks), "(" \in Marks, ")" \in Marks
  PROVE  IsEnclosed(Enclosed(a), a)
BY DEF Enclosed, IsEnclosed

LEMMA PieceIs ==
  ASSUME NEW s \in Seq(Words), NEW p \in 1..Len(s), NEW r \in 0..Len(s), p <= r + 1,
         NEW a \in Seq(Marks), IsPiece(a, s, p, r)
  PROVE  a = SubSeq(s, p, r)
<1>1. PICK t : t = SubSeq(s, p, r) OBVIOUS
<1>2. t \in Seq(Words) /\ Len(t) = Len(a) /\ \A k \in 1..Len(a) : a[k] = t[k]
  BY <1>1, SubAt DEF IsPiece
<1> QED BY <1>1, <1>2, SameSeq

LEMMA SignIn ==
  ASSUME NEW s, NEW w, NEW a, NEW b, NEW op, Len(s) \in Nat,
         NEW p \in Nat, NEW r \in Nat, p >= 1, r <= Len(s),
         IsPiece(w, s, p, r), IsTied(w, a, op, b), Len(a) >= 1, Len(b) >= 1
  PROVE  \E q \in p..r-2 :
           /\ s[q + 1] = op /\ IsPiece(a, s, p, q) /\ IsPiece(b, s, q + 2, r)
           /\ q - p + 1 = Len(a) /\ r - (q + 2) + 1 = Len(b)
           /\ p <= q + 1 /\ q \in 0..Len(s)
           /\ q + 2 <= r + 1 /\ q + 2 \in 1..Len(s) /\ r \in 0..Len(s)
<1> DEFINE q == p + Len(a) - 1
<1>1. /\ Len(a) \in Nat /\ Len(b) \in Nat /\ Len(w) = Len(a) + Len(b) + 1
      /\ \A k \in 1..Len(a) : w[k] = a[k]
      /\ w[Len(a) + 1] = op
      /\ \A k \in 1..Len(b) : w[Len(a) + 1 + k] = b[k]
  BY DEF IsTied
<1>2. Len(w) = r - p + 1 /\ \A k \in 1..r-p+1 : w[k] = s[p + k - 1]
  BY DEF IsPiece
<1>3. /\ q \in p..r-2 /\ q - p + 1 = Len(a) /\ r - (q + 2) + 1 = Len(b)
      /\ p <= q + 1 /\ q \in 0..Len(s)
      /\ q + 2 <= r + 1 /\ q + 2 \in 1..Len(s) /\ r \in 0..Len(s)
  <2>1. Len(a) \in Nat /\ Len(b) \in Nat /\ Len(a) + Len(b) + 1 = r - p + 1 BY <1>1, <1>2
  <2> QED BY <2>1
<1>4. s[q + 1] = op
  <2>1. Len(a) + 1 \in 1..r-p+1 /\ p + (Len(a) + 1) - 1 = q + 1 BY <1>1, <1>2
  <2> QED BY <1>1, <1>2, <2>1
<1>5. IsPiece(a, s, p, q)
  <2>1. ASSUME NEW k \in 1..Len(a) PROVE a[k] = s[p + k - 1]
    <3>1. k \in 1..r-p+1 BY <1>1, <1>2
    <3> QED BY <1>1, <1>2, <3>1
  <2> QED BY <1>3, <2>1 DEF IsPiece
<1>6. IsPiece(b, s, q + 2, r)
  <2>1. ASSUME NEW k \in 1..Len(b) PROVE b[k] = s[(q + 2) + k - 1]
    <3>1. Len(a) + 1 + k \in 1..r-p+1 BY <1>1, <1>2
    <3>2. p + (Len(a) + 1 + k) - 1 = (q + 2) + k - 1 BY <1>1
    <3> QED BY <1>1, <1>2, <3>1, <3>2
  <2> QED BY <1>3, <2>1 DEF IsPiece
<1> QED BY <1>3, <1>4, <1>5, <1>6

CutIn(s, p, r, a, op, b) ==
  \E q \in p..r-2 : /\ s[q + 1] = op /\ a = SubSeq(s, p, q) /\ b = SubSeq(s, q + 2, r)
                    /\ q - p + 1 = Len(a) /\ r - (q + 2) + 1 = Len(b)

LEMMA CutAtSign ==
  ASSUME NEW s \in Seq(Words), NEW p \in 1..Len(s), NEW r \in p..Len(s),
         NEW a \in Seq(Marks), NEW b \in Seq(Marks), NEW op \in Marks,
         IsPiece(Tied(a, op, b), s, p, r), Len(a) >= 1, Len(b) >= 1
  PROVE  CutIn(s, p, r, a, op, b)
<1>1. IsTied(Tied(a, op, b), a, op, b) BY TiedIs
<1>2. Len(s) \in Nat /\ p \in Nat /\ r \in Nat /\ p >= 1 /\ r <= Len(s) OBVIOUS
<1>3. PICK q \in p..r-2 :
           /\ s[q + 1] = op /\ IsPiece(a, s, p, q) /\ IsPiece(b, s, q + 2, r)
           /\ q - p + 1 = Len(a) /\ r - (q + 2) + 1 = Len(b)
           /\ p <= q + 1 /\ q \in 0..Len(s)
           /\ q + 2 <= r + 1 /\ q + 2 \in 1..Len(s) /\ r \in 0..Len(s)
  BY <1>1, <1>2, SignIn
<1>4. a = SubSeq(s, p, q) BY <1>3, PieceIs
<1>5. b = SubSeq(s, q + 2, r) BY <1>3, PieceIs
<1> QED BY <1>3, <1>4, <1>5 DEF CutIn

LEMMA ParensIn ==
  ASSUME NEW s, NEW w, NEW a, Len(s) \in Nat,
         NEW p \in Nat, NEW r \in Nat, p >= 1, r <= Len(s),
         IsPiece(w, s, p, r), IsEnclosed(w, a), Len(a) >= 1
  PROVE  /\ s[p] = "(" /\ s[r] = ")" /\ IsPiece(a, s, p + 1, r - 1)
         /\ p + 1 <= r - 1 /\ (r - 1) - (p + 1) + 1 = Len(a)
         /\ p + 1 <= (r - 1) + 1 /\ p + 1 \in 1..Len(s) /\ r - 1 \in 0..Len(s)
<1>1. /\ Len(a) \in Nat /\ Len(w) = Len(a) + 2
      /\ w[1] = "(" /\ w[Len(a) + 2] = ")"
      /\ \A k \in 1..Len(a) : w[1 + k] = a[k]
  BY DEF IsEnclosed
<1>2. Len(w) = r - p + 1 /\ \A k \in 1..r-p+1 : w[k] = s[p + k - 1]
  BY DEF IsPiece
<1>3. /\ p + 1 <= r - 1 /\ (r - 1) - (p + 1) + 1 = Len(a) /\ r - p + 1 = Len(a) + 2
      /\ p + 1 <= (r - 1) + 1 /\ p + 1 \in 1..Len(s) /\ r - 1 \in 0..Len(s)
  BY <1>1, <1>2
<1>4. s[p] = "(" /\ s[r] = ")"
  <2>1. 1 \in 1..r-p+1 /\ Len(a) + 2 \in 1..r-p+1 BY <1>1, <1>3
  <2>2. p + 1 - 1 = p /\ p + (Len(a) + 2) - 1 = r BY <1>3, <1>1
  <2> QED BY <1>1, <1>2, <2>1, <2>2
<1>5. IsPiece(a, s, p + 1, r - 1)
  <2>1. ASSUME NEW k \in 1..Len(a) PROVE a[k] = s[(p + 1) + k - 1]
    <3>1. 1 + k \in 1..r-p+1 /\ p + (1 + k) - 1 = (p + 1) + k - 1 BY <1>1, <1>3
    <3> QED BY <1>1, <1>2, <3>1
  <2> QED BY <1>3, <2>1 DEF IsPiece
<1> QED BY <1>3, <1>4, <1>5

LEMMA CutAtParens ==
  ASSUME NEW s \in Seq(Words), NEW p \in 1..Len(s), NEW r \in p..Len(s),
         NEW a \in Seq(Marks), IsPiece(Enclosed(a), s, p, r), Len(a) >= 1
  PROVE  /\ s[p] = "(" /\ s[r] = ")" /\ p + 1 <= r - 1
         /\ a = SubSeq(s, p + 1, r - 1) /\ (r - 1) - (p + 1) + 1 = Len(a)
<1>1. IsEnclosed(Enclosed(a), a) BY EnclosedIs DEF Marks, Signs
<1>2. Len(s) \in Nat /\ p \in Nat /\ r \in Nat /\ p >= 1 /\ r <= Len(s) OBVIOUS
<1>3. /\ s[p] = "(" /\ s[r] = ")" /\ IsPiece(a, s, p + 1, r - 1)
      /\ p + 1 <= r - 1 /\ (r - 1) - (p + 1) + 1 = Len(a)
      /\ p + 1 <= (r - 1) + 1 /\ p + 1 \in 1..Len(s) /\ r - 1 \in 0..Len(s)
  BY <1>1, <1>2, ParensIn
<1>4. a = SubSeq(s, p + 1, r - 1) BY <1>3, PieceIs
<1> QED BY <1>3, <1>4

LEMMA WholePiece ==
  ASSUME NEW s \in Seq(Words), NEW p \in 1..Len(s), NEW r \in p..Len(s),
         NEW w, w = SubSeq(s, p, r)
  PROVE  IsPiece(w, s, p, r)
<1>1. r \in 0..Len(s) /\ p <= r + 1 OBVIOUS
<1> QED BY <1>1, SubAt DEF IsPiece

LEMMA Parts ==
  ASSUME NEW n \in Nat
  PROVE  /\ \A e \in Lang[n].expr : IsPhrase(e, n)
         /\ \A e \in Lang[n].term : IsPhrase(e, n) /\ e \in Lang[n].expr
         /\ \A e \in Lang[n].factor : IsPhrase(e, n) /\ e \in Lang[n].term
BY Phrases, LangRule

LEMMA BehindSign ==
  \A n \in Nat : \A p \in 1..n : \A r \in p..n : \A q \in p..r-2 :
    q \in p..n /\ q + 2 \in 1..n /\ r \in q+2..n
OBVIOUS

LEMMA FactorParts ==
  ASSUME NEW s \in Seq(Words), NEW p, NEW r, NEW v, FactorAt(s, p, r, v)
  PROVE  \/ r = p /\ s[p] \in DOMAIN Atoi /\ v = {Atoi[s[p]]}
         \/ s[p] = "(" /\ s[r] = ")" /\ ExprAt(s, p + 1, r - 1, v)
<1> DEFINE n == r - p + 1
<1>0. p \in 1..Len(s) /\ r \in p..Len(s) /\ v \in Val /\ n \in Nat /\ n >= 1
  BY DEF FactorAt, Span
<1>1. PICK e \in Lang[n].factor : e.toks = SubSeq(s, p, r) /\ e.val = v
  BY DEF FactorAt
<1>2. e \in FactorsOf(Lang, n) BY <1>0, <1>1, LangRule
<1>3. CASE n = 1
  <2>1. PICK t \in DOMAIN Atoi : e = [toks |-> <<t>>, val |-> {Atoi[t]}]
    BY <1>2, <1>3 DEF FactorsOf
  <2>2. r = p BY <1>0, <1>3
  <2>3. SubSeq(s, p, p)[1] = s[p] BY <1>0
  <2>4. <<t>>[1] = s[p] BY <1>1, <2>1, <2>2, <2>3
  <2>5. t = s[p] BY <2>4
  <2> QED BY <1>1, <2>1, <2>2, <2>5
<1>4. CASE n # 1
  <2>1. ~(n < 3) /\ n - 2 \in Nat /\ n - 2 >= 1 BY <1>2, <1>4, <1>0 DEF FactorsOf
  <2>2. PICK x \in Lang[n-2].expr : e = [toks |-> <<"(">> \o x.toks \o <<")">>, val |-> x.val]
    BY <1>2, <1>4, <2>1 DEF FactorsOf
  <2>3. IsPhrase(x, n - 2) BY <2>1, Parts
  <2>4. PICK a : a = x.toks OBVIOUS
  <2>5. a \in Seq(Marks) /\ Len(a) = n - 2 /\ "(" \in Marks /\ ")" \in Marks
    BY <2>3, <2>4 DEF IsPhrase, Marks, Signs
  <2>6. IsPiece(Enclosed(a), s, p, r) /\ v = x.val
    <3>1. e.toks = Enclosed(a) /\ v = x.val BY <1>1, <2>2, <2>4 DEF Enclosed
    <3> QED BY <1>0, <1>1, <3>1, WholePiece
  <2>7. /\ s[p] = "(" /\ s[r] = ")" /\ p + 1 <= r - 1
        /\ a = SubSeq(s, p + 1, r - 1) /\ (r - 1) - (p + 1) + 1 = Len(a)
    BY <1>0, <2>1, <2>5, <2>6, CutAtParens
  <2>8. Span(s, p + 1, r - 1, v) BY <1>0, <2>7 DEF Span
  <2>9. x \in Lang[(r - 1) - (p + 1) + 1].expr BY <2>2, <2>5, <2>7
  <2> QED BY <2>4, <2>6, <2>7, <2>8, <2>9 DEF ExprAt
<1> QED BY <1>3, <1>4

LEMMA TermParts ==
  ASSUME NEW s \in Seq(Words), NEW p, NEW r, NEW v, TermAt(s, p, r, v)
  PROVE  \/ FactorAt(s, p, r, v)
         \/ \E q \in p..r-2, op \in Products, x \in Val, y \in Val :
              /\ TermAt(s, p, q, x) /\ s[q + 1] = op /\ FactorAt(s, q + 2, r, y)
              /\ v = Answer(op, x, y)
<1> DEFINE n == r - p + 1
<1>0. p \in 1..Len(s) /\ r \in p..Len(s) /\ v \in Val /\ n \in Nat /\ n >= 1
  BY DEF TermAt, Span
<1>1. PICK e \in Lang[n].term : e.toks = SubSeq(s, p, r) /\ e.val = v
  BY DEF TermAt
<1>2. e \in Lang[n].factor \/ e \in TermsOf(Lang, n) BY <1>0, LangRule
<1>3. CASE e \in Lang[n].factor
  <2>1. Span(s, p, r, v) BY DEF TermAt
  <2> QED BY <1>1, <1>3, <2>1 DEF FactorAt
<1>4. CASE e \in TermsOf(Lang, n)
  <2>1. PICK k \in 1..n-2 : e \in Joined(Lang[k].term, Lang[n-k-1].factor, Products)
    BY <1>4 DEF TermsOf
  <2>2. PICK l \in Lang[k].term, f \in Lang[n-k-1].factor, op \in Products :
          e = Combined(l, op, f)
    BY <2>1 DEF Joined
  <2>3. k \in Nat /\ n-k-1 \in Nat /\ n-k-1 >= 1 /\ k >= 1 BY <1>0
  <2>4. IsPhrase(l, k) /\ IsPhrase(f, n-k-1) BY <2>3, Parts
  <2>5. PICK a, b : a = l.toks /\ b = f.toks OBVIOUS
  <2>6. a \in Seq(Marks) /\ b \in Seq(Marks) /\ Len(a) = k /\ Len(b) = n-k-1 /\ op \in Marks
    BY <2>4, <2>5 DEF IsPhrase, Marks, Signs
  <2>7. IsPiece(Tied(a, op, b), s, p, r) /\ v = Answer(op, l.val, f.val)
    <3>1. e.toks = Tied(a, op, b) /\ v = Answer(op, l.val, f.val)
      BY <1>1, <2>2, <2>5 DEF Combined, Tied
    <3> QED BY <1>0, <1>1, <3>1, WholePiece
  <2>9. PICK q \in p..r-2 :
          /\ s[q + 1] = op /\ a = SubSeq(s, p, q) /\ b = SubSeq(s, q + 2, r)
          /\ q - p + 1 = Len(a) /\ r - (q + 2) + 1 = Len(b)
    <3>1. Len(a) >= 1 /\ Len(b) >= 1 BY <2>3, <2>6
    <3>2. CutIn(s, p, r, a, op, b) BY <1>0, <2>6, <2>7, <3>1, CutAtSign, Zenon
    <3> QED BY <3>2 DEF CutIn
  <2>10. l.val \in Val /\ f.val \in Val BY <2>4 DEF IsPhrase
  <2>11. TermAt(s, p, q, l.val)
    <3>1. Span(s, p, q, l.val)
      <4>1. q \in p..Len(s) BY <1>0, <2>9, BehindSign, Len(s) \in Nat
      <4> QED BY <1>0, <2>10, <4>1 DEF Span
    <3>2. l \in Lang[q-p+1].term BY <2>6, <2>9
    <3> QED BY <2>5, <2>9, <3>1, <3>2 DEF TermAt
  <2>12. FactorAt(s, q + 2, r, f.val)
    <3>1. Span(s, q + 2, r, f.val)
      <4>1. q + 2 \in 1..Len(s) /\ r \in q+2..Len(s) BY <1>0, <2>9, BehindSign, Len(s) \in Nat
      <4> QED BY <2>10, <4>1 DEF Span
    <3>2. f \in Lang[r-(q+2)+1].factor BY <2>6, <2>9
    <3> QED BY <2>5, <2>9, <3>1, <3>2 DEF FactorAt
  <2> QED BY <2>7, <2>9, <2>10, <2>11, <2>12
<1> QED BY <1>2, <1>3, <1>4

LEMMA ExprParts ==
  ASSUME NEW s \in Seq(Words), NEW p, NEW r, NEW v, ExprAt(s, p, r, v)
  PROVE  \/ TermAt(s, p, r, v)
         \/ \E q \in p..r-2, op \in Sums, x \in Val, y \in Val :
              /\ ExprAt(s, p, q, x) /\ s[q + 1] = op /\ TermAt(s, q + 2, r, y)
              /\ v = Answer(op, x, y)
<1> DEFINE n == r - p + 1
<1>0. p \in 1..Len(s) /\ r \in p..Len(s) /\ v \in Val /\ n \in Nat /\ n >= 1
  BY DEF ExprAt, Span
<1>1. PICK e \in Lang[n].expr : e.toks = SubSeq(s, p, r) /\ e.val = v
  BY DEF ExprAt
<1>2. e \in Lang[n].term \/ e \in ExprsOf(Lang, n) BY <1>0, LangRule
<1>3. CASE e \in Lang[n].term
  <2>1. Span(s, p, r, v) BY DEF ExprAt
  <2> QED BY <1>1, <1>3, <2>1 DEF TermAt
<1>4. CASE e \in ExprsOf(Lang, n)
  <2>1. PICK k \in 1..n-2 : e \in Joined(Lang[k].expr, Lang[n-k-1].term, Sums)
    BY <1>4 DEF ExprsOf
  <2>2. PICK l \in Lang[k].expr, f \in Lang[n-k-1].term, op \in Sums :
          e = Combined(l, op, f)
    BY <2>1 DEF Joined
  <2>3. k \in Nat /\ n-k-1 \in Nat /\ n-k-1 >= 1 /\ k >= 1 BY <1>0
  <2>4. IsPhrase(l, k) /\ IsPhrase(f, n-k-1) BY <2>3, Parts
  <2>5. PICK a, b : a = l.toks /\ b = f.toks OBVIOUS
  <2>6. a \in Seq(Marks) /\ b \in Seq(Marks) /\ Len(a) = k /\ Len(b) = n-k-1 /\ op \in Marks
    BY <2>4, <2>5 DEF IsPhrase, Marks, Signs
  <2>7. IsPiece(Tied(a, op, b), s, p, r) /\ v = Answer(op, l.val, f.val)
    <3>1. e.toks = Tied(a, op, b) /\ v = Answer(op, l.val, f.val)
      BY <1>1, <2>2, <2>5 DEF Combined, Tied
    <3> QED BY <1>0, <1>1, <3>1, WholePiece
  <2>9. PICK q \in p..r-2 :
          /\ s[q + 1] = op /\ a = SubSeq(s, p, q) /\ b = SubSeq(s, q + 2, r)
          /\ q - p + 1 = Len(a) /\ r - (q + 2) + 1 = Len(b)
    <3>1. Len(a) >= 1 /\ Len(b) >= 1 BY <2>3, <2>6
    <3>2. CutIn(s, p, r, a, op, b) BY <1>0, <2>6, <2>7, <3>1, CutAtSign, Zenon
    <3> QED BY <3>2 DEF CutIn
  <2>10. l.val \in Val /\ f.val \in Val BY <2>4 DEF IsPhrase
  <2>11. ExprAt(s, p, q, l.val)
    <3>1. Span(s, p, q, l.val)
      <4>1. q \in p..Len(s) BY <1>0, <2>9, BehindSign, Len(s) \in Nat
      <4> QED BY <1>0, <2>10, <4>1 DEF Span
    <3>2. l \in Lang[q-p+1].expr BY <2>6, <2>9
    <3> QED BY <2>5, <2>9, <3>1, <3>2 DEF ExprAt
  <2>12. TermAt(s, q + 2, r, f.val)
    <3>1. Span(s, q + 2, r, f.val)
      <4>1. q + 2 \in 1..Len(s) /\ r \in q+2..Len(s) BY <1>0, <2>9, BehindSign, Len(s) \in Nat
      <4> QED BY <2>10, <4>1 DEF Span
    <3>2. f \in Lang[r-(q+2)+1].term BY <2>6, <2>9
    <3> QED BY <2>5, <2>9, <3>1, <3>2 DEF TermAt
  <2> QED BY <2>7, <2>9, <2>10, <2>11, <2>12
<1> QED BY <1>2, <1>3, <1>4

-----------------------------------------------------------------------------
(***************************************************************************)
(* Reading on from a place.  <<q, x>>: q tokens are read, and what is being*)
(* read has the value x so far.  Reach: the places from which steps lead to*)
(* one of B.                                                               *)
(***************************************************************************)
Places(s) == (0..Len(s)) \X Val

MulStep(s, a, b) ==
  \E op \in Products, y \in Val :
    /\ a[1] < Len(s) /\ s[a[1] + 1] = op /\ FactorAt(s, a[1] + 2, b[1], y)
    /\ b[2] = Answer(op, a[2], y)
AddStep(s, a, b) ==
  \E op \in Sums, y \in Val :
    /\ a[1] < Len(s) /\ s[a[1] + 1] = op /\ TermAt(s, a[1] + 2, b[1], y)
    /\ b[2] = Answer(op, a[2], y)

Muls(s) == {d \in Places(s) \X Places(s) : MulStep(s, d[1], d[2])}
Adds(s) == {d \in Places(s) \X Places(s) : AddStep(s, d[1], d[2])}

Closed(steps, S) == \A d \in steps : d[2] \in S => d[1] \in S
Reach(s, steps, B) ==
  {a \in Places(s) : \A S \in SUBSET Places(s) : B \subseteq S /\ Closed(steps, S) => a \in S}

LEMMA ReachBase ==
  ASSUME NEW s, NEW steps, NEW B \in SUBSET Places(s)
  PROVE  B \subseteq Reach(s, steps, B) /\ Reach(s, steps, B) \in SUBSET Places(s)
BY DEF Reach

LEMMA ReachStep ==
  ASSUME NEW s, NEW steps \in SUBSET (Places(s) \X Places(s)), NEW B,
         NEW d \in steps, d[2] \in Reach(s, steps, B)
  PROVE  d[1] \in Reach(s, steps, B)
<1>1. d[1] \in Places(s) OBVIOUS
<1>2. ASSUME NEW S \in SUBSET Places(s), B \subseteq S, Closed(steps, S) PROVE d[1] \in S
  <2>1. d[2] \in S BY <1>2 DEF Reach
  <2> QED BY <1>2, <2>1 DEF Closed
<1> QED BY <1>1, <1>2 DEF Reach

LEMMA ReachOpen ==
  ASSUME NEW s, NEW steps \in SUBSET (Places(s) \X Places(s)), NEW B \in SUBSET Places(s),
         NEW a \in Reach(s, steps, B)
  PROVE  a \in B \/ \E d \in steps : d[1] = a /\ d[2] \in Reach(s, steps, B)
<1> DEFINE R == Reach(s, steps, B)
           S == {x \in R : x \in B \/ \E d \in steps : d[1] = x /\ d[2] \in R}
<1>1. S \in SUBSET Places(s) BY ReachBase
<1>2. B \subseteq S BY ReachBase
<1>3. ASSUME NEW d \in steps, d[2] \in S PROVE d[1] \in S
  <2>1. d[2] \in R BY <1>3
  <2>2. d[1] \in R BY <2>1, ReachStep
  <2> QED BY <2>1, <2>2
<1>4. Closed(steps, S)
  <2> HIDE DEF S
  <2> QED BY <1>3 DEF Closed
<1>5. a \in S
  <2> HIDE DEF S
  <2> QED BY <1>1, <1>2, <1>4 DEF Reach
<1> QED BY <1>5

LEMMA ReachFrom ==
  ASSUME NEW s, NEW steps \in SUBSET (Places(s) \X Places(s)), NEW B \in SUBSET Places(s),
         NEW b \in Reach(s, steps, B), NEW a \in Reach(s, steps, {b})
  PROVE  a \in Reach(s, steps, B)
<1> DEFINE R == Reach(s, steps, B)
<1>1. R \in SUBSET Places(s) /\ {b} \subseteq R BY ReachBase
<1>2. Closed(steps, R) BY ReachStep DEF Closed
<1> HIDE DEF R
<1>3. a \in R BY <1>1, <1>2 DEF Reach
<1> QED BY <1>3 DEF R

-----------------------------------------------------------------------------
(* A term is a factor and what its value grows to, an expression a term... *)
LEMMA StepsAre ==
  ASSUME NEW s \in Seq(Words)
  PROVE  Muls(s) \in SUBSET (Places(s) \X Places(s)) /\ Adds(s) \in SUBSET (Places(s) \X Places(s))
BY DEF Muls, Adds

LEMMA FirstFactor ==
  ASSUME NEW s \in Seq(Words)
  PROVE  \A r \in Nat : \A p, v : TermAt(s, p, r, v) =>
           \E q \in p..r, x \in Val :
             FactorAt(s, p, q, x) /\ <<q, x>> \in Reach(s, Muls(s), {<<r, v>>})
<1> DEFINE Right(p, r, v) ==
             \E q \in p..r, x \in Val :
               FactorAt(s, p, q, x) /\ <<q, x>> \in Reach(s, Muls(s), {<<r, v>>})
           G == {r \in Nat : \A p, v : TermAt(s, p, r, v) => Right(p, r, v)}
<1>1. ASSUME NEW r \in Nat, \A m \in 0..r-1 : m \in G PROVE r \in G
  <2> SUFFICES ASSUME NEW p, NEW v, TermAt(s, p, r, v) PROVE Right(p, r, v)
    OBVIOUS
  <2>1. p \in 1..Len(s) /\ r \in p..Len(s) /\ v \in Val /\ Len(s) \in Nat
    BY DEF TermAt, Span
  <2>2. <<r, v>> \in Places(s) /\ {<<r, v>>} \in SUBSET Places(s) BY <2>1 DEF Places
  <2>3. <<r, v>> \in Reach(s, Muls(s), {<<r, v>>}) BY <2>2, ReachBase
  <2>4. CASE FactorAt(s, p, r, v)
    <3>1. r \in p..r BY <2>1
    <3> QED BY <2>1, <2>3, <2>4, <3>1
  <2>5. ASSUME NEW q \in p..r-2, NEW op \in Products, NEW x \in Val, NEW y \in Val,
               TermAt(s, p, q, x), s[q + 1] = op, FactorAt(s, q + 2, r, y),
               v = Answer(op, x, y)
        PROVE  Right(p, r, v)
    <3>1. q \in 0..r-1 /\ q \in 0..Len(s) /\ q < Len(s) /\ q \in Nat BY <2>1
    <3>2. PICK z \in p..q, w \in Val :
            FactorAt(s, p, z, w) /\ <<z, w>> \in Reach(s, Muls(s), {<<q, x>>})
      BY <1>1, <2>5, <3>1
    <3>3. <<q, x>> \in Places(s) BY <3>1 DEF Places
    <3>4. MulStep(s, <<q, x>>, <<r, v>>) BY <2>5, <3>1 DEF MulStep
    <3>5. <<<<q, x>>, <<r, v>>>> \in Muls(s) BY <2>2, <3>3, <3>4 DEF Muls
    <3>6. <<q, x>> \in Reach(s, Muls(s), {<<r, v>>})
      <4>1. PICK d : d = <<<<q, x>>, <<r, v>>>> OBVIOUS
      <4>2. d \in Muls(s) /\ d[1] = <<q, x>> /\ d[2] = <<r, v>> BY <3>5, <4>1
      <4> QED BY <2>3, <4>2, StepsAre, ReachStep
    <3>7. <<z, w>> \in Reach(s, Muls(s), {<<r, v>>})
      BY <2>2, <3>2, <3>6, StepsAre, ReachFrom
    <3>8. z \in p..r BY <2>1, <3>1
    <3> QED BY <3>2, <3>7, <3>8
  <2>6. \/ FactorAt(s, p, r, v)
        \/ \E q \in p..r-2, op \in Products, x \in Val, y \in Val :
             /\ TermAt(s, p, q, x) /\ s[q + 1] = op /\ FactorAt(s, q + 2, r, y)
             /\ v = Answer(op, x, y)
    BY TermParts
  <2> HIDE DEF Right
  <2> QED BY <2>4, <2>5, <2>6
<1> HIDE DEF G
<1>2. Nat \subseteq G BY <1>1, StrongInduction
<1> QED BY <1>2 DEF G

LEMMA FirstTerm ==
  ASSUME NEW s \in Seq(Words)
  PROVE  \A r \in Nat : \A p, v : ExprAt(s, p, r, v) =>
           \E q \in p..r, x \in Val :
             TermAt(s, p, q, x) /\ <<q, x>> \in Reach(s, Adds(s), {<<r, v>>})
<1> DEFINE Right(p, r, v) ==
             \E q \in p..r, x \in Val :
               TermAt(s, p, q, x) /\ <<q, x>> \in Reach(s, Adds(s), {<<r, v>>})
           G == {r \in Nat : \A p, v : ExprAt(s, p, r, v) => Right(p, r, v)}
<1>1. ASSUME NEW r \in Nat, \A m \in 0..r-1 : m \in G PROVE r \in G
  <2> SUFFICES ASSUME NEW p, NEW v, ExprAt(s, p, r, v) PROVE Right(p, r, v)
    OBVIOUS
  <2>1. p \in 1..Len(s) /\ r \in p..Len(s) /\ v \in Val /\ Len(s) \in Nat
    BY DEF ExprAt, Span
  <2>2. <<r, v>> \in Places(s) /\ {<<r, v>>} \in SUBSET Places(s) BY <2>1 DEF Places
  <2>3. <<r, v>> \in Reach(s, Adds(s), {<<r, v>>}) BY <2>2, ReachBase
  <2>4. CASE TermAt(s, p, r, v)
    <3>1. r \in p..r BY <2>1
    <3> QED BY <2>1, <2>3, <2>4, <3>1
  <2>5. ASSUME NEW q \in p..r-2, NEW op \in Sums, NEW x \in Val, NEW y \in Val,
               ExprAt(s, p, q, x), s[q + 1] = op, TermAt(s, q + 2, r, y),
               v = Answer(op, x, y)
        PROVE  Right(p, r, v)
    <3>1. q \in 0..r-1 /\ q \in 0..Len(s) /\ q < Len(s) /\ q \in Nat BY <2>1
    <3>2. PICK z \in p..q, w \in Val :
            TermAt(s, p, z, w) /\ <<z, w>> \in Reach(s, Adds(s), {<<q, x>>})
      BY <1>1, <2>5, <3>1
    <3>3. <<q, x>> \in Places(s) BY <3>1 DEF Places
    <3>4. AddStep(s, <<q, x>>, <<r, v>>) BY <2>5, <3>1 DEF AddStep
    <3>5. <<<<q, x>>, <<r, v>>>> \in Adds(s) BY <2>2, <3>3, <3>4 DEF Adds
    <3>6. <<q, x>> \in Reach(s, Adds(s), {<<r, v>>})
      <4>1. PICK d : d = <<<<q, x>>, <<r, v>>>> OBVIOUS
      <4>2. d \in Adds(s) /\ d[1] = <<q, x>> /\ d[2] = <<r, v>> BY <3>5, <4>1
      <4> QED BY <2>3, <4>2, StepsAre, ReachStep
    <3>7. <<z, w>> \in Reach(s, Adds(s), {<<r, v>>})
      BY <2>2, <3>2, <3>6, StepsAre, ReachFrom
    <3>8. z \in p..r BY <2>1, <3>1
    <3> QED BY <3>2, <3>7, <3>8
  <2>6. \/ TermAt(s, p, r, v)
        \/ \E q \in p..r-2, op \in Sums, x \in Val, y \in Val :
             /\ ExprAt(s, p, q, x) /\ s[q + 1] = op /\ TermAt(s, q + 2, r, y)
             /\ v = Answer(op, x, y)
    BY ExprParts
  <2> HIDE DEF Right
  <2> QED BY <2>4, <2>5, <2>6
<1> HIDE DEF G
<1>2. Nat \subseteq G BY <1>1, StrongInduction
<1> QED BY <1>2 DEF G

-----------------------------------------------------------------------------
(***************************************************************************)
(* The operator stack.  A level for each of its entries, and one below     *)
(* them: the values that wait below the next operand (below); the places   *)
(* where an operand that is done may stand (done), and, inside parentheses *)
(* or in the open, a sum that is done (sums).                              *)
(***************************************************************************)
Under(s, op, y, S) == {a \in Places(s) : <<a[1], Answer(op, y, a[2])>> \in S}
Behind(s, S) ==
  {a \in Places(s) : a[1] < Len(s) /\ s[a[1] + 1] = ")" /\ <<a[1] + 1, a[2]>> \in S}

Plain(s, below, B) ==
  [below |-> below, sums |-> Reach(s, Adds(s), B),
   done |-> Reach(s, Muls(s), Reach(s, Adds(s), B))]

Base(s, w)       == Plain(s, <<>>, {<<Len(s), w>>})
InParens(s, low) == Plain(s, low.below, Behind(s, low.done))
OnSum(s, op, y, low) ==
  [below |-> Append(low.below, y), sums |-> {},
   done |-> Reach(s, Muls(s), Under(s, op, y, low.sums))]
OnProduct(s, op, y, low) ==
  [below |-> Append(low.below, y), sums |-> {}, done |-> Under(s, op, y, low.done)]

IsLevel(s, l) == /\ l.below \in Seq(Val)
                 /\ l.sums \in SUBSET Places(s) /\ l.done \in SUBSET Places(s)

Above(s, op, low, high) ==
  \/ op = "(" /\ high = InParens(s, low)
  \/ op \in Sums /\ \E y \in Val : high = OnSum(s, op, y, low)
  \/ op \in Products /\ \E y \in Val : high = OnProduct(s, op, y, low)

Levels(s, w, ops, L) ==
  /\ L[0] = Base(s, w)
  /\ \A k \in 0..Len(ops) : IsLevel(s, L[k])
  /\ \A k \in 1..Len(ops) : Above(s, ops[k], L[k-1], L[k])

(* Products wait above sums, and both above parentheses or in the open. *)
Open(ops, k) == k = 0 \/ ops[k] = "("
Rising(ops) ==
  \A k \in 1..Len(ops) : /\ ops[k] \in Sums => Open(ops, k-1)
                         /\ ops[k] \in Products => Open(ops, k-1) \/ ops[k-1] \in Sums

SignsDiffer ==
  "(" \notin Sums \union Products /\ ")" \notin Sums \union Products /\ Sums \cap Products = {}

LEMMA SignsDo == SignsDiffer /\ "(" # ")"
BY DEF SignsDiffer, Sums, Products

LEMMA PlainIs ==
  ASSUME NEW s \in Seq(Words), NEW below \in Seq(Val), NEW B \in SUBSET Places(s)
  PROVE  /\ IsLevel(s, Plain(s, below, B))
         /\ B \subseteq Plain(s, below, B).sums
         /\ Plain(s, below, B).sums \subseteq Plain(s, below, B).done
<1>1. B \subseteq Reach(s, Adds(s), B) /\ Reach(s, Adds(s), B) \in SUBSET Places(s)
  BY ReachBase
<1>2. /\ Reach(s, Adds(s), B) \subseteq Reach(s, Muls(s), Reach(s, Adds(s), B))
      /\ Reach(s, Muls(s), Reach(s, Adds(s), B)) \in SUBSET Places(s)
  BY <1>1, ReachBase
<1> QED BY <1>1, <1>2 DEF Plain, IsLevel

(* What may follow a sum that is done, and an operand that is. *)
GoesOnSum(s, n, x, S) ==
  \E op \in Sums, y \in Val, r \in 0..Len(s) :
    /\ n < Len(s) /\ s[n + 1] = op /\ TermAt(s, n + 2, r, y)
    /\ <<r, Answer(op, x, y)>> \in S
GoesOnProduct(s, n, x, S) ==
  \E op \in Products, y \in Val, r \in 0..Len(s) :
    /\ n < Len(s) /\ s[n + 1] = op /\ FactorAt(s, n + 2, r, y)
    /\ <<r, Answer(op, x, y)>> \in S

LEMMA AfterSums ==
  ASSUME NEW s \in Seq(Words), NEW B \in SUBSET Places(s), NEW n, NEW x,
         <<n, x>> \in Reach(s, Adds(s), B)
  PROVE  <<n, x>> \in B \/ GoesOnSum(s, n, x, Reach(s, Adds(s), B))
<1> DEFINE R == Reach(s, Adds(s), B)
<1>1. PICK a : a = <<n, x>> OBVIOUS
<1>2. a \in B \/ \E d \in Adds(s) : d[1] = a /\ d[2] \in R BY <1>1, StepsAre, ReachOpen
<1>3. ASSUME NEW d \in Adds(s), d[1] = a, d[2] \in R PROVE GoesOnSum(s, n, x, R)
  <2>1. d[1] \in Places(s) /\ d[2] \in Places(s) /\ AddStep(s, d[1], d[2]) BY DEF Adds
  <2>2. PICK b : b = d[2] OBVIOUS
  <2>3. b[1] \in 0..Len(s) /\ b = <<b[1], b[2]>> BY <2>1, <2>2 DEF Places
  <2>4. a[1] = n /\ a[2] = x BY <1>1
  <2>5. AddStep(s, a, b) BY <1>3, <2>1, <2>2
  <2>6. PICK op \in Sums, y \in Val :
          /\ n < Len(s) /\ s[n + 1] = op /\ TermAt(s, n + 2, b[1], y)
          /\ b[2] = Answer(op, x, y)
    BY <2>4, <2>5 DEF AddStep
  <2> HIDE DEF R
  <2> QED BY <1>3, <2>2, <2>3, <2>6 DEF GoesOnSum
<1> QED BY <1>1, <1>2, <1>3

LEMMA AfterProducts ==
  ASSUME NEW s \in Seq(Words), NEW B \in SUBSET Places(s), NEW n, NEW x,
         <<n, x>> \in Reach(s, Muls(s), B)
  PROVE  <<n, x>> \in B \/ GoesOnProduct(s, n, x, Reach(s, Muls(s), B))
<1> DEFINE R == Reach(s, Muls(s), B)
<1>1. PICK a : a = <<n, x>> OBVIOUS
<1>2. a \in B \/ \E d \in Muls(s) : d[1] = a /\ d[2] \in R BY <1>1, StepsAre, ReachOpen
<1>3. ASSUME NEW d \in Muls(s), d[1] = a, d[2] \in R PROVE GoesOnProduct(s, n, x, R)
  <2>1. d[1] \in Places(s) /\ d[2] \in Places(s) /\ MulStep(s, d[1], d[2]) BY DEF Muls
  <2>2. PICK b : b = d[2] OBVIOUS
  <2>3. b[1] \in 0..Len(s) /\ b = <<b[1], b[2]>> BY <2>1, <2>2 DEF Places
  <2>4. a[1] = n /\ a[2] = x BY <1>1
  <2>5. MulStep(s, a, b) BY <1>3, <2>1, <2>2
  <2>6. PICK op \in Products, y \in Val :
          /\ n < Len(s) /\ s[n + 1] = op /\ FactorAt(s, n + 2, b[1], y)
          /\ b[2] = Answer(op, x, y)
    BY <2>4, <2>5 DEF MulStep
  <2> HIDE DEF R
  <2> QED BY <1>3, <2>2, <2>3, <2>6 DEF GoesOnProduct
<1> QED BY <1>1, <1>2, <1>3

(* The open levels. *)
LEMMA BaseLevel ==
  ASSUME NEW s \in Seq(Words), NEW w \in Val
  PROVE  /\ IsLevel(s, Base(s, w)) /\ Base(s, w).below = <<>>
         /\ <<Len(s), w>> \in Base(s, w).sums
         /\ Base(s, w).sums \subseteq Base(s, w).done
<1>1. {<<Len(s), w>>} \in SUBSET Places(s) BY DEF Places
<1>2. <<>> \in Seq(Val) OBVIOUS
<1> QED BY <1>1, <1>2, PlainIs DEF Base, Plain

LEMMA BehindIs == ASSUME NEW s, NEW S PROVE Behind(s, S) \in SUBSET Places(s)
BY DEF Behind

LEMMA OpenSums ==
  ASSUME NEW s \in Seq(Words), NEW w \in Val, NEW ops, NEW L, Levels(s, w, ops, L),
         NEW k \in 0..Len(ops), Open(ops, k), NEW n, NEW x, <<n, x>> \in L[k].sums
  PROVE  \/ GoesOnSum(s, n, x, L[k].sums)
         \/ k = 0 /\ n = Len(s) /\ x = w
         \/ k # 0 /\ n < Len(s) /\ s[n + 1] = ")" /\ <<n + 1, x>> \in L[k-1].done
<1>1. CASE k = 0
  <2>1. L[0].sums = Reach(s, Adds(s), {<<Len(s), w>>}) BY DEF Levels, Base, Plain
  <2>2. {<<Len(s), w>>} \in SUBSET Places(s) BY DEF Places
  <2>3. \/ <<n, x>> \in {<<Len(s), w>>}
        \/ GoesOnSum(s, n, x, Reach(s, Adds(s), {<<Len(s), w>>}))
    BY <1>1, <2>1, <2>2, AfterSums
  <2> QED BY <1>1, <2>1, <2>3
<1>2. CASE k # 0
  <2>1. k \in 1..Len(ops) /\ ops[k] = "(" BY <1>2 DEF Open
  <2>2. L[k] = InParens(s, L[k-1]) BY <2>1, SignsDo DEF Levels, Above, SignsDiffer
  <2>3. PICK B : B = Behind(s, L[k-1].done) OBVIOUS
  <2>4. L[k].sums = Reach(s, Adds(s), B) BY <2>2, <2>3 DEF InParens, Plain
  <2>5. <<n, x>> \in B \/ GoesOnSum(s, n, x, Reach(s, Adds(s), B))
    BY <2>3, <2>4, BehindIs, AfterSums
  <2>6. ASSUME <<n, x>> \in B
        PROVE  n < Len(s) /\ s[n + 1] = ")" /\ <<n + 1, x>> \in L[k-1].done
    <3>1. PICK a \in Places(s) : a = <<n, x>> /\ a[1] < Len(s) /\ s[a[1] + 1] = ")"
                                 /\ <<a[1] + 1, a[2]>> \in L[k-1].done
      BY <2>3, <2>6 DEF Behind
    <3>2. a[1] = n /\ a[2] = x BY <3>1
    <3> QED BY <3>1, <3>2
  <2> QED BY <1>2, <2>4, <2>5, <2>6
<1> QED BY <1>1, <1>2

LEMMA OpenDone ==
  ASSUME NEW s \in Seq(Words), NEW w \in Val, NEW ops, NEW L, Levels(s, w, ops, L),
         NEW k \in 0..Len(ops), Open(ops, k)
  PROVE  /\ L[k].sums \subseteq L[k].done
         /\ \A n, x : <<n, x>> \in L[k].done =>
              <<n, x>> \in L[k].sums \/ GoesOnProduct(s, n, x, L[k].done)
<1>1. L[k].done = Reach(s, Muls(s), L[k].sums)
  <2>1. CASE k = 0 BY <2>1 DEF Levels, Base, Plain
  <2>2. CASE k # 0
    <3>1. k \in 1..Len(ops) /\ ops[k] = "(" BY <2>2 DEF Open
    <3>2. L[k] = InParens(s, L[k-1]) BY <3>1, SignsDo DEF Levels, Above, SignsDiffer
    <3> QED BY <3>2 DEF InParens, Plain
  <2> QED BY <2>1, <2>2
<1>2. PICK B : B = L[k].sums OBVIOUS
<1>3. B \in SUBSET Places(s) BY <1>2 DEF Levels, IsLevel
<1>4. L[k].sums \subseteq L[k].done BY <1>1, <1>2, <1>3, ReachBase
<1> QED BY <1>1, <1>2, <1>3, <1>4, AfterProducts

LEMMA SumDone ==
  ASSUME NEW s \in Seq(Words), NEW w \in Val, NEW ops, NEW L, Levels(s, w, ops, L),
         NEW k \in 1..Len(ops), ops[k] \in Sums, NEW n, NEW x, <<n, x>> \in L[k].done
  PROVE  \/ GoesOnProduct(s, n, x, L[k].done)
         \/ \E y \in Val : /\ L[k].below = Append(L[k-1].below, y)
                           /\ <<n, Answer(ops[k], y, x)>> \in L[k-1].sums
<1>1. PICK y \in Val : L[k] = OnSum(s, ops[k], y, L[k-1])
  BY SignsDo DEF Levels, Above, SignsDiffer
<1>2. PICK B : B = Under(s, ops[k], y, L[k-1].sums) OBVIOUS
<1>3. L[k].done = Reach(s, Muls(s), B) /\ L[k].below = Append(L[k-1].below, y)
  BY <1>1, <1>2 DEF OnSum
<1>4. B \in SUBSET Places(s) BY <1>2 DEF Under
<1>5. <<n, x>> \in B \/ GoesOnProduct(s, n, x, Reach(s, Muls(s), B))
  BY <1>3, <1>4, AfterProducts
<1>6. ASSUME <<n, x>> \in B PROVE <<n, Answer(ops[k], y, x)>> \in L[k-1].sums
  <2>1. PICK a : a = <<n, x>> OBVIOUS
  <2>2. <<a[1], Answer(ops[k], y, a[2])>> \in L[k-1].sums BY <1>2, <1>6, <2>1 DEF Under
  <2>3. a[1] = n /\ a[2] = x BY <2>1
  <2> QED BY <2>2, <2>3
<1> QED BY <1>3, <1>5, <1>6

LEMMA ProductDone ==
  ASSUME NEW s \in Seq(Words), NEW w \in Val, NEW ops, NEW L, Levels(s, w, ops, L),
         NEW k \in 1..Len(ops), ops[k] \in Products, NEW n, NEW x, <<n, x>> \in L[k].done
  PROVE  \E y \in Val : /\ L[k].below = Append(L[k-1].below, y)
                        /\ <<n, Answer(ops[k], y, x)>> \in L[k-1].done
<1>1. PICK y \in Val : L[k] = OnProduct(s, ops[k], y, L[k-1])
  BY SignsDo DEF Levels, Above, SignsDiffer
<1>2. L[k].done = Under(s, ops[k], y, L[k-1].done) /\ L[k].below = Append(L[k-1].below, y)
  BY <1>1 DEF OnProduct
<1>3. PICK a : a = <<n, x>> OBVIOUS
<1>4. <<a[1], Answer(ops[k], y, a[2])>> \in L[k-1].done BY <1>2, <1>3 DEF Under
<1>5. a[1] = n /\ a[2] = x BY <1>3
<1> QED BY <1>2, <1>4, <1>5

(* Behind an operand there is an operator, a ")", or nothing. *)
Ends(s, n) == n < Len(s) => s[n + 1] \in Sums \union Products \union {")"}

LEMMA OperatorFollows ==
  ASSUME NEW s \in Seq(Words), NEW w \in Val, NEW ops, Len(ops) \in Nat,
         NEW L, Levels(s, w, ops, L), Rising(ops),
         NEW n, NEW x, <<n, x>> \in L[Len(ops)].done
  PROVE  Ends(s, n)
<1>1. ASSUME NEW k \in 0..Len(ops), Open(ops, k), NEW v, <<n, v>> \in L[k].sums
      PROVE  Ends(s, n)
  <2>1. \/ GoesOnSum(s, n, v, L[k].sums)
        \/ n = Len(s)
        \/ n < Len(s) /\ s[n + 1] = ")"
    <3>1. \/ GoesOnSum(s, n, v, L[k].sums)
          \/ k = 0 /\ n = Len(s) /\ v = w
          \/ k # 0 /\ n < Len(s) /\ s[n + 1] = ")" /\ <<n + 1, v>> \in L[k-1].done
      BY <1>1, OpenSums
    <3> QED BY <3>1
  <2>2. Len(s) \in Nat OBVIOUS
  <2>3. CASE GoesOnSum(s, n, v, L[k].sums) BY <2>3 DEF Ends, GoesOnSum
  <2>4. CASE n = Len(s) BY <2>2, <2>4 DEF Ends
  <2>5. CASE n < Len(s) /\ s[n + 1] = ")" BY <2>5 DEF Ends
  <2> QED BY <2>1, <2>3, <2>4, <2>5
<1>2. ASSUME NEW k \in 0..Len(ops), Open(ops, k) \/ ops[k] \in Sums, k = 0 \/ k \in 1..Len(ops),
             NEW v, <<n, v>> \in L[k].done
      PROVE  Ends(s, n)
  <2>1. CASE Open(ops, k)
    <3>1. <<n, v>> \in L[k].sums \/ GoesOnProduct(s, n, v, L[k].done)
      BY <1>2, <2>1, OpenDone
    <3> QED BY <1>1, <2>1, <3>1 DEF Ends, GoesOnProduct
  <2>2. CASE ~Open(ops, k)
    <3>1. k \in 1..Len(ops) /\ ops[k] \in Sums /\ k - 1 \in 0..Len(ops)
      BY <1>2, <2>2 DEF Open
    <3>2. Open(ops, k-1) BY <3>1 DEF Rising
    <3>3. \/ GoesOnProduct(s, n, v, L[k].done)
          \/ \E y \in Val : <<n, Answer(ops[k], y, v)>> \in L[k-1].sums
      BY <1>2, <3>1, SumDone
    <3> QED BY <1>1, <3>1, <3>2, <3>3 DEF Ends, GoesOnProduct
  <2> QED BY <2>1, <2>2
<1>0. PICK k \in Nat : k = Len(ops) OBVIOUS
<1>3. CASE k = 0 BY <1>0, <1>2, <1>3 DEF Open
<1>4. CASE k # 0
  <2>0. k - 1 = 0 \/ k - 1 \in 1..k BY <1>4
  <2>1. k \in 1..Len(ops) /\ k \in 0..Len(ops) /\ k - 1 \in 0..Len(ops) BY <1>0, <1>4
  <2>2. CASE ops[k] \in Products
    <3>1. PICK y \in Val : <<n, Answer(ops[k], y, x)>> \in L[k-1].done
      BY <1>0, <2>1, <2>2, ProductDone
    <3>2. Open(ops, k-1) \/ ops[k-1] \in Sums BY <2>1, <2>2 DEF Rising
    <3>3. k - 1 = 0 \/ k - 1 \in 1..Len(ops) BY <1>0, <2>0
    <3> QED BY <1>2, <2>1, <3>1, <3>2, <3>3
  <2>3. CASE ops[k] \notin Products
    <3>1. Open(ops, k) \/ ops[k] \in Sums BY <2>1, <2>3 DEF Levels, Above, Open
    <3> QED BY <1>0, <1>2, <2>1, <3>1
  <2> QED BY <2>2, <2>3
<1> QED BY <1>3, <1>4

-----------------------------------------------------------------------------
(***************************************************************************)
(* What the conversion has made of n tokens: P[k] are the values on the    *)
(* number stack when k tokens of the output are calculated.                *)
(***************************************************************************)
Posts(t, U, V) ==
  \/ t \in DOMAIN Atoi /\ V = Append(U, {Atoi[t]})
  \/ t \in Sums \union Products
     /\ \E W \in Seq(Val), x \in Val, y \in Val :
          U = Append(Append(W, x), y) /\ V = Append(W, Answer(t, x, y))

Posted(out, P) ==
  /\ P[0] = <<>> /\ \A k \in 0..Len(out) : P[k] \in Seq(Val)
  /\ \A k \in 1..Len(out) : Posts(out[k], P[k-1], P[k])

(* The next token begins a factor; the last one has ended one. *)
Wants(s, n, V, l) ==
  V = l.below /\ \E r \in 0..Len(s), x \in Val : FactorAt(s, n + 1, r, x) /\ <<r, x>> \in l.done
Has(n, V, l) == \E x \in Val : V = Append(l.below, x) /\ <<n, x>> \in l.done

Reads(s, w, n, ops, out) ==
  \E L, P : /\ Levels(s, w, ops, L) /\ Posted(out, P)
            /\ Wants(s, n, P[Len(out)], L[Len(ops)]) \/ Has(n, P[Len(out)], L[Len(ops)])

LEMMA AppendOf ==
  ASSUME NEW S, NEW s \in Seq(S), NEW x
  PROVE  /\ Len(Append(s, x)) = Len(s) + 1 /\ Len(s) \in Nat
         /\ \A k \in 1..Len(s) : Append(s, x)[k] = s[k]
         /\ Append(s, x)[Len(s) + 1] = x
OBVIOUS

LEMMA LevelsPush ==
  ASSUME NEW s, NEW w, NEW ops \in Seq(Words), NEW op, NEW L, NEW new,
         Levels(s, w, ops, L), Above(s, op, L[Len(ops)], new), IsLevel(s, new)
  PROVE  \E M : Levels(s, w, Append(ops, op), M) /\ M[Len(Append(ops, op))] = new
<1>1. PICK m \in Nat : m = Len(ops) OBVIOUS
<1>2. PICK o : o = Append(ops, op) OBVIOUS
<1>3. Len(o) = m + 1 /\ o[m + 1] = op /\ \A k \in 1..m : o[k] = ops[k]
  BY <1>1, <1>2, AppendOf
<1> DEFINE M == [k \in 0..m+1 |-> IF k = m + 1 THEN new ELSE L[k]]
<1>4. M[m+1] = new /\ \A k \in 0..m : M[k] = L[k] BY SMT
<1> HIDE DEF M
<1>5. M[0] = Base(s, w) BY <1>4 DEF Levels
<1>6. \A k \in 0..m+1 : IsLevel(s, M[k])
  <2> SUFFICES ASSUME NEW k \in 0..m+1 PROVE IsLevel(s, M[k]) OBVIOUS
  <2>1. k = m + 1 \/ k \in 0..m OBVIOUS
  <2> QED BY <1>1, <1>4, <2>1 DEF Levels
<1>7. \A k \in 1..m+1 : Above(s, o[k], M[k-1], M[k])
  <2> SUFFICES ASSUME NEW k \in 1..m+1 PROVE Above(s, o[k], M[k-1], M[k]) OBVIOUS
  <2>1. k - 1 \in 0..m /\ (k = m + 1 \/ k \in 1..m) OBVIOUS
  <2>2. CASE k = m + 1
    <3>1. M[k] = new /\ o[k] = op /\ M[k-1] = L[m] BY <1>3, <1>4, <2>2
    <3> QED BY <1>1, <3>1
  <2>3. CASE k \in 1..m
    <3>1. M[k] = L[k] /\ o[k] = ops[k] /\ M[k-1] = L[k-1] BY <1>3, <1>4, <2>1, <2>3
    <3>2. Above(s, ops[k], L[k-1], L[k]) BY <1>1, <2>3 DEF Levels
    <3> QED BY <3>1, <3>2
  <2> QED BY <2>1, <2>2, <2>3
<1>8. Levels(s, w, o, M) BY <1>3, <1>5, <1>6, <1>7 DEF Levels
<1> QED BY <1>2, <1>3, <1>4, <1>8

LEMMA LevelsPop ==
  ASSUME NEW s, NEW w, NEW ops \in Seq(Words), ops # <<>>, NEW L, Levels(s, w, ops, L)
  PROVE  Levels(s, w, Rest(ops), L) /\ Len(Rest(ops)) = Len(ops) - 1 /\ Len(ops) \in 1..Len(ops)
<1>1. /\ Len(Rest(ops)) = Len(ops) - 1 /\ Len(ops) \in Nat /\ Len(ops) >= 1
      /\ \A k \in 1..Len(ops)-1 : Rest(ops)[k] = ops[k]
  BY RestSeq
<1>0. PICK m \in Nat : m = Len(ops) BY <1>1
<1>2. PICK o : o = Rest(ops) OBVIOUS
<1>3. Len(o) = m - 1 /\ m >= 1 /\ \A k \in 1..m-1 : o[k] = ops[k] BY <1>0, <1>1, <1>2
<1>4. \A k \in 0..m-1 : IsLevel(s, L[k]) BY <1>0 DEF Levels
<1>5. \A k \in 1..m-1 : Above(s, o[k], L[k-1], L[k]) BY <1>0, <1>3 DEF Levels
<1>7. L[0] = Base(s, w) BY DEF Levels
<1>6. Levels(s, w, o, L) BY <1>7, <1>3, <1>4, <1>5 DEF Levels
<1> QED BY <1>0, <1>2, <1>3, <1>6

LEMMA PostOne ==
  ASSUME NEW out \in Seq(Words), NEW t, NEW P, NEW V \in Seq(Val),
         Posted(out, P), Posts(t, P[Len(out)], V)
  PROVE  \E Q : Posted(Append(out, t), Q) /\ Q[Len(Append(out, t))] = V
<1>1. PICK m \in Nat : m = Len(out) OBVIOUS
<1>2. PICK o : o = Append(out, t) OBVIOUS
<1>3. Len(o) = m + 1 /\ o[m + 1] = t /\ \A k \in 1..m : o[k] = out[k]
  BY <1>1, <1>2, AppendOf
<1> DEFINE Q == [k \in 0..m+1 |-> IF k = m + 1 THEN V ELSE P[k]]
<1>4. Q[m+1] = V /\ \A k \in 0..m : Q[k] = P[k] BY SMT
<1> HIDE DEF Q
<1>5. Q[0] = <<>> BY <1>4 DEF Posted
<1>6. \A k \in 0..m+1 : Q[k] \in Seq(Val)
  <2> SUFFICES ASSUME NEW k \in 0..m+1 PROVE Q[k] \in Seq(Val) OBVIOUS
  <2>1. k = m + 1 \/ k \in 0..m OBVIOUS
  <2> QED BY <1>1, <1>4, <2>1 DEF Posted
<1>7. \A k \in 1..m+1 : Posts(o[k], Q[k-1], Q[k])
  <2> SUFFICES ASSUME NEW k \in 1..m+1 PROVE Posts(o[k], Q[k-1], Q[k]) OBVIOUS
  <2>1. k - 1 \in 0..m /\ (k = m + 1 \/ k \in 1..m) OBVIOUS
  <2>2. CASE k = m + 1
    <3>1. Q[k] = V /\ o[k] = t /\ Q[k-1] = P[m] BY <1>3, <1>4, <2>2
    <3> QED BY <1>1, <3>1
  <2>3. CASE k \in 1..m
    <3>1. Q[k] = P[k] /\ o[k] = out[k] /\ Q[k-1] = P[k-1] BY <1>3, <1>4, <2>1, <2>3
    <3>2. Posts(out[k], P[k-1], P[k]) BY <1>1, <2>3 DEF Posted
    <3> QED BY <3>1, <3>2
  <2> QED BY <2>1, <2>2, <2>3
<1>8. Posted(o, Q) BY <1>3, <1>5, <1>6, <1>7 DEF Posted
<1> QED BY <1>2, <1>3, <1>4, <1>8

PostsTo(out, V) == \E P : Posted(out, P) /\ P[Len(out)] = V

LEMMA PostNext ==
  ASSUME NEW out \in Seq(Words), NEW t, NEW U, NEW V \in Seq(Val),
         PostsTo(out, U), Posts(t, U, V)
  PROVE  PostsTo(Append(out, t), V)
<1>1. PICK P : Posted(out, P) /\ P[Len(out)] = U BY DEF PostsTo
<1>2. Posts(t, P[Len(out)], V) BY <1>1
<1>3. \E Q : Posted(Append(out, t), Q) /\ Q[Len(Append(out, t))] = V BY <1>1, <1>2, PostOne
<1> QED BY <1>3 DEF PostsTo

(* Where a term or an expression begins, so does a factor. *)
LEMMA TermBegins ==
  ASSUME NEW s \in Seq(Words), NEW p, NEW r, NEW x, TermAt(s, p, r, x),
         NEW B \in SUBSET Places(s), <<r, x>> \in B
  PROVE  \E q \in 0..Len(s), y \in Val :
           FactorAt(s, p, q, y) /\ <<q, y>> \in Reach(s, Muls(s), B)
<1>1. p \in 1..Len(s) /\ r \in p..Len(s) /\ r \in Nat BY DEF TermAt, Span
<1>2. PICK q \in p..r, y \in Val :
        FactorAt(s, p, q, y) /\ <<q, y>> \in Reach(s, Muls(s), {<<r, x>>})
  BY <1>1, FirstFactor
<1>3. <<r, x>> \in Reach(s, Muls(s), B) BY ReachBase
<1>4. <<q, y>> \in Reach(s, Muls(s), B) BY <1>2, <1>3, StepsAre, ReachFrom
<1>5. q \in 0..Len(s) BY <1>1
<1> QED BY <1>2, <1>4, <1>5

LEMMA ExprBegins ==
  ASSUME NEW s \in Seq(Words), NEW p, NEW r, NEW x, ExprAt(s, p, r, x),
         NEW B \in SUBSET Places(s), <<r, x>> \in B, NEW below
  PROVE  \E q \in 0..Len(s), y \in Val :
           FactorAt(s, p, q, y) /\ <<q, y>> \in Plain(s, below, B).done
<1>1. p \in 1..Len(s) /\ r \in p..Len(s) /\ r \in Nat BY DEF ExprAt, Span
<1>2. PICK q \in p..r, y \in Val :
        TermAt(s, p, q, y) /\ <<q, y>> \in Reach(s, Adds(s), {<<r, x>>})
  BY <1>1, FirstTerm
<1>3. <<r, x>> \in Reach(s, Adds(s), B) BY ReachBase
<1>4. <<q, y>> \in Reach(s, Adds(s), B) BY <1>2, <1>3, StepsAre, ReachFrom
<1>5. PICK S : S = Reach(s, Adds(s), B) OBVIOUS
<1>6. S \in SUBSET Places(s) /\ <<q, y>> \in S BY <1>4, <1>5, ReachBase
<1>7. Plain(s, below, B).done = Reach(s, Muls(s), S) BY <1>5 DEF Plain
<1>8. \E z \in 0..Len(s), u \in Val :
        FactorAt(s, p, z, u) /\ <<z, u>> \in Reach(s, Muls(s), S)
  BY <1>2, <1>6, TermBegins
<1> QED BY <1>7, <1>8

-----------------------------------------------------------------------------
(* The words of the line. *)
LEMMA NumbersAre ==
  \A t : is_number(t) => t \notin Sums \union Products \union {"(", ")"}
BY CalculatorAssumption DEF is_number, Sums, Products, Arithmetic

LEMMA AtoiIs ==
  \A t \in DOMAIN Atoi : is_number(t) /\ Value(t) = Atoi[t] /\ {Atoi[t]} \in Val
BY CalculatorAssumption DEF is_number, Value, Arithmetic, Val

LEMMA WantsWhat ==
  ASSUME NEW s \in Seq(Words), NEW n, NEW V, NEW l, Wants(s, n, V, l)
  PROVE  n + 1 \in 1..Len(s) /\ s[n + 1] \in DOMAIN Atoi \union {"("}
<1>1. PICK r \in 0..Len(s), x \in Val : FactorAt(s, n + 1, r, x) BY DEF Wants
<1>2. n + 1 \in 1..Len(s) BY <1>1 DEF FactorAt, Span
<1> QED BY <1>1, <1>2, FactorParts

(* Behind an operand only an operator or a ")" may come. *)
LEMMA HasWhat ==
  ASSUME NEW s \in Seq(Words), NEW w \in Val, NEW n \in Nat, n < Len(s), NEW ops, Len(ops) \in Nat,
         NEW L, Levels(s, w, ops, L), Rising(ops), NEW V, Has(n, V, L[Len(ops)])
  PROVE  s[n + 1] \in Sums \union Products \union {")"}
<1>1. PICK x \in Val : <<n, x>> \in L[Len(ops)].done BY DEF Has
<1>2. Ends(s, n) BY <1>1, OperatorFollows
<1> QED BY <1>2 DEF Ends

LEMMA ReadNumber ==
  ASSUME NEW s \in Seq(Words), NEW w \in Val, NEW n \in Nat, n < Len(s),
         NEW ops \in Seq(Words), NEW out \in Seq(Words), Rising(ops),
         Reads(s, w, n, ops, out), is_number(s[n + 1])
  PROVE  Reads(s, w, n + 1, ops, Append(out, s[n + 1]))
<1>1. PICK L, P : /\ Levels(s, w, ops, L) /\ Posted(out, P)
                  /\ Wants(s, n, P[Len(out)], L[Len(ops)]) \/ Has(n, P[Len(out)], L[Len(ops)])
  BY DEF Reads
<1>0. Len(ops) \in Nat /\ Len(out) \in Nat OBVIOUS
<1>9. PICK l : l = L[Len(ops)] OBVIOUS
<1>10. PICK V : V = P[Len(out)] OBVIOUS
<1>11. PICK t : t = s[n + 1] OBVIOUS
<1>2. ~Has(n, V, l) BY <1>0, <1>1, <1>9, HasWhat, NumbersAre
<1>3. PICK r \in 0..Len(s), x \in Val :
        V = l.below /\ FactorAt(s, n + 1, r, x) /\ <<r, x>> \in l.done
  BY <1>1, <1>2, <1>9, <1>10 DEF Wants
<1>4. r = n + 1 /\ t \in DOMAIN Atoi /\ x = {Atoi[t]}
  BY <1>3, <1>11, FactorParts, NumbersAre
<1>5. V \in Seq(Val) BY <1>0, <1>1, <1>10 DEF Posted
<1>12. PICK W : W = Append(V, x) OBVIOUS
<1>6. W \in Seq(Val) /\ Posts(t, V, W) BY <1>4, <1>5, <1>12 DEF Posts
<1>7. PICK Q : Posted(Append(out, t), Q) /\ Q[Len(Append(out, t))] = W
  BY <1>1, <1>6, <1>10, PostOne
<1>8. Has(n + 1, Q[Len(Append(out, t))], l) BY <1>3, <1>4, <1>7, <1>12 DEF Has
<1> QED BY <1>1, <1>7, <1>8, <1>9, <1>11 DEF Reads

LEMMA ReadOpen ==
  ASSUME NEW s \in Seq(Words), NEW w \in Val, NEW n \in Nat, n < Len(s),
         NEW ops \in Seq(Words), NEW out \in Seq(Words), Rising(ops),
         Reads(s, w, n, ops, out), s[n + 1] = "("
  PROVE  Reads(s, w, n + 1, Append(ops, "("), out)
<1>1. PICK L, P : /\ Levels(s, w, ops, L) /\ Posted(out, P)
                  /\ Wants(s, n, P[Len(out)], L[Len(ops)]) \/ Has(n, P[Len(out)], L[Len(ops)])
  BY DEF Reads
<1>0. Len(ops) \in Nat /\ Len(out) \in Nat /\ Len(s) \in Nat OBVIOUS
<1> DEFINE V == P[Len(out)]
<1>2. PICK l : l = L[Len(ops)] OBVIOUS
<1>3. ~Has(n, V, l) BY <1>0, <1>1, <1>2, HasWhat, SignsDo DEF SignsDiffer
<1>4. PICK r \in 0..Len(s), x \in Val :
        V = l.below /\ FactorAt(s, n + 1, r, x) /\ <<r, x>> \in l.done
  BY <1>1, <1>2, <1>3 DEF Wants
<1>5. s[r] = ")" /\ ExprAt(s, n + 2, r - 1, x)
  <2>1. "(" \notin DOMAIN Atoi BY CalculatorAssumption
  <2>2. n + 1 + 1 = n + 2 OBVIOUS
  <2> QED BY <1>4, <2>1, <2>2, FactorParts
<1>6. r - 1 \in 0..Len(s) /\ r - 1 < Len(s) /\ r - 1 + 1 = r
  <2>1. r >= 1 BY <1>4 DEF FactorAt, Span
  <2> QED BY <1>0, <2>1
<1>7. PICK B : B = Behind(s, l.done) OBVIOUS
<1>8. B \in SUBSET Places(s) /\ <<r - 1, x>> \in B
  <2>1. PICK a : a = <<r - 1, x>> OBVIOUS
  <2>2. a \in Places(s) /\ a[1] = r - 1 /\ a[2] = x BY <1>6, <2>1 DEF Places
  <2>3. a \in B BY <1>4, <1>5, <1>6, <1>7, <2>2 DEF Behind
  <2> QED BY <1>7, <2>1, <2>3, BehindIs
<1>9. IsLevel(s, l) BY <1>0, <1>1, <1>2 DEF Levels
<1>10. PICK new : new = InParens(s, l) OBVIOUS
<1>11. new = Plain(s, l.below, B) BY <1>7, <1>10 DEF InParens
<1>12. IsLevel(s, new) BY <1>8, <1>9, <1>11, PlainIs DEF IsLevel
<1>13. PICK q \in 0..Len(s), y \in Val : FactorAt(s, n + 2, q, y) /\ <<q, y>> \in new.done
  BY <1>5, <1>8, <1>11, ExprBegins
<1>14. Above(s, "(", l, new) BY <1>10 DEF Above
<1>15. PICK M : Levels(s, w, Append(ops, "("), M) /\ M[Len(Append(ops, "("))] = new
  BY <1>1, <1>2, <1>12, <1>14, LevelsPush
<1>16. new.below = l.below BY <1>11 DEF Plain
<1>17. Wants(s, n + 1, V, new)
  <2>1. n + 1 + 1 = n + 2 OBVIOUS
  <2> QED BY <1>4, <1>13, <1>16, <2>1 DEF Wants
<1> QED BY <1>1, <1>15, <1>17 DEF Reads

(* An operand that is done in the open or inside parentheses. *)
LEMMA OpenEnds ==
  ASSUME NEW s \in Seq(Words), NEW w \in Val, NEW ops, NEW L, Levels(s, w, ops, L),
         NEW k \in 0..Len(ops), Open(ops, k), NEW n, NEW x, <<n, x>> \in L[k].done
  PROVE  \/ GoesOnProduct(s, n, x, L[k].done)
         \/ GoesOnSum(s, n, x, L[k].sums)
         \/ k = 0 /\ n = Len(s) /\ x = w
         \/ k # 0 /\ n < Len(s) /\ s[n + 1] = ")" /\ <<n + 1, x>> \in L[k-1].done
<1>1. <<n, x>> \in L[k].sums \/ GoesOnProduct(s, n, x, L[k].done) BY OpenDone
<1>2. CASE <<n, x>> \in L[k].sums BY <1>2, OpenSums
<1> QED BY <1>1, <1>2

LEMMA TopIs ==
  ASSUME NEW ops \in Seq(Words), ops # <<>>
  PROVE  \E m \in Nat : /\ m = Len(ops) /\ m \in 1..Len(ops) /\ m - 1 \in 0..Len(ops)
                        /\ m \in 0..Len(ops) /\ m # 0
                        /\ top(ops) = ops[m] /\ Len(Rest(ops)) = m - 1
                        /\ Rest(ops) \in Seq(Words)
<1>1. Len(ops) \in Nat /\ Len(ops) >= 1 BY RestSeq
<1> QED BY <1>1, RestSeq DEF top

(* The operator on top goes to the output: its operands are complete. *)
LEMMA ReadPop ==
  ASSUME NEW s \in Seq(Words), NEW w \in Val, NEW n,
         NEW ops \in Seq(Words), NEW out \in Seq(Words), Rising(ops), ops # <<>>,
         Reads(s, w, n, ops, out),
         n < Len(s) => s[n + 1] \notin DOMAIN Atoi \union {"("},
         n \in 0..Len(s),
         top(ops) \in Sums \union Products,
         top(ops) \in Products \/ (n < Len(s) => s[n + 1] \notin Products)
  PROVE  Reads(s, w, n, Rest(ops), Append(out, top(ops)))
<1>1. PICK L, P : /\ Levels(s, w, ops, L) /\ Posted(out, P)
                  /\ Wants(s, n, P[Len(out)], L[Len(ops)]) \/ Has(n, P[Len(out)], L[Len(ops)])
  BY DEF Reads
<1>2. PICK m \in Nat : /\ m = Len(ops) /\ m \in 1..Len(ops) /\ m - 1 \in 0..Len(ops)
                       /\ top(ops) = ops[m] /\ Len(Rest(ops)) = m - 1
  BY TopIs
<1>3. PICK op : op = ops[m] OBVIOUS
<1>4. PICK l, low : l = L[m] /\ low = L[m-1] OBVIOUS
<1>5. PICK V : V = P[Len(out)] OBVIOUS
<1>6. n + 1 \in 1..Len(s) => n < Len(s) BY Len(s) \in Nat
<1>7. ~Wants(s, n, V, l) BY <1>6, WantsWhat
<1>8. PICK x \in Val : V = Append(l.below, x) /\ <<n, x>> \in l.done
  BY <1>1, <1>2, <1>4, <1>5, <1>7 DEF Has
<1>9. PICK y \in Val : l.below = Append(low.below, y) /\ <<n, Answer(op, y, x)>> \in low.done
  <2>1. CASE op \in Products BY <1>1, <1>2, <1>3, <1>4, <1>8, <2>1, ProductDone
  <2>2. CASE op \notin Products
    <3>1. op \in Sums /\ Open(ops, m-1) BY <1>2, <1>3, <2>2 DEF Rising
    <3>2. ~GoesOnProduct(s, n, x, l.done) BY <1>2, <1>3, <2>2 DEF GoesOnProduct
    <3>3. \E y \in Val : /\ L[m].below = Append(L[m-1].below, y)
                         /\ <<n, Answer(ops[m], y, x)>> \in L[m-1].sums
      BY <1>1, <1>2, <1>3, <1>4, <1>8, <3>1, <3>2, SumDone
    <3>4. L[m-1].sums \subseteq L[m-1].done BY <1>1, <1>2, <3>1, OpenDone
    <3> QED BY <1>3, <1>4, <3>3, <3>4
  <2> QED BY <2>1, <2>2
<1>10. PICK z : z = Answer(op, y, x) OBVIOUS
<1>11. z \in Val /\ op \in Sums \union Products BY <1>2, <1>3, <1>10, AnswerFits
<1>12. PICK U : U = low.below OBVIOUS
<1>13. U \in Seq(Val) BY <1>1, <1>2, <1>4, <1>12 DEF Levels, IsLevel
<1>14. PICK X : X = Append(U, z) OBVIOUS
<1>15. X \in Seq(Val) BY <1>11, <1>13, <1>14
<1>16. Posts(op, V, X) BY <1>8, <1>9, <1>10, <1>11, <1>12, <1>13, <1>14 DEF Posts
<1>17. PICK Q : Posted(Append(out, op), Q) /\ Q[Len(Append(out, op))] = X
  <2>1. PostsTo(out, V) BY <1>1, <1>5 DEF PostsTo
  <2>2. PostsTo(Append(out, op), X) BY <1>15, <1>16, <2>1, PostNext
  <2> QED BY <2>2 DEF PostsTo
<1>18. Has(n, Q[Len(Append(out, op))], low) BY <1>9, <1>10, <1>11, <1>12, <1>14, <1>17 DEF Has
<1>19. Levels(s, w, Rest(ops), L) BY <1>1, LevelsPop
<1> QED BY <1>2, <1>3, <1>4, <1>17, <1>18, <1>19 DEF Reads

LEMMA ReadClose ==
  ASSUME NEW s \in Seq(Words), NEW w \in Val, NEW n \in Nat, n < Len(s), s[n + 1] = ")",
         NEW ops \in Seq(Words), NEW out \in Seq(Words), Rising(ops),
         Reads(s, w, n, ops, out)
  PROVE  ops # <<>> /\ (top(ops) = "(" => Reads(s, w, n + 1, Rest(ops), out))
<1>1. PICK L, P : /\ Levels(s, w, ops, L) /\ Posted(out, P)
                  /\ Wants(s, n, P[Len(out)], L[Len(ops)]) \/ Has(n, P[Len(out)], L[Len(ops)])
  BY DEF Reads
<1>2. PICK m \in Nat : m = Len(ops) OBVIOUS
<1>3. PICK l, V : l = L[m] /\ V = P[Len(out)] OBVIOUS
<1>4. ")" \notin DOMAIN Atoi \union {"("} BY CalculatorAssumption
<1>5. ~Wants(s, n, V, l) BY <1>4, WantsWhat
<1>6. PICK x \in Val : V = Append(l.below, x) /\ <<n, x>> \in l.done
  BY <1>1, <1>2, <1>3, <1>5 DEF Has
<1>7. ~GoesOnProduct(s, n, x, l.done) BY SignsDo DEF GoesOnProduct, SignsDiffer
<1>8. ~GoesOnSum(s, n, x, l.sums) BY SignsDo DEF GoesOnSum, SignsDiffer
<1>9. n # Len(s) BY Len(s) \in Nat
<1>10. m \in 0..Len(ops) BY <1>2
<1>11. ASSUME Open(ops, m) PROVE m # 0 /\ <<n + 1, x>> \in L[m-1].done
  BY <1>1, <1>3, <1>6, <1>7, <1>8, <1>9, <1>10, <1>11, OpenEnds
<1>12. ops # <<>>
  <2> SUFFICES ASSUME ops = <<>> PROVE FALSE OBVIOUS
  <2>1. m = 0 BY <1>2
  <2> QED BY <1>11, <2>1 DEF Open
<1>13. ASSUME top(ops) = "(" PROVE Reads(s, w, n + 1, Rest(ops), out)
  <2>1. m \in 1..Len(ops) /\ ops[m] = "(" /\ Len(Rest(ops)) = m - 1
    BY <1>2, <1>12, <1>13, TopIs
  <2>2. PICK low : low = L[m-1] OBVIOUS
  <2>3. <<n + 1, x>> \in low.done BY <1>11, <2>1, <2>2 DEF Open
  <2>4. l = InParens(s, low)
    BY <1>1, <1>3, <2>1, <2>2, SignsDo DEF Levels, Above, SignsDiffer
  <2>5. l.below = low.below BY <2>4 DEF InParens, Plain
  <2>6. Has(n + 1, V, low) BY <1>6, <2>3, <2>5 DEF Has
  <2>7. Levels(s, w, Rest(ops), L) BY <1>1, <1>12, LevelsPop
  <2> QED BY <1>1, <1>3, <2>1, <2>2, <2>6, <2>7 DEF Reads
<1> QED BY <1>12, <1>13

(* An operator is read: its left operand is complete. *)
TakesProduct(ops) ==
  Open(ops, Len(ops)) \/ (Len(ops) \in 1..Len(ops) /\ ops[Len(ops)] \in Sums)

LEMMA ReadProduct ==
  ASSUME NEW s \in Seq(Words), NEW w \in Val, NEW n \in Nat, n < Len(s),
         NEW ops \in Seq(Words), NEW out \in Seq(Words), Rising(ops),
         Reads(s, w, n, ops, out), s[n + 1] \in Products,
         TakesProduct(ops)
  PROVE  Reads(s, w, n + 1, Append(ops, s[n + 1]), out)
<1>1. PICK L, P : /\ Levels(s, w, ops, L) /\ Posted(out, P)
                  /\ Wants(s, n, P[Len(out)], L[Len(ops)]) \/ Has(n, P[Len(out)], L[Len(ops)])
  BY DEF Reads
<1>2. PICK m \in Nat : m = Len(ops) OBVIOUS
<1>3. PICK l, V : l = L[m] /\ V = P[Len(out)] OBVIOUS
<1>4. PICK op : op = s[n + 1] OBVIOUS
<1>5. op \in Products /\ op \notin DOMAIN Atoi \union {"("} /\ op # ")" /\ op \notin Sums
  BY <1>4, CalculatorAssumption, SignsDo DEF SignsDiffer, Products, Arithmetic
<1>6. ~Wants(s, n, V, l) BY <1>4, <1>5, WantsWhat
<1>7. PICK x \in Val : V = Append(l.below, x) /\ <<n, x>> \in l.done
  BY <1>1, <1>2, <1>3, <1>6 DEF Has
<1>8. \A S, z : ~GoesOnSum(s, n, z, S) BY <1>4, <1>5 DEF GoesOnSum
<1>9. n # Len(s) BY Len(s) \in Nat
<1>10. m \in 0..Len(ops) BY <1>2
<1>11. GoesOnProduct(s, n, x, l.done)
  <2>1. CASE Open(ops, m)
    <3>1. \/ GoesOnProduct(s, n, x, L[m].done)
          \/ GoesOnSum(s, n, x, L[m].sums)
          \/ m = 0 /\ n = Len(s) /\ x = w
          \/ m # 0 /\ n < Len(s) /\ s[n + 1] = ")" /\ <<n + 1, x>> \in L[m-1].done
      BY <1>1, <1>3, <1>7, <1>10, <2>1, OpenEnds
    <3> QED BY <1>3, <1>4, <1>5, <1>8, <1>9, <3>1
  <2>2. CASE m \in 1..Len(ops) /\ ops[m] \in Sums
    <3>1. Open(ops, m - 1) /\ m - 1 \in 0..Len(ops) BY <2>2 DEF Rising
    <3>2. ~(\E y \in Val : <<n, Answer(ops[m], y, x)>> \in L[m-1].sums)
      <4> SUFFICES ASSUME NEW y \in Val, <<n, Answer(ops[m], y, x)>> \in L[m-1].sums
                   PROVE FALSE
        OBVIOUS
      <4>1. PICK v : v = Answer(ops[m], y, x) OBVIOUS
      <4>2. PICK k : k = m - 1 OBVIOUS
      <4>3. \/ GoesOnSum(s, n, v, L[k].sums)
            \/ k = 0 /\ n = Len(s) /\ v = w
            \/ k # 0 /\ n < Len(s) /\ s[n + 1] = ")" /\ <<n + 1, v>> \in L[k-1].done
        <5>1. k \in 0..Len(ops) /\ Open(ops, k) BY <3>1, <4>2
        <5>2. <<n, v>> \in L[k].sums BY <4>1, <4>2
        <5> QED BY <1>1, <5>1, <5>2, OpenSums
      <4> QED BY <1>4, <1>5, <1>8, <1>9, <4>3
    <3> QED BY <1>1, <1>3, <1>7, <2>2, <3>2, SumDone
  <2> QED BY <1>2, <2>1, <2>2 DEF TakesProduct
<1>12. PICK y \in Val, r \in 0..Len(s) :
         FactorAt(s, n + 2, r, y) /\ <<r, Answer(op, x, y)>> \in l.done
  BY <1>4, <1>11 DEF GoesOnProduct
<1>13. PICK new : new = OnProduct(s, op, x, l) OBVIOUS
<1>14. new.below = V /\ new.sums = {} /\ new.done = Under(s, op, x, l.done)
  BY <1>7, <1>13 DEF OnProduct
<1>15. <<r, y>> \in new.done
  <2>1. PICK a : a = <<r, y>> OBVIOUS
  <2>2. a \in Places(s) /\ a[1] = r /\ a[2] = y BY <2>1 DEF Places
  <2> QED BY <1>12, <1>14, <2>1, <2>2 DEF Under
<1>16. V \in Seq(Val) BY <1>1, <1>3, Len(out) \in Nat DEF Posted
<1>17. IsLevel(s, new) BY <1>14, <1>16 DEF IsLevel, Under
<1>18. Above(s, op, l, new) BY <1>5, <1>13 DEF Above
<1>19. PICK M : Levels(s, w, Append(ops, op), M) /\ M[Len(Append(ops, op))] = new
  BY <1>1, <1>2, <1>3, <1>17, <1>18, LevelsPush
<1>20. Wants(s, n + 1, V, new)
  <2>1. n + 1 + 1 = n + 2 OBVIOUS
  <2> QED BY <1>12, <1>14, <1>15, <2>1 DEF Wants
<1> QED BY <1>1, <1>3, <1>4, <1>19, <1>20 DEF Reads

LEMMA ReadSum ==
  ASSUME NEW s \in Seq(Words), NEW w \in Val, NEW n \in Nat, n < Len(s),
         NEW ops \in Seq(Words), NEW out \in Seq(Words), Rising(ops),
         Reads(s, w, n, ops, out), s[n + 1] \in Sums, Open(ops, Len(ops))
  PROVE  Reads(s, w, n + 1, Append(ops, s[n + 1]), out)
<1>1. PICK L, P : /\ Levels(s, w, ops, L) /\ Posted(out, P)
                  /\ Wants(s, n, P[Len(out)], L[Len(ops)]) \/ Has(n, P[Len(out)], L[Len(ops)])
  BY DEF Reads
<1>2. PICK m \in Nat : m = Len(ops) OBVIOUS
<1>3. PICK l, V : l = L[m] /\ V = P[Len(out)] OBVIOUS
<1>4. PICK op : op = s[n + 1] OBVIOUS
<1>5. op \in Sums /\ op \notin DOMAIN Atoi \union {"("} /\ op # ")" /\ op \notin Products
  BY <1>4, CalculatorAssumption, SignsDo DEF SignsDiffer, Sums, Arithmetic
<1>6. ~Wants(s, n, V, l) BY <1>4, <1>5, WantsWhat
<1>7. PICK x \in Val : V = Append(l.below, x) /\ <<n, x>> \in l.done
  BY <1>1, <1>2, <1>3, <1>6 DEF Has
<1>8. ~GoesOnProduct(s, n, x, l.done) BY <1>4, <1>5 DEF GoesOnProduct
<1>9. n # Len(s) BY Len(s) \in Nat
<1>10. m \in 0..Len(ops) /\ Open(ops, m) BY <1>2
<1>11. GoesOnSum(s, n, x, l.sums)
  <2>1. \/ GoesOnProduct(s, n, x, L[m].done)
        \/ GoesOnSum(s, n, x, L[m].sums)
        \/ m = 0 /\ n = Len(s) /\ x = w
        \/ m # 0 /\ n < Len(s) /\ s[n + 1] = ")" /\ <<n + 1, x>> \in L[m-1].done
    BY <1>1, <1>3, <1>7, <1>10, OpenEnds
  <2> QED BY <1>3, <1>4, <1>5, <1>8, <1>9, <2>1
<1>12. PICK y \in Val, r \in 0..Len(s) :
         TermAt(s, n + 2, r, y) /\ <<r, Answer(op, x, y)>> \in l.sums
  BY <1>4, <1>11 DEF GoesOnSum
<1>13. PICK new : new = OnSum(s, op, x, l) OBVIOUS
<1>14. PICK B : B = Under(s, op, x, l.sums) OBVIOUS
<1>15. new.below = V /\ new.sums = {} /\ new.done = Reach(s, Muls(s), B)
  BY <1>7, <1>13, <1>14 DEF OnSum
<1>16. B \in SUBSET Places(s) /\ <<r, y>> \in B
  <2>1. PICK a : a = <<r, y>> OBVIOUS
  <2>2. a \in Places(s) /\ a[1] = r /\ a[2] = y BY <2>1 DEF Places
  <2> QED BY <1>12, <1>14, <2>1, <2>2 DEF Under
<1>17. PICK q \in 0..Len(s), z \in Val : FactorAt(s, n + 2, q, z) /\ <<q, z>> \in new.done
  <2>1. PICK p : p = n + 2 OBVIOUS
  <2>2. \E q \in 0..Len(s), z \in Val : FactorAt(s, p, q, z) /\ <<q, z>> \in Reach(s, Muls(s), B)
    BY <1>12, <1>16, <2>1, TermBegins
  <2> QED BY <1>15, <2>1, <2>2
<1>18. V \in Seq(Val) BY <1>1, <1>3, Len(out) \in Nat DEF Posted
<1>19. IsLevel(s, new) BY <1>15, <1>16, <1>18, ReachBase DEF IsLevel
<1>20. Above(s, op, l, new) BY <1>5, <1>13 DEF Above
<1>21. PICK M : Levels(s, w, Append(ops, op), M) /\ M[Len(Append(ops, op))] = new
  BY <1>1, <1>2, <1>3, <1>19, <1>20, LevelsPush
<1>22. Wants(s, n + 1, V, new)
  <2>1. n + 1 + 1 = n + 2 OBVIOUS
  <2> QED BY <1>15, <1>17, <2>1 DEF Wants
<1> QED BY <1>1, <1>3, <1>4, <1>21, <1>22 DEF Reads

(* Before the first token, and behind the last. *)
LEMMA ReadFirst ==
  ASSUME NEW s \in Seq(Words), NEW w, ExprAt(s, 1, Len(s), w)
  PROVE  Reads(s, w, 0, <<>>, <<>>)
<1>1. w \in Val BY DEF ExprAt, Span
<1>2. PICK L, P : L = [k \in {0} |-> Base(s, w)] /\ P = [k \in {0} |-> <<>>] OBVIOUS
<1>3. L[0] = Base(s, w) /\ P[0] = <<>> BY <1>2
<1>4. IsLevel(s, Base(s, w)) /\ Base(s, w).below = <<>> BY <1>1, BaseLevel
<1>5. PICK o : o = <<>> OBVIOUS
<1>6. Len(o) = 0 /\ o \in Seq(Val) BY <1>5
<1>7. Levels(s, w, o, L)
  <2>1. \A k \in 0..0 : k = 0 OBVIOUS
  <2>2. \A k \in 1..0 : FALSE OBVIOUS
  <2> QED BY <1>3, <1>4, <1>6, <2>1, <2>2 DEF Levels
<1>8. Posted(o, P)
  <2>1. \A k \in 0..0 : k = 0 OBVIOUS
  <2>2. \A k \in 1..0 : FALSE OBVIOUS
  <2> QED BY <1>3, <1>5, <1>6, <2>1, <2>2 DEF Posted
<1>9. PICK B : B = {<<Len(s), w>>} OBVIOUS
<1>10. B \in SUBSET Places(s) /\ <<Len(s), w>> \in B BY <1>1, <1>9, Len(s) \in Nat DEF Places
<1>11. PICK q \in 0..Len(s), y \in Val :
         FactorAt(s, 1, q, y) /\ <<q, y>> \in Plain(s, <<>>, B).done
  BY <1>10, ExprBegins
<1>12. Wants(s, 0, P[0], L[0])
  <2>1. 0 + 1 = 1 OBVIOUS
  <2> QED BY <1>3, <1>4, <1>9, <1>11, <2>1 DEF Wants, Base
<1> QED BY <1>5, <1>6, <1>7, <1>8, <1>12 DEF Reads

LEMMA ReadLast ==
  ASSUME NEW s \in Seq(Words), NEW w \in Val,
         NEW ops \in Seq(Words), NEW out \in Seq(Words),
         Reads(s, w, Len(s), ops, out)
  PROVE  /\ ops # <<>> => top(ops) \in Sums \union Products
         /\ ops = <<>> => \E P : Posted(out, P) /\ P[Len(out)] = <<w>>
<1>1. PICK L, P : /\ Levels(s, w, ops, L) /\ Posted(out, P)
                  /\ \/ Wants(s, Len(s), P[Len(out)], L[Len(ops)])
                     \/ Has(Len(s), P[Len(out)], L[Len(ops)])
  BY DEF Reads
<1>2. PICK m \in Nat : m = Len(ops) OBVIOUS
<1>3. PICK l, V : l = L[m] /\ V = P[Len(out)] OBVIOUS
<1>4. PICK n \in Nat : n = Len(s) OBVIOUS
<1>5. ~(n + 1 \in 1..Len(s)) /\ ~(n < Len(s)) BY <1>4
<1>6. ~Wants(s, n, V, l) BY <1>5, WantsWhat
<1>7. PICK x \in Val : V = Append(l.below, x) /\ <<n, x>> \in l.done
  BY <1>1, <1>2, <1>3, <1>4, <1>6 DEF Has
<1>8. ~GoesOnProduct(s, n, x, l.done) /\ ~GoesOnSum(s, n, x, l.sums)
  BY <1>5 DEF GoesOnProduct, GoesOnSum
<1>9. ASSUME m \in 0..Len(ops), Open(ops, m) PROVE m = 0 /\ x = w
  BY <1>1, <1>3, <1>5, <1>7, <1>8, <1>9, OpenEnds
<1>10. ASSUME ops # <<>> PROVE top(ops) \in Sums \union Products
  <2>1. m \in 1..Len(ops) /\ m \in 0..Len(ops) /\ m # 0 /\ top(ops) = ops[m]
    BY <1>2, <1>10, TopIs
  <2>2. ops[m] # "(" BY <1>9, <2>1 DEF Open
  <2> QED BY <1>1, <2>1, <2>2 DEF Levels, Above
<1>11. ASSUME ops = <<>> PROVE V = <<w>>
  <2>1. m = 0 BY <1>2, <1>11
  <2>2. x = w BY <1>2, <1>9, <2>1 DEF Open
  <2>3. l.below = <<>> BY <1>1, <1>3, <2>1, BaseLevel DEF Levels
  <2>4. Append(<<>>, x) = <<x>> OBVIOUS
  <2> QED BY <1>7, <2>2, <2>3, <2>4
<1> QED BY <1>1, <1>3, <1>10, <1>11

-----------------------------------------------------------------------------
(***************************************************************************)
(* The number stack S of the calculation holds the values V.               *)
(***************************************************************************)
Holds(V, S) == Len(S) = Len(V) /\ \A k \in 1..Len(S) : V[k] = {S[k]}

Calculates(w) ==
  \E P : Posted(output, P) /\ P[Len(output)] = <<w>> /\ Holds(P[i], nums)

Converts(w) == Reads(tokens, w, i, op_stack, output)

(* The line is an expression of the value w. *)
Follows(w) ==
  /\ phase = "convert" => Converts(w)
  /\ phase = "eval" => Calculates(w)
  /\ phase # "undefined"
  /\ phase \in {"free", "done"} => w = {result}
  /\ phase = "trap" => w = {}

RInv == \A e \in Grammar : e.toks = tokens => Follows(e.val)

LEMMA Precedences ==
  /\ precedence("(") = 0
  /\ \A op \in Sums : precedence(op) = 1
  /\ \A op \in Products : precedence(op) = 2
BY DEF precedence, Sums, Products

LEMMA StackOfSigns ==
  ASSUME IInv, NEW w, Converts(w)
  PROVE  \A k \in 1..Len(op_stack) : op_stack[k] \in Sums \union Products \union {"("}
<1>1. PICK L : Levels(tokens, w, op_stack, L) BY DEF Converts, Reads
<1> QED BY <1>1 DEF Levels, Above

LEMMA StackIsRising ==
  ASSUME IInv, NEW w, Converts(w)
  PROVE  Rising(op_stack)
<1>1. PICK o : o = op_stack OBVIOUS
<1>2. PICK m \in Nat : m = Len(o) BY <1>1 DEF IInv, TypeOK
<1>3. \A k \in 1..m : o[k] \in Sums \union Products \union {"("}
  BY <1>1, <1>2, StackOfSigns
<1>4. \A k \in 1..m-1 : o[k+1] = "(" \/ precedence(o[k]) < precedence(o[k+1])
  BY <1>1, <1>2 DEF IInv, StackRises
<1>5. ASSUME NEW k \in 1..m
      PROVE  /\ o[k] \in Sums => Open(o, k-1)
             /\ o[k] \in Products => Open(o, k-1) \/ o[k-1] \in Sums
  <2>1. CASE k = 1
    <3>1. k - 1 = 0 BY <2>1
    <3> QED BY <3>1 DEF Open
  <2>2. CASE k # 1
    <3>1. k - 1 \in 1..m-1 /\ k - 1 \in 1..m /\ k - 1 + 1 = k BY <2>2
    <3>2. PICK a, b : a = o[k-1] /\ b = o[k] OBVIOUS
    <3>3. a \in Sums \union Products \union {"("} BY <1>3, <3>1, <3>2
    <3>4. b = "(" \/ precedence(a) < precedence(b) BY <1>4, <3>1, <3>2
    <3>5. b \in Sums => a = "("
      BY <3>3, <3>4, Precedences, SignsDo DEF SignsDiffer
    <3>6. b \in Products => a = "(" \/ a \in Sums
      BY <3>3, <3>4, Precedences, SignsDo DEF SignsDiffer
    <3> QED BY <3>2, <3>5, <3>6 DEF Open
  <2> QED BY <2>1, <2>2
<1> QED BY <1>1, <1>2, <1>5 DEF Rising

(* Between tokens of an expression: what may be read next. *)
LEMMA ReadsSign ==
  ASSUME NEW w \in Val, IInv, Converting, Converts(w), ~is_number(c), c # "("
  PROVE  c \in Sums \union Products \union {")"}
<1>1. PICK s, n, ops : s = tokens /\ n = i /\ ops = op_stack OBVIOUS
<1>2. s \in Seq(Words) /\ n \in Nat /\ n < Len(s) /\ Len(ops) \in Nat /\ Rising(ops)
  BY <1>1, StackIsRising DEF IInv, TypeOK, Converting
<1>3. s[n + 1] \notin DOMAIN Atoi \union {"("} /\ c = s[n + 1]
  BY <1>1 DEF c, is_number
<1>4. PICK L, V : Levels(s, w, ops, L) /\ (Wants(s, n, V, L[Len(ops)]) \/ Has(n, V, L[Len(ops)]))
  BY <1>1 DEF Converts, Reads
<1>5. ~Wants(s, n, V, L[Len(ops)]) BY <1>2, <1>3, WantsWhat
<1> QED BY <1>2, <1>3, <1>4, <1>5, HasWhat

LEMMA FollowNumber ==
  ASSUME NEW w \in Val, IInv, Converts(w), Number PROVE Follows(w)'
<1>1. Reads(tokens, w, i + 1, op_stack, Append(output, tokens[i + 1]))
  BY StackIsRising, ReadNumber DEF Converts, Number, Converting, IInv, TypeOK, c
<1>2. /\ tokens' = tokens /\ i' = i + 1 /\ op_stack' = op_stack
      /\ output' = Append(output, tokens[i + 1]) /\ phase' = "convert"
  BY DEF Number, Consume, Converting, c
<1> QED BY <1>1, <1>2 DEF Follows, Converts

LEMMA FollowOpenParen ==
  ASSUME NEW w \in Val, IInv, Converts(w), OpenParen PROVE Follows(w)'
<1>1. Reads(tokens, w, i + 1, Append(op_stack, "("), output)
  BY StackIsRising, ReadOpen DEF Converts, OpenParen, Converting, IInv, TypeOK, c
<1>2. /\ tokens' = tokens /\ i' = i + 1 /\ op_stack' = Append(op_stack, "(")
      /\ output' = output /\ phase' = "convert"
  BY DEF OpenParen, Consume, Converting, push
<1> QED BY <1>1, <1>2 DEF Follows, Converts

LEMMA FollowPop ==
  ASSUME NEW w \in Val, IInv, Converts(w), phase = "convert", op_stack # <<>>,
         PopToOutput, StayAt, i < Len(tokens) => c \notin DOMAIN Atoi \union {"("},
         top(op_stack) \in Sums \union Products,
         top(op_stack) \in Products \/ (i < Len(tokens) => c \notin Products)
  PROVE  Follows(w)'
<1>1. i \in 0..Len(tokens) BY DEF IInv, TypeOK, Room
<1>2. Reads(tokens, w, i, Rest(op_stack), Append(output, top(op_stack)))
  BY <1>1, StackIsRising, ReadPop DEF Converts, IInv, TypeOK, c
<1>3. /\ tokens' = tokens /\ i' = i /\ op_stack' = Rest(op_stack)
      /\ output' = Append(output, top(op_stack)) /\ phase' = "convert"
  BY DEF PopToOutput, StayAt
<1> QED BY <1>2, <1>3 DEF Follows, Converts

LEMMA TopOfSigns ==
  ASSUME IInv, NEW w, Converts(w), op_stack # <<>>
  PROVE  /\ top(op_stack) \in Sums \union Products \union {"("}
         /\ Len(op_stack) \in 1..Len(op_stack) /\ top(op_stack) = op_stack[Len(op_stack)]
<1>1. op_stack \in Seq(Words) BY DEF IInv, TypeOK
<1>2. Len(op_stack) \in 1..Len(op_stack) /\ top(op_stack) = op_stack[Len(op_stack)]
  BY <1>1, TopIs
<1> QED BY <1>2, StackOfSigns

LEMMA FollowCloseParen ==
  ASSUME NEW w \in Val, IInv, Converts(w), CloseParen PROVE Follows(w)'
<1>1. /\ tokens \in Seq(Words) /\ i \in Nat /\ i < Len(tokens) /\ tokens[i + 1] = ")"
      /\ op_stack \in Seq(Words) /\ output \in Seq(Words) /\ phase = "convert" /\ c = ")"
  BY DEF CloseParen, Converting, IInv, TypeOK, c
<1>2. /\ op_stack # <<>>
      /\ top(op_stack) = "(" => Reads(tokens, w, i + 1, Rest(op_stack), output)
  BY <1>1, StackIsRising, ReadClose DEF Converts
<1>3. CASE top(op_stack) # "(" /\ PopToOutput /\ StayAt
  <2>1. top(op_stack) \in Sums \union Products BY <1>2, <1>3, TopOfSigns
  <2>2. c \notin DOMAIN Atoi \union {"("} /\ c \notin Products
    BY <1>1, CalculatorAssumption, SignsDo DEF SignsDiffer
  <2> QED BY <1>1, <1>2, <1>3, <2>1, <2>2, FollowPop
<1>4. CASE /\ top(op_stack) = "(" /\ op_stack' = Rest(op_stack) /\ UNCHANGED output
           /\ Consume
  BY <1>1, <1>2, <1>4 DEF Follows, Converts, Consume
<1> QED BY <1>2, <1>3, <1>4 DEF CloseParen

LEMMA FollowOperator ==
  ASSUME NEW w \in Val, IInv, Converts(w), Operator PROVE Follows(w)'
<1>1. /\ tokens \in Seq(Words) /\ i \in Nat /\ i < Len(tokens) /\ c = tokens[i + 1]
      /\ op_stack \in Seq(Words) /\ output \in Seq(Words) /\ phase = "convert"
      /\ ~is_number(c) /\ c \notin {"(", ")"} /\ Converting
  BY DEF Operator, Converting, IInv, TypeOK, c
<1>2. c \in Sums \union Products BY <1>1, ReadsSign
<1>3. c \notin DOMAIN Atoi \union {"("} BY <1>1 DEF is_number
<1>4. Rising(op_stack) BY StackIsRising
<1>5. CASE Yields /\ PopToOutput /\ StayAt
  <2>1. op_stack # <<>> /\ precedence(top(op_stack)) >= precedence(c) BY <1>5 DEF Yields
  <2>2. top(op_stack) \in Sums \union Products \union {"("} BY <2>1, TopOfSigns
  <2>3. top(op_stack) \in Sums \union Products
    BY <1>2, <2>1, <2>2, Precedences
  <2>4. top(op_stack) \in Products \/ c \notin Products
    BY <2>1, <2>3, Precedences
  <2> QED BY <1>1, <1>3, <1>5, <2>1, <2>3, <2>4, FollowPop
<1>6. CASE ~Yields /\ push(c) /\ UNCHANGED output /\ Consume
  <2>1. ASSUME op_stack # <<>>
        PROVE  /\ Len(op_stack) \in 1..Len(op_stack)
               /\ op_stack[Len(op_stack)] \in Sums \union Products \union {"("}
               /\ ~(precedence(op_stack[Len(op_stack)]) >= precedence(c))
    BY <1>6, <2>1, TopOfSigns DEF Yields
  <2>2. op_stack = <<>> => Len(op_stack) = 0 OBVIOUS
  <2>3. CASE c \in Sums
    <3>1. Open(op_stack, Len(op_stack)) BY <2>1, <2>2, <2>3, Precedences DEF Open
    <3>2. Reads(tokens, w, i + 1, Append(op_stack, c), output)
      BY <1>1, <1>4, <2>3, <3>1, ReadSum DEF Converts
    <3> QED BY <1>1, <1>6, <3>2 DEF Follows, Converts, Consume, push
  <2>4. CASE c \in Products
    <3>1. TakesProduct(op_stack)
      BY <2>1, <2>2, <2>4, Precedences DEF Open, TakesProduct
    <3>2. Reads(tokens, w, i + 1, Append(op_stack, c), output)
      BY <1>1, <1>4, <2>4, <3>1, ReadProduct DEF Converts
    <3> QED BY <1>1, <1>6, <3>2 DEF Follows, Converts, Consume, push
  <2> QED BY <1>2, <2>3, <2>4
<1> QED BY <1>5, <1>6 DEF Operator

LEMMA FollowFlush ==
  ASSUME NEW w \in Val, IInv, Converts(w), Flush PROVE Follows(w)'
<1>1. /\ tokens \in Seq(Words) /\ i = Len(tokens) /\ phase = "convert"
      /\ op_stack \in Seq(Words) /\ output \in Seq(Words) /\ nums = <<>>
  BY DEF Flush, IInv, TypeOK, Room
<1>2. Reads(tokens, w, Len(tokens), op_stack, output) BY <1>1 DEF Converts
<1>3. CASE ~Flushed /\ PopToOutput /\ StayAt
  <2>1. op_stack # <<>> BY <1>3 DEF Flushed
  <2>2. top(op_stack) \in Sums \union Products BY <1>1, <1>2, <2>1, ReadLast
  <2>3. ~(i < Len(tokens)) BY <1>1
  <2> QED BY <1>1, <1>3, <2>1, <2>2, <2>3, FollowPop
<1>4. CASE /\ Flushed /\ phase' = "eval" /\ i' = 0
           /\ UNCHANGED <<tokens, op_stack, output, nums, result>>
  <2>1. PICK P : Posted(output, P) /\ P[Len(output)] = <<w>>
    BY <1>1, <1>2, <1>4, ReadLast DEF Flushed
  <2>2. P[0] = <<>> BY <2>1 DEF Posted
  <2>3. PICK S : S = <<>> OBVIOUS
  <2>4. Holds(S, S) BY <2>3 DEF Holds
  <2>5. Holds(P[0], nums) BY <1>1, <2>2, <2>3, <2>4
  <2>6. Calculates(w)' BY <1>4, <2>1, <2>5 DEF Calculates
  <2> QED BY <1>4, <2>6 DEF Follows
<1> QED BY <1>3, <1>4 DEF Flush

-----------------------------------------------------------------------------
(* Calculation: a token of the output at a time. *)
LEMMA AppendSame ==
  ASSUME NEW S, NEW U \in Seq(S), NEW V \in Seq(S), NEW x, NEW y, Append(U, x) = Append(V, y)
  PROVE  U = V /\ x = y
<1>1. PICK A : A = Append(U, x) /\ A = Append(V, y) OBVIOUS
<1>2. PICK n, m \in Nat : n = Len(U) /\ m = Len(V) OBVIOUS
<1>3. Len(A) = n + 1 /\ A[n + 1] = x /\ \A k \in 1..n : A[k] = U[k]
  BY <1>1, <1>2, AppendOf
<1>4. Len(A) = m + 1 /\ A[m + 1] = y /\ \A k \in 1..m : A[k] = V[k]
  BY <1>1, <1>2, AppendOf
<1>5. n = m /\ x = y BY <1>3, <1>4
<1> QED BY <1>2, <1>3, <1>4, <1>5, SameSeq

LEMMA PostsAt ==
  ASSUME IInv, Evaluating, NEW P, Posted(output, P)
  PROVE  /\ i \in Nat /\ i + 1 \in 1..Len(output) /\ Len(output) \in Nat
         /\ P[i] \in Seq(Val) /\ P[i+1] \in Seq(Val)
         /\ Posts(target, P[i], P[i+1])
<1>1. i \in Nat /\ i + 1 \in 1..Len(output) /\ Len(output) \in Nat
  BY DEF IInv, TypeOK, Evaluating
<1>2. i \in 0..Len(output) /\ i + 1 \in 0..Len(output) /\ i + 1 - 1 = i BY <1>1
<1> QED BY <1>1, <1>2 DEF Posted, target

LEMMA HoldsAppend ==
  ASSUME NEW V \in Seq(Val), NEW S \in Seq(Ints), NEW v, Holds(V, S)
  PROVE  Holds(Append(V, {v}), Append(S, v))
<1>1. PICK n \in Nat : n = Len(V) /\ n = Len(S) BY DEF Holds
<1>2. PICK A, B, z : z = {v} /\ A = Append(V, z) /\ B = Append(S, v) OBVIOUS
<1>3. Len(A) = n + 1 /\ A[n + 1] = z /\ \A k \in 1..n : A[k] = V[k]
  <2>1. /\ Len(Append(V, z)) = Len(V) + 1
        /\ \A k \in 1..Len(V) : Append(V, z)[k] = V[k]
        /\ Append(V, z)[Len(V) + 1] = z
    BY AppendOf
  <2> QED BY <1>1, <1>2, <2>1
<1>4. Len(B) = n + 1 /\ B[n + 1] = v /\ \A k \in 1..n : B[k] = S[k]
  BY <1>1, <1>2, AppendOf
<1>5. ASSUME NEW k \in 1..n+1 PROVE A[k] = {B[k]}
  <2>1. k \in 1..n \/ k = n + 1 OBVIOUS
  <2> QED BY <1>1, <1>2, <1>3, <1>4, <2>1 DEF Holds
<1> QED BY <1>2, <1>3, <1>4, <1>5 DEF Holds

(* The two operands are on top of the stack. *)
LEMMA HoldsTwo ==
  ASSUME NEW W \in Seq(Val), NEW x, NEW y, NEW S \in Seq(Ints),
         Holds(Append(Append(W, x), y), S)
  PROVE  /\ Len(S) >= 2 /\ x = {S[Len(S) - 1]} /\ y = {top(S)}
         /\ Rest(Rest(S)) \in Seq(Ints) /\ Holds(W, Rest(Rest(S)))
<1>1. PICK n \in Nat : n = Len(W) OBVIOUS
<1>2. PICK A, B : A = Append(W, x) /\ B = Append(A, y) OBVIOUS
<1>3. Len(A) = n + 1 /\ A[n + 1] = x /\ \A k \in 1..n : A[k] = W[k]
  BY <1>1, <1>2, AppendOf
<1>4. Len(B) = n + 2 /\ B[n + 2] = y /\ \A k \in 1..n+1 : B[k] = A[k]
  <2>1. PICK D : A \in Seq(D)
    <3>1. PICK D : D = Val \union {x} OBVIOUS
    <3>2. W \in Seq(D) /\ x \in D
      <4>1. \A k \in 1..n : W[k] \in D BY <1>1, <3>1
      <4> QED BY <1>1, <3>1, <4>1
    <3>3. Append(W, x) \in Seq(D) BY <3>2
    <3> QED BY <1>2, <3>3
  <2>2. PICK N \in Nat : N = Len(A) /\ N = n + 1 BY <1>3
  <2>3. Len(B) = N + 1 /\ B[N + 1] = y /\ \A k \in 1..N : B[k] = A[k]
    <3>1. /\ Len(Append(A, y)) = Len(A) + 1
          /\ \A k \in 1..Len(A) : Append(A, y)[k] = A[k]
          /\ Append(A, y)[Len(A) + 1] = y
      BY <2>1, AppendOf
    <3> QED BY <1>2, <2>2, <3>1
  <2> QED BY <2>2, <2>3
<1>5. Len(S) = n + 2 /\ \A k \in 1..n+2 : B[k] = {S[k]} BY <1>2, <1>4 DEF Holds
<1>6. x = {S[n+1]} /\ y = {S[n+2]} BY <1>3, <1>4, <1>5
<1>7. \A k \in 1..n : W[k] = {S[k]} BY <1>3, <1>4, <1>5
<1>8. PICK R : R = Rest(S) OBVIOUS
<1>9. R \in Seq(Ints) /\ Len(R) = n + 1 /\ \A k \in 1..n+1 : R[k] = S[k]
  <2>1. S # <<>> BY <1>5
  <2>2. PICK N \in Nat : N = Len(S) /\ N = n + 2 BY <1>5
  <2>3. R \in Seq(Ints) /\ Len(R) = N - 1 /\ \A k \in 1..N-1 : R[k] = S[k]
    BY <1>8, <2>1, <2>2, RestSeq
  <2> QED BY <2>2, <2>3
<1>10. PICK Q : Q = Rest(R) OBVIOUS
<1>11. Q \in Seq(Ints) /\ Len(Q) = n /\ \A k \in 1..n : Q[k] = R[k]
  <2>1. R # <<>> BY <1>9
  <2>2. PICK N \in Nat : N = Len(R) /\ N = n + 1 BY <1>9
  <2>3. Q \in Seq(Ints) /\ Len(Q) = N - 1 /\ \A k \in 1..N-1 : Q[k] = R[k]
    BY <1>9, <1>10, <2>1, <2>2, RestSeq
  <2> QED BY <2>2, <2>3
<1>12. Holds(W, Q) BY <1>1, <1>7, <1>9, <1>11 DEF Holds
<1> QED BY <1>5, <1>6, <1>8, <1>10, <1>11, <1>12 DEF top

LEMMA AnswerOf ==
  ASSUME NEW op, NEW a, NEW b
  PROVE  Answer(op, {a}, {b}) = IF Traps(op, a, b) THEN {} ELSE {Apply(op, a, b)}
<1>1. {a} \X {b} = {<<a, b>>} OBVIOUS
<1>2. \A z \in {a} \X {b} : z[1] = a /\ z[2] = b OBVIOUS
<1>3. <<a, b>> \in {a} \X {b} OBVIOUS
<1> QED BY <1>2, <1>3, Zenon DEF Answer

(* An answer that cannot be given spoils what comes after it. *)
Spoilt(V) == \E k \in 1..Len(V) : V[k] = {}

LEMMA AnswerSpoilt == ASSUME NEW op, NEW V PROVE Answer(op, {}, V) = {} /\ Answer(op, V, {}) = {}
BY DEF Answer

LEMMA SpoiltStays ==
  ASSUME NEW t, NEW U \in Seq(Val), NEW V, Posts(t, U, V), Spoilt(U)
  PROVE  Spoilt(V)
<1>1. PICK k \in 1..Len(U) : U[k] = {} BY DEF Spoilt
<1>2. CASE t \in DOMAIN Atoi /\ V = Append(U, {Atoi[t]})
  <2>1. PICK n \in Nat : n = Len(U) OBVIOUS
  <2>2. PICK v : v = {Atoi[t]} OBVIOUS
  <2>3. Len(V) = n + 1 /\ \A j \in 1..n : V[j] = U[j] BY <1>2, <2>1, <2>2, AppendOf
  <2>4. k \in 1..n+1 BY <1>1, <2>1
  <2> QED BY <1>1, <2>1, <2>3, <2>4 DEF Spoilt
<1>3. ASSUME NEW W \in Seq(Val), NEW x \in Val, NEW y \in Val,
             U = Append(Append(W, x), y), V = Append(W, Answer(t, x, y))
      PROVE  Spoilt(V)
  <2>1. PICK n \in Nat : n = Len(W) OBVIOUS
  <2>2. PICK A, z : A = Append(W, x) /\ z = Answer(t, x, y) OBVIOUS
  <2>3. A \in Seq(Val) /\ Len(A) = n + 1 /\ A[n + 1] = x /\ \A j \in 1..n : A[j] = W[j]
    BY <2>1, <2>2, AppendOf
  <2>4. Len(U) = n + 2 /\ U[n + 2] = y /\ \A j \in 1..n+1 : U[j] = A[j]
    <3>1. PICK N \in Nat : N = Len(A) /\ N = n + 1 BY <2>3
    <3>2. Len(U) = N + 1 /\ U[N + 1] = y /\ \A j \in 1..N : U[j] = A[j]
      BY <1>3, <2>2, <2>3, <3>1, AppendOf
    <3> QED BY <3>1, <3>2
  <2>5. Len(V) = n + 1 /\ V[n + 1] = z /\ \A j \in 1..n : V[j] = W[j]
    BY <1>3, <2>1, <2>2, AppendOf
  <2>6. k \in 1..n \/ k = n + 1 \/ k = n + 2 BY <1>1, <2>4
  <2>7. CASE k \in 1..n
    <3>1. V[k] = {} /\ k \in 1..n+1 BY <1>1, <2>3, <2>4, <2>5, <2>7
    <3> QED BY <2>5, <3>1 DEF Spoilt
  <2>8. CASE k = n + 1 \/ k = n + 2
    <3>1. x = {} \/ y = {} BY <1>1, <2>3, <2>4, <2>8
    <3>2. z = {} BY <2>2, <3>1, AnswerSpoilt
    <3>3. n + 1 \in 1..n+1 OBVIOUS
    <3> QED BY <2>5, <3>2, <3>3 DEF Spoilt
  <2> QED BY <2>6, <2>7, <2>8
<1> QED BY <1>2, <1>3 DEF Posts

LEMMA SpoiltToTheEnd ==
  ASSUME NEW out, Len(out) \in Nat, NEW P, Posted(out, P), NEW n \in 0..Len(out), Spoilt(P[n]),
         NEW w, P[Len(out)] = <<w>>
  PROVE  w = {}
<1>1. PICK m \in Nat : m = Len(out) OBVIOUS
<1> DEFINE G == {d \in 0..m-n : Spoilt(P[n + d])}
<1>2. ASSUME NEW d \in 0..m-n, d = 0 \/ d - 1 \in G PROVE d \in G
  <2>1. CASE d = 0
    <3>1. n + d = n BY <2>1, <1>1
    <3> QED BY <3>1
  <2>2. CASE d # 0
    <3>1. d - 1 \in 0..m-n /\ Spoilt(P[n + (d - 1)]) BY <1>2, <2>2
    <3>2. PICK k \in 1..m : k = n + d BY <1>1, <2>2
    <3>3. n + (d - 1) = k - 1 /\ k - 1 \in 0..m BY <1>1, <3>2
    <3>4. P[k-1] \in Seq(Val) /\ Posts(out[k], P[k-1], P[k]) BY <1>1, <3>3 DEF Posted
    <3>5. Spoilt(P[k]) BY <3>1, <3>3, <3>4, SpoiltStays
    <3> QED BY <3>2, <3>5
  <2> QED BY <2>1, <2>2
<1>3. m - n \in Nat /\ n + (m - n) = m /\ m - n \in 0..m-n BY <1>1
<1>4. 0..m-n \subseteq G
  <2> HIDE DEF G
  <2> QED BY <1>2, <1>3, Upwards
<1>5. Spoilt(P[m]) BY <1>3, <1>4
<1>6. PICK V : V = <<w>> OBVIOUS
<1>7. Len(V) = 1 /\ V[1] = w BY <1>6
<1>8. PICK k \in 1..1 : V[k] = {} BY <1>1, <1>5, <1>6, <1>7 DEF Spoilt
<1>9. k = 1 BY <1>8
<1> QED BY <1>7, <1>8, <1>9

LEMMA FollowPushNumber ==
  ASSUME NEW w \in Val, IInv, Calculates(w), PushNumber PROVE Follows(w)'
<1>1. PICK P : Posted(output, P) /\ P[Len(output)] = <<w>> /\ Holds(P[i], nums)
  BY DEF Calculates
<1>2. P[i] \in Seq(Val) /\ Posts(target, P[i], P[i+1]) BY <1>1, PostsAt DEF PushNumber
<1>3. is_number(target) BY DEF PushNumber
<1>4. target \in DOMAIN Atoi /\ P[i+1] = Append(P[i], {Atoi[target]})
  BY <1>2, <1>3, NumbersAre DEF Posts
<1>5. Value(target) = Atoi[target] BY <1>4, AtoiIs
<1>6. nums \in Seq(Ints) BY DEF IInv, TypeOK
<1>7. Holds(P[i+1], Append(nums, Value(target)))
  BY <1>1, <1>2, <1>4, <1>5, <1>6, HoldsAppend
<1>8. /\ nums' = Append(nums, Value(target)) /\ i' = i + 1 /\ output' = output
      /\ phase' = "eval"
  BY DEF PushNumber, Target, Evaluating
<1>9. Calculates(w)' BY <1>1, <1>7, <1>8 DEF Calculates
<1> QED BY <1>8, <1>9 DEF Follows

LEMMA FollowIgnore ==
  ASSUME NEW w \in Val, IInv, Calculates(w), Ignore PROVE Follows(w)'
<1>1. PICK P : Posted(output, P) BY DEF Calculates
<1>2. Posts(target, P[i], P[i+1]) BY <1>1, PostsAt DEF Ignore
<1>3. target \in DOMAIN Atoi \/ target \in Sums \union Products BY <1>2 DEF Posts
<1> QED BY <1>3 DEF Ignore, is_number, Sums, Products, Arithmetic

LEMMA FollowCompute ==
  ASSUME NEW w \in Val, IInv, Calculates(w), Compute PROVE Follows(w)'
<1>1. PICK P : Posted(output, P) /\ P[Len(output)] = <<w>> /\ Holds(P[i], nums)
  BY DEF Calculates
<1>2. /\ i \in Nat /\ i + 1 \in 1..Len(output) /\ Len(output) \in Nat
      /\ P[i+1] \in Seq(Val) /\ Posts(target, P[i], P[i+1])
  BY <1>1, PostsAt DEF Compute
<1>3. ~is_number(target) /\ phase = "eval" BY DEF Compute, Evaluating
<1>4. PICK W \in Seq(Val), x \in Val, y \in Val :
        P[i] = Append(Append(W, x), y) /\ P[i+1] = Append(W, Answer(target, x, y))
  BY <1>2, <1>3 DEF Posts, is_number
<1>5. nums \in Seq(Ints) BY DEF IInv, TypeOK
<1>6. PICK s1, s2, R : s1 = nums[Len(nums) - 1] /\ s2 = top(nums) /\ R = Rest(Rest(nums))
  OBVIOUS
<1>7. /\ Len(nums) >= 2 /\ x = {s1} /\ y = {s2}
      /\ R \in Seq(Ints) /\ Holds(W, R)
  BY <1>1, <1>4, <1>5, <1>6, HoldsTwo
<1>8. Answer(target, x, y) = IF Traps(target, s1, s2) THEN {} ELSE {Apply(target, s1, s2)}
  BY <1>7, AnswerOf
<1>9. ~(Len(nums) < 2)
  <2>1. Len(nums) \in Nat BY <1>5
  <2> QED BY <1>7, <2>1
<1>10. CASE /\ Traps(target, s1, s2) /\ phase' = "trap"
            /\ UNCHANGED <<tokens, i, op_stack, output, nums, result>>
  <2>1. P[i+1] = Append(W, {}) BY <1>4, <1>8, <1>10
  <2>2. PICK n \in Nat : n = Len(W) OBVIOUS
  <2>3. PICK V : V = P[i+1] OBVIOUS
  <2>4. Len(V) = n + 1 /\ V[n + 1] = {} BY <2>1, <2>2, <2>3, AppendOf
  <2>5. Spoilt(V) BY <2>4 DEF Spoilt
  <2>6. i + 1 \in 0..Len(output) BY <1>2
  <2>7. w = {} BY <1>1, <1>2, <2>3, <2>5, <2>6, SpoiltToTheEnd
  <2> QED BY <1>10, <2>7 DEF Follows
<1>11. CASE /\ ~Traps(target, s1, s2)
            /\ nums' = Append(R, Apply(target, s1, s2)) /\ Target
  <2>1. PICK v : v = Apply(target, s1, s2) OBVIOUS
  <2>2. P[i+1] = Append(W, {v}) BY <1>4, <1>8, <1>11, <2>1
  <2>3. Holds(P[i+1], Append(R, v)) BY <1>7, <2>2, HoldsAppend
  <2>4. nums' = Append(R, v) /\ i' = i + 1 /\ output' = output /\ phase' = "eval"
    BY <1>3, <1>11, <2>1 DEF Target
  <2>5. Calculates(w)' BY <1>1, <2>3, <2>4 DEF Calculates
  <2> QED BY <2>4, <2>5 DEF Follows
<1> QED BY <1>6, <1>9, <1>10, <1>11 DEF Compute

LEMMA FollowReturn ==
  ASSUME NEW w \in Val, IInv, Calculates(w), Return PROVE Follows(w)'
<1>1. PICK P : Posted(output, P) /\ P[Len(output)] = <<w>> /\ Holds(P[i], nums)
  BY DEF Calculates
<1>2. PICK V : V = <<w>> OBVIOUS
<1>3. Len(V) = 1 /\ V[1] = w BY <1>2
<1>4. Holds(V, nums) BY <1>1, <1>2 DEF Return
<1>5. Len(nums) = 1 /\ w = {nums[1]} BY <1>3, <1>4 DEF Holds
<1>6. nums # <<>> /\ top(nums) = nums[1] BY <1>5 DEF top
<1>7. result' = top(nums) /\ phase' = "free" BY <1>6 DEF Return
<1> QED BY <1>5, <1>6, <1>7 DEF Follows

-----------------------------------------------------------------------------
LEMMA InitRInv == IInv /\ Init => RInv
<1> SUFFICES ASSUME IInv, Init, NEW e \in Grammar, e.toks = tokens PROVE Follows(e.val)
  BY DEF RInv
<1>1. PICK n \in 1..MaxTokens : e \in Lang[n].expr BY GrammarIs
<1>2. n \in Nat /\ n >= 1 BY <1>1, GrammarAssumption
<1>3. Len(tokens) = n /\ e.val \in Val BY <1>1, <1>2, Phrases DEF IsPhrase
<1>4. tokens \in Seq(Words) BY DEF IInv, TypeOK
<1>5. SubSeq(tokens, 1, n) = tokens BY <1>3, <1>4
<1>6. n - 1 + 1 = n /\ 1 \in 1..n /\ n \in 1..n BY <1>2
<1>7. ExprAt(tokens, 1, Len(tokens), e.val) BY <1>1, <1>3, <1>5, <1>6 DEF ExprAt, Span
<1>8. Reads(tokens, e.val, 0, <<>>, <<>>) BY <1>4, <1>7, ReadFirst
<1> QED BY <1>8 DEF Follows, Converts, Init

LEMMA GrammarVal == \A e \in Grammar : e.val \in Val
<1> SUFFICES ASSUME NEW e \in Grammar PROVE e.val \in Val OBVIOUS
<1>1. PICK n \in 1..MaxTokens : e \in Lang[n].expr BY GrammarIs
<1>2. n \in Nat BY <1>1, GrammarAssumption
<1> QED BY <1>1, <1>2, Phrases DEF IsPhrase

LEMMA FollowNext ==
  ASSUME NEW w \in Val, IInv, Follows(w), [Next]_vars PROVE Follows(w)'
<1>1. ASSUME Converting \/ Flush PROVE Converts(w)
  BY <1>1 DEF Follows, Converting, Flush
<1>2. ASSUME Evaluating \/ Return PROVE Calculates(w)
  BY <1>2 DEF Follows, Evaluating, Return
<1>3. CASE Number BY <1>1, <1>3, FollowNumber DEF Number
<1>4. CASE OpenParen BY <1>1, <1>4, FollowOpenParen DEF OpenParen
<1>5. CASE CloseParen BY <1>1, <1>5, FollowCloseParen DEF CloseParen
<1>6. CASE Operator BY <1>1, <1>6, FollowOperator DEF Operator
<1>7. CASE Flush BY <1>1, <1>7, FollowFlush
<1>8. CASE PushNumber BY <1>2, <1>8, FollowPushNumber DEF PushNumber
<1>9. CASE Compute BY <1>2, <1>9, FollowCompute DEF Compute
<1>10. CASE Ignore BY <1>2, <1>10, FollowIgnore DEF Ignore
<1>11. CASE Return BY <1>2, <1>11, FollowReturn
<1>12. CASE Free BY <1>12 DEF Free, Follows
<1>13. CASE UNCHANGED vars
  BY <1>13 DEF vars, Follows, Converts, Calculates
<1> QED BY <1>3, <1>4, <1>5, <1>6, <1>7, <1>8, <1>9, <1>10, <1>11, <1>12, <1>13 DEF Next

LEMMA NextRInv == IInv /\ RInv /\ [Next]_vars => RInv'
<1> SUFFICES ASSUME IInv, RInv, [Next]_vars, NEW e \in Grammar, e.toks = tokens'
             PROVE  Follows(e.val)'
  BY DEF RInv
<1>1. tokens' = tokens
  BY DEF Next, vars, Number, OpenParen, CloseParen, Operator, Flush, PushNumber, Compute,
         Ignore, Return, Free, Consume, StayAt, Undefined, Target
<1>2. e.val \in Val /\ Follows(e.val) BY <1>1, GrammarVal DEF RInv
<1>3. PICK w : w = e.val OBVIOUS
<1>4. Follows(w)' BY <1>2, <1>3, FollowNext
<1> QED BY <1>3, <1>4

(* The calculator gives every expression the value arithmetic gives it,    *)
(* and traps only where there is none, however long the expression.        *)
THEOREM ArithmeticIsRight == Spec => []ResultRight
<1>1. Init => IInv /\ RInv BY InitIInv, InitRInv
<1>2. (IInv /\ RInv) /\ [Next]_vars => (IInv /\ RInv)' BY NextIInv, NextRInv
<1>3. IInv /\ RInv => ResultRight BY DEF RInv, Follows, ResultRight
<1> QED BY <1>1, <1>2, <1>3, PTL DEF Spec
=============================================================================
