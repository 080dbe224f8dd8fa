-------------------------- MODULE JsonLexerProofs --------------------------
(***************************************************************************)
(* Theorems about ReadFile and JsonLexer: for any file, however it is read,*)
(* storage is never written behind its end, the lexer never looks behind   *)
(* the NUL that read_file_all put there, and the tokens are those of the   *)
(* rules of JSON.  The arguments: there is always room for one character   *)
(* more; the lexer moves on only over characters that it has seen not to   *)
(* be NUL; and a place in scan_number or scan_string tells both what has   *)
(* been read and, for every token that begins here, how far into it that   *)
(* is, so that the scanner neither accepts too much nor gives up too early.*)
(***************************************************************************)
EXTENDS JsonTokens, SequenceTheorems, FiniteSetTheorems, WellFoundedInduction, TLAPS

-----------------------------------------------------------------------------
(* read_file_all                                                           *)

Char == STRING \union {NUL}

ReadType ==
  /\ file \in Seq(Char)
  /\ at \in 0..Len(file)
  /\ storage \in Seq(Char) /\ cap \in Nat
  /\ reading \in {"open", "loop", "ok", "failed"}

(* Until the NUL is there, there is room for it, or nothing at all. *)
RoomLeft ==
  /\ reading \in {"open", "loop"} =>
       (cap = 0 /\ storage = <<>>) \/ Len(storage) + 1 <= cap
  /\ reading = "ok" => Len(storage) > 0 /\ storage[Len(storage)] = NUL

ReadInv == ReadType /\ RoomLeft /\ BufferHolds

LEMMA ReadInit == InitFile => ReadInv
<1> SUFFICES ASSUME InitFile PROVE ReadInv
  OBVIOUS
<1>1. file \in Seq(Char)
  <2>1. file \in Seq(STRING) BY ReadAssumption DEF InitFile
  <2> QED BY <2>1 DEF Char
<1>2. storage \in Seq(Char) /\ Len(storage) = 0 BY DEF InitFile
<1> QED BY <1>1, <1>2 DEF InitFile, ReadInv, ReadType, RoomLeft, BufferHolds

LEMMA FailInv ==
  ASSUME ReadInv, Fail, at' \in 0..Len(file)
  PROVE  ReadInv'
BY DEF Fail, ReadInv, ReadType, RoomLeft, BufferHolds

LEMMA EnoughIs == \A new, need : Enough(new, need) => new >= need
BY DEF Enough

LEMMA ReadOpen == ReadInv /\ Open => ReadInv'
<1> SUFFICES ASSUME ReadInv, Open PROVE ReadInv'
  OBVIOUS
<1>1. CASE Fail BY <1>1, FailInv DEF Open, ReadInv, ReadType
<1>2. CASE reading' = "loop" /\ UNCHANGED <<file, storage, cap>>
  BY <1>2 DEF Open, ReadInv, ReadType, RoomLeft, BufferHolds
<1> QED BY <1>1, <1>2 DEF Open

LEMMA ReadRead == ASSUME ReadInv, NEW n \in 1..CHUNK, Read(n) PROVE ReadInv'
<1>0. n \in Nat \ {0} /\ CHUNK \in Nat BY ReadAssumption
<1>1. /\ file \in Seq(Char) /\ storage \in Seq(Char) /\ Len(file) \in Nat /\ Len(storage) \in Nat
      /\ at \in 0..Len(file) /\ cap \in Nat
  BY DEF ReadInv, ReadType
<1>2. at + n <= Len(file) BY <1>0, <1>1 DEF Read, Returns, Full, Left
<1>3. at' = at + n /\ at' \in 0..Len(file) BY <1>0, <1>1, <1>2 DEF Read
<1>4. CASE Fail BY <1>4, <1>3, FailInv
<1>5. CASE ~Fail
  <2> DEFINE piece == SubSeq(file, at + 1, at + n)
  <2>1. piece \in Seq(Char) /\ Len(piece) = n
    BY <1>0, <1>1, <1>2, SubSeqProperties
  <2>2. storage' = storage \o piece /\ UNCHANGED <<file, reading>> /\ reading = "loop"
    BY <1>5 DEF Read
  <2>3. cap' \in Nat /\ Need(n) <= cap'
    <3>1. CASE Need(n) > cap
      <4>1. FirstCap \in Nat /\ Need(n) \in Nat
        BY <1>0, <1>1, ReadAssumption DEF FirstCap, Need
      <4>2. cap' \in FirstCap..(FirstCap + 2 * Need(n)) /\ Enough(cap', Need(n))
        BY <1>5, <3>1 DEF Read
      <4> QED BY <4>1, <4>2, EnoughIs
    <3>2. CASE ~(Need(n) > cap)
      <4>1. cap' = cap BY <1>5, <3>2 DEF Read
      <4> QED BY <4>1, <3>2, <1>0, <1>1 DEF Need
    <3> QED BY <3>1, <3>2
  <2> HIDE DEF piece
  <2>4. storage' \in Seq(Char) /\ Len(storage') = Len(storage) + n
    BY <2>1, <2>2, <1>1, ConcatProperties
  <2>5. Len(storage') + 1 <= cap' BY <2>3, <2>4, <1>0, <1>1 DEF Need
  <2> QED BY <2>2, <2>3, <2>4, <2>5, <1>1, <1>3
          DEF ReadInv, ReadType, RoomLeft, BufferHolds
<1> QED BY <1>4, <1>5

LEMMA ReadFinish == ReadInv /\ Finish => ReadInv'
<1> SUFFICES ASSUME ReadInv, Finish PROVE ReadInv'
  OBVIOUS
<1>1. at' = at /\ at \in 0..Len(file) /\ reading = "loop" BY DEF Finish, ReadInv, ReadType
<1>2. CASE Fail BY <1>1, <1>2, FailInv
<1>3. CASE ~Fail
  <2>1. /\ cap' = (IF cap = 0 THEN 1 ELSE cap) /\ storage' = Append(storage, NUL)
        /\ reading' = "ok" /\ UNCHANGED file
    BY <1>3 DEF Finish
  <2>2. storage \in Seq(Char) /\ cap \in Nat /\ Len(storage) \in Nat BY DEF ReadInv, ReadType
  <2>3. NUL \in Char BY DEF Char
  <2>4. /\ storage' \in Seq(Char) /\ Len(storage') = Len(storage) + 1
        /\ storage'[Len(storage) + 1] = NUL
    BY <2>1, <2>2, <2>3, AppendProperties
  <2>5. Len(storage) + 1 <= cap' /\ cap' \in Nat
    BY <2>1, <2>2, <1>1 DEF ReadInv, RoomLeft
  <2> QED BY <2>1, <2>2, <2>4, <2>5, <1>1 DEF ReadInv, ReadType, RoomLeft, BufferHolds
<1> QED BY <1>2, <1>3

LEMMA ReadStepInv == ReadInv /\ ReadStep => ReadInv'
BY ReadOpen, ReadRead, ReadFinish DEF ReadStep

-----------------------------------------------------------------------------
(* lexer_next                                                              *)

LexType ==
  /\ index \in Nat \ {0} /\ i \in Nat \ {0}
  /\ st \in {"blank", "done"} \union Scanning
  /\ reading # "ok" => st = "blank" /\ index = 1 /\ i = 1

(* The lexer is where it looks, or has looked at a character behind index. *)
InStep ==
  /\ st \notin Scanning => index = i
  /\ st \in Scanning => reading = "ok" /\ index <= i /\ storage[index] # NUL

IInv == ReadInv /\ LexType /\ InStep /\ InBuffer

LEMMA InitInv == Init => IInv
BY ReadInit, ReadAssumption DEF Init, InitFile, IInv, LexType, InStep, InBuffer, Scanning,
                                InNumber, InString

(* The part of the invariant that is about the place, from where to it.    *)
LEMMA Moved ==
  ASSUME IInv, reading = "ok", UNCHANGED fileVars, st' \in {"blank", "done"} \union Scanning,
         NEW n \in Nat, i' = i + n, \A k \in i..i+n-1 : storage[k] # NUL,
         index' \in Nat \ {0}, st' \notin Scanning => index' = i',
         st' \in Scanning => index' <= i' /\ storage[index'] # NUL
  PROVE  IInv'
<1>1. /\ Len(storage) \in Nat /\ storage[Len(storage)] = NUL
      /\ i \in Nat \ {0} /\ i <= Len(storage) /\ \A k \in 1..i-1 : storage[k] # NUL
  BY DEF IInv, ReadInv, ReadType, RoomLeft, LexType, InBuffer
<1>2. UNCHANGED <<file, at, err, storage, cap, reading>> BY DEF fileVars
<1>3. ReadInv' BY <1>2 DEF IInv, ReadInv, ReadType, RoomLeft, BufferHolds
<1>4. Len(storage) \notin i..i+n-1 BY <1>1
<1>5. InBuffer' BY <1>1, <1>2, <1>4 DEF InBuffer
<1>6. LexType' BY <1>1, <1>2 DEF LexType, Scanning, InNumber, InString
<1>7. InStep' BY <1>1, <1>2 DEF InStep, Scanning, InNumber, InString
<1> QED BY <1>3, <1>5, <1>6, <1>7 DEF IInv

LEMMA MovedBack ==
  ASSUME IInv, reading = "ok", UNCHANGED fileVars, i' \in Nat \ {0}, i' <= i,
         index' = i', st' = "done", "done" \notin Scanning
  PROVE  IInv'
<1>1. UNCHANGED <<file, at, err, storage, cap, reading>> BY DEF fileVars
<1>2. ReadInv' BY <1>1 DEF IInv, ReadInv, ReadType, RoomLeft, BufferHolds
<1>3. Len(storage) \in Nat /\ i \in Nat BY DEF IInv, ReadInv, ReadType, LexType
<1>4. InBuffer'
  <2>1. i <= Len(storage) /\ \A k \in 1..i-1 : storage[k] # NUL BY DEF IInv, InBuffer
  <2>2. i' <= Len(storage) BY <1>3, <2>1
  <2>3. \A n, m \in Nat : n <= m => \A k \in 1..n-1 : k \in 1..m-1 OBVIOUS
  <2>4. \A k \in 1..i'-1 : k \in 1..i-1 BY <1>3, <2>3
  <2> QED BY <1>1, <2>1, <2>2, <2>4 DEF InBuffer
<1>5. LexType' BY <1>1 DEF LexType, Scanning, InNumber, InString
<1>6. InStep' BY <1>1 DEF InStep, Scanning, InNumber, InString
<1> QED BY <1>2, <1>4, <1>5, <1>6 DEF IInv

LEMMA NotNul ==
  /\ NUL \notin Blanks \union Digit \union Punct \union {"-", DQ, BS, LF}
  /\ \A w \in Literals : /\ Len(Word[w]) \in Nat \ {0}
                        /\ \A k \in 1..Len(Word[w]) : Word[w][k] # NUL
<1>1. NUL \notin Blanks \union Digit \union Punct \union {"-", DQ, BS, LF}
  BY DEF NUL, Blanks, Digit, Punct, DQ, BS, LF, CR, TAB
<1>2. ASSUME NEW w \in Literals
      PROVE  Len(Word[w]) \in Nat \ {0} /\ \A k \in 1..Len(Word[w]) : Word[w][k] # NUL
  <2>1. w \in {"true", "false", "null"} BY <1>2 DEF Literals, Word
  <2>2. CASE w = "true" BY <2>2 DEF Word, NUL
  <2>3. CASE w = "false" BY <2>3 DEF Word, NUL
  <2>4. CASE w = "null" BY <2>4 DEF Word, NUL
  <2> QED BY <2>1, <2>2, <2>3, <2>4
<1> QED BY <1>1, <1>2

(* Scanning goes on only over a character that is there.                   *)
LEMMA MoveOn ==
  ASSUME st \in Scanning
  PROVE  /\ Move \in Scanning => c # NUL
         /\ st \in InString /\ Move = "string" => c = DQ
<1>1. CASE st \in InNumber
  <2>1. c = NUL => NumberMove \in {"number", "invalid"}
    BY <1>1 DEF NumberMove, InNumber, NUL, Digit
  <2> QED BY <2>1, <1>1 DEF Move, Scanning, InNumber, InString
<1>2. CASE st \in InString
  <2>1. st \notin InNumber BY <1>2 DEF InNumber, InString
  <2>2. c = NUL => StringMove = "invalid"
    BY <1>2 DEF StringMove, InString, NUL, DQ, BS, Hex, Digit
  <2>3. StringMove = "string" => c = DQ
    BY <1>2 DEF StringMove, InString
  <2> QED BY <2>1, <2>2, <2>3 DEF Move, Scanning, InNumber, InString
<1> QED BY <1>1, <1>2 DEF Scanning

LEMMA CallingIs ==
  ASSUME IInv, Calling
  PROVE  /\ reading = "ok" /\ index = i /\ i \in Nat \ {0} /\ st = "blank"
         /\ st \notin Scanning
BY DEF IInv, Calling, InStep, LexType, Scanning, InNumber, InString

LEMMA LexStep ==
  ASSUME IInv, lexer_next, UNCHANGED fileVars
  PROVE  IInv'
<1>0. "blank" \notin Scanning /\ "done" \notin Scanning /\ "invalid" \notin Scanning
      /\ {"sign", "text"} \subseteq Scanning
  BY DEF Scanning, InNumber, InString
<1>1. CASE Skip
  <2>1. /\ i' = i + Skipped /\ index' = i' /\ st' = "blank" /\ reading = "ok" /\ i \in Nat \ {0}
        /\ c \in Blanks
    BY <1>1, CallingIs DEF Skip
  <2>2. CASE Skipped = 1
    <3>1. \A k \in i..i+1-1 : storage[k] # NUL BY <2>1, NotNul DEF c
    <3> QED BY <2>1, <2>2, <3>1, <1>0, Moved
  <2>3. CASE Skipped # 1
    <3>1. Skipped = 2 /\ storage[i + 1] = LF BY <2>3 DEF Skipped
    <3>2. \A k \in i..i+2-1 : storage[k] # NUL BY <2>1, <3>1, NotNul DEF c
    <3> QED BY <2>1, <3>1, <3>2, <1>0, Moved
  <2> QED BY <2>2, <2>3
<1>2. CASE Enter
  <2>1. /\ st' \in {"sign", "text"} /\ reading = "ok" /\ i \in Nat \ {0}
        /\ index' = index /\ index = i
    BY <1>2, CallingIs DEF Enter
  <2>2. c # NUL BY <1>2, NotNul DEF Enter
  <2>3. CASE i' = i
    <3>1. \A k \in i..i+0-1 : storage[k] # NUL BY <2>1
    <3> QED BY <2>1, <2>2, <2>3, <3>1, <1>0, Moved DEF c
  <2>4. CASE i' = i + 1
    <3>1. \A k \in i..i+1-1 : storage[k] # NUL BY <2>1, <2>2 DEF c
    <3> QED BY <2>1, <2>2, <2>4, <3>1, <1>0, Moved DEF c
  <2> QED BY <1>2, <2>3, <2>4 DEF Enter
<1>3. CASE Scan
  <2>1. /\ st \in Scanning /\ st' \in Scanning /\ i' = i + 1 /\ index' = index /\ c # NUL
    BY <1>3, MoveOn DEF Scan
  <2>2. /\ reading = "ok" /\ i \in Nat \ {0} /\ index \in Nat \ {0} /\ index <= i
        /\ storage[index] # NUL
    BY <2>1 DEF IInv, InStep, LexType
  <2>3. \A k \in i..i+1-1 : storage[k] # NUL BY <2>1, <2>2 DEF c
  <2> QED BY <2>1, <2>2, <2>3, <1>0, Moved
<1>4. CASE Number
  <2>1. st \in Scanning /\ st' = "blank" /\ i' = index' /\ index' = index + (i - index)
    BY <1>4 DEF Number, Return, Scanning
  <2>2. reading = "ok" /\ i \in Nat \ {0} /\ index \in Nat \ {0}
    BY <2>1 DEF IInv, InStep, LexType
  <2>3. i' = i + 0 /\ index' \in Nat \ {0} /\ \A k \in i..i+0-1 : storage[k] # NUL
    BY <2>1, <2>2
  <2> QED BY <2>1, <2>2, <2>3, <1>0, Moved
<1>5. CASE String
  <2>1. /\ st \in Scanning /\ st' = "blank" /\ i' = index' /\ index' = index + (i - index + 1)
        /\ c # NUL
    BY <1>5, MoveOn, NotNul DEF String, Return, Scanning
  <2>2. reading = "ok" /\ i \in Nat \ {0} /\ index \in Nat \ {0}
    BY <2>1 DEF IInv, InStep, LexType
  <2>3. i' = i + 1 /\ index' \in Nat \ {0} /\ \A k \in i..i+1-1 : storage[k] # NUL
    BY <2>1, <2>2 DEF c
  <2> QED BY <2>1, <2>2, <2>3, <1>0, Moved
<1>6. ASSUME reading = "ok", storage[index] # NUL, index <= i, Error PROVE IInv'
  <2>1. /\ i' = index + 1 /\ index' = i' /\ st' = "done"
        /\ i \in Nat \ {0} /\ index \in Nat \ {0}
    BY <1>6 DEF Error, Return, IInv, LexType
  <2>2. CASE index = i
    <3>1. \A k \in i..i+1-1 : storage[k] # NUL BY <1>6, <2>1, <2>2
    <3> QED BY <1>6, <2>1, <2>2, <3>1, <1>0, Moved
  <2>3. CASE index # i BY <1>6, <2>1, <2>3, <1>0, MovedBack
  <2> QED BY <2>2, <2>3
<1>7. CASE Invalid
  <2>1. st \in Scanning /\ Error BY <1>7 DEF Invalid
  <2>2. reading = "ok" /\ storage[index] # NUL /\ index <= i BY <2>1 DEF IInv, InStep
  <2> QED BY <2>1, <2>2, <1>6
<1>8. ASSUME NEW w \in Literals, Literal(w) PROVE IInv'
  <2>1. /\ reading = "ok" /\ index = i /\ i \in Nat \ {0} /\ st = "blank"
        /\ c = Word[w][1] /\ Len(Word[w]) \in Nat \ {0}
        /\ \A k \in 1..Len(Word[w]) : Word[w][k] # NUL
    BY <1>8, CallingIs, NotNul DEF Literal
  <2>2. CASE Error BY <2>1, <2>2, <1>6 DEF c
  <2>3. CASE w \in Spelt /\ Return(w, index, Len(Word[w]), Len(Word[w])) /\ UNCHANGED st
    <3>1. i' = i + Len(Word[w]) /\ index' = i' /\ st' = "blank" BY <2>1, <2>3 DEF Return
    <3>2. \A k \in 1..Len(Word[w]) : storage[i + k - 1] = Word[w][k]
      BY <2>1, <2>3 DEF Spelt
    <3>3. ASSUME NEW k \in i..i+Len(Word[w])-1 PROVE storage[k] # NUL
      <4>1. k - i + 1 \in 1..Len(Word[w]) /\ i + (k - i + 1) - 1 = k BY <2>1
      <4> QED BY <4>1, <3>2, <2>1
    <3> QED BY <2>1, <3>1, <3>3, <1>0, Moved
  <2> QED BY <1>8, <2>2, <2>3 DEF Literal
<1>9. CASE Punctuation
  <2>1. /\ i' = i + 1 /\ index' = i' /\ st' = "blank" /\ reading = "ok" /\ i \in Nat \ {0}
        /\ c # NUL
    BY <1>9, CallingIs, NotNul DEF Punctuation, Return
  <2>2. \A k \in i..i+1-1 : storage[k] # NUL BY <2>1 DEF c
  <2> QED BY <2>1, <2>2, <1>0, Moved
<1>10. CASE Eof
  <2>1. /\ i' = i + 0 /\ index' = i' /\ st' = "done" /\ reading = "ok" /\ i \in Nat \ {0}
    BY <1>10, CallingIs DEF Eof, Return
  <2>2. \A k \in i..i+0-1 : storage[k] # NUL BY <2>1
  <2> QED BY <2>1, <2>2, <1>0, Moved
<1>11. CASE Unsupported
  <2>1. reading = "ok" /\ index = i /\ i \in Nat \ {0} /\ Error /\ c # NUL
    BY <1>11, CallingIs DEF Unsupported
  <2> QED BY <2>1, <1>6 DEF c
<1> QED BY <1>1, <1>2, <1>3, <1>4, <1>5, <1>7, <1>8, <1>9, <1>10, <1>11 DEF lexer_next

-----------------------------------------------------------------------------
LEMMA StepInv == IInv /\ [Next]_vars => IInv'
<1> SUFFICES ASSUME IInv, [Next]_vars PROVE IInv'
  OBVIOUS
<1>1. CASE ReadStep /\ UNCHANGED lexVars
  <2>1. ReadInv' BY <1>1, ReadStepInv DEF IInv
  <2>2. reading # "ok" BY <1>1 DEF ReadStep, Open, Read, Finish
  <2>3. /\ UNCHANGED <<index, i, st>> /\ index = 1 /\ i = 1 /\ st = "blank"
    BY <1>1, <2>2 DEF lexVars, IInv, LexType
  <2>4. st \notin Scanning BY <2>3 DEF Scanning, InNumber, InString
  <2>5. LexType' BY <2>3 DEF LexType, Scanning, InNumber, InString
  <2>6. InStep' BY <2>3, <2>4 DEF InStep, Scanning, InNumber, InString
  <2>7. InBuffer' BY <2>1, <2>3 DEF InBuffer, ReadInv, ReadType, RoomLeft
  <2> QED BY <2>1, <2>5, <2>6, <2>7 DEF IInv
<1>2. CASE lexer_next /\ UNCHANGED fileVars BY <1>2, LexStep
<1>3. CASE UNCHANGED vars
  BY <1>3 DEF vars, fileVars, lexVars, IInv, ReadInv, ReadType, RoomLeft, BufferHolds,
              LexType, InStep, InBuffer, Scanning, InNumber, InString
<1> QED BY <1>1, <1>2, <1>3 DEF Next

LEMMA Invariant == Spec => []IInv
BY InitInv, StepInv, PTL DEF Spec

(* However a file is read, nothing is written behind the allocated bytes,  *)
(* the NUL included.                                                       *)
THEOREM StorageSuffices == Spec => []BufferHolds
<1>1. IInv => BufferHolds BY DEF IInv, ReadInv
<1> QED BY Invariant, <1>1, PTL

(* The lexer never looks behind the first NUL of the buffer, whatever the  *)
(* file contains.                                                          *)
THEOREM LexerStaysInside == Spec => []InBuffer
<1>1. IInv => InBuffer BY DEF IInv
<1> QED BY Invariant, <1>1, PTL

-----------------------------------------------------------------------------
(* What is read: the whole file, with the NUL behind it.                   *)

WholeFile ==
  /\ reading = "open" => at = 0 /\ storage = <<>>
  /\ reading = "loop" => storage = SubSeq(file, 1, at)
  /\ reading = "ok" => storage = Append(file, NUL)

LEMMA WholeInit == InitFile => WholeFile
BY DEF InitFile, WholeFile

LEMMA WholeStep == ReadInv /\ WholeFile /\ ReadStep => WholeFile'
<1> SUFFICES ASSUME ReadInv, WholeFile, ReadStep PROVE WholeFile'
  OBVIOUS
<1>0. /\ file \in Seq(Char) /\ at \in 0..Len(file) /\ Len(file) \in Nat /\ CHUNK \in Nat \ {0}
  BY ReadAssumption DEF ReadInv, ReadType
<1>1. CASE Fail BY <1>1 DEF Fail, WholeFile
<1>2. CASE Open /\ ~Fail
  <2>1. reading' = "loop" /\ file' = file /\ storage' = <<>> /\ at' = 0
    BY <1>2 DEF Open, WholeFile
  <2>2. SubSeq(file, 1, 0) = <<>> BY SubSeqEmpty
  <2> QED BY <2>1, <2>2 DEF WholeFile
<1>3. ASSUME NEW n \in 1..CHUNK, Read(n), ~Fail PROVE WholeFile'
  <2>1. /\ reading = "loop" /\ reading' = "loop" /\ file' = file /\ at' = at + n
        /\ storage' = storage \o SubSeq(file, at + 1, at + n) /\ storage = SubSeq(file, 1, at)
    BY <1>3 DEF Read, WholeFile
  <2>2. at + n <= Len(file) BY <1>0, <1>3 DEF Read, Returns, Full, Left
  <2>3. /\ 1 \in 1..Len(file)+1 /\ at \in 1-1..Len(file) /\ at + n \in at..Len(file)
    BY <1>0, <2>2
  <2>4. SubSeq(file, 1, at) \o SubSeq(file, at + 1, at + n) = SubSeq(file, 1, at + n)
    BY <1>0, <2>3, ConcatAdjacentSubSeq
  <2> QED BY <2>1, <2>4 DEF WholeFile
<1>4. CASE Finish /\ ~Fail
  <2>1. /\ reading = "loop" /\ reading' = "ok" /\ file' = file
        /\ storage' = Append(storage, NUL) /\ storage = SubSeq(file, 1, at)
    BY <1>4 DEF Finish, WholeFile
  <2>2. ~err' /\ Returns(0) BY <1>4 DEF Finish
  <2>3. ~(0 < Full) BY <2>2 DEF Returns
  <2>4. at = Len(file) BY <1>0, <2>3 DEF Full, Left
  <2>5. SubSeq(file, 1, Len(file)) = file BY <1>0, SubSeqFull
  <2> QED BY <2>1, <2>4, <2>5 DEF WholeFile
<1> QED BY <1>1, <1>2, <1>3, <1>4 DEF ReadStep

LEMMA FirstOf ==
  ASSUME NEW S \in SUBSET Nat, NEW n \in S
  PROVE  \E m \in S : \A k \in S : m <= k
<1>1. PICK d \in S : \A e \in S : ~(<<e, d>> \in OpToRel(<, Nat))
  BY NatLessThanWellFounded, WFMin
<1>2. ASSUME NEW k \in S PROVE d <= k
  <2>1. ~(<<k, d>> \in OpToRel(<, Nat)) BY <1>1
  <2>2. k \in Nat /\ d \in Nat OBVIOUS
  <2> QED BY <2>1, <2>2 DEF OpToRel
<1> QED BY <1>2

LEMMA MinIs ==
  ASSUME NEW S \in SUBSET Nat, NEW n \in S
  PROVE  Min(S) \in S /\ \A k \in S : Min(S) <= k
<1>1. \E m \in S : \A k \in S : m <= k BY FirstOf
<1> QED BY <1>1 DEF Min

LEMMA MaxIs ==
  ASSUME NEW S \in SUBSET Nat, NEW n \in S, \A k \in S : n >= k
  PROVE  Max(S) = n
<1>1. \E m \in S : \A k \in S : m >= k OBVIOUS
<1>2. PICK m : m = Max(S) OBVIOUS
<1>3. m \in S /\ \A k \in S : m >= k BY <1>1, <1>2 DEF Max
<1>4. m \in Nat /\ n \in Nat /\ m >= n /\ n >= m BY <1>3
<1>5. m = n BY <1>4
<1> QED BY <1>2, <1>5

(* The text: Last is the place of its NUL. *)
Last == Len(Text)
IsText ==
  /\ Text \in Seq(Char) /\ Last \in Nat \ {0} /\ Text[Last] = NUL
  /\ \A k \in 1..Last-1 : Text[k] # NUL

LEMMA TextIs ==
  ASSUME file \in Seq(Char)
  PROVE  /\ IsText /\ Last <= Len(file) + 1
         /\ \A k \in 1..Last : Text[k] = Append(file, NUL)[k]
<1>1. PICK s : s = Append(file, NUL) OBVIOUS
<1>2. NUL \in Char BY DEF Char
<1>3. s \in Seq(Char) /\ Len(s) = Len(file) + 1 /\ s[Len(file) + 1] = NUL /\ Len(file) \in Nat
  BY <1>1, <1>2, AppendProperties
<1> DEFINE S == {k \in DOMAIN s : s[k] = NUL}
<1>4. S \in SUBSET Nat /\ Len(s) \in S BY <1>3
<1>5. PICK m : m = Min(S) OBVIOUS
<1>6. m \in S /\ \A k \in S : m <= k BY <1>4, <1>5, MinIs
<1>7. Text = SubSeq(s, 1, m) BY <1>1, <1>5 DEF Text
<1>8. m \in 1..Len(s) /\ s[m] = NUL BY <1>3, <1>6
<1>9. \A k \in 1..m-1 : s[k] # NUL BY <1>3, <1>6, <1>8
<1>10. \A k \in 1..m : s[k] \in Char BY <1>3, <1>8
<1>11. Text \in Seq(Char) /\ Len(Text) = m /\ \A k \in 1..m : Text[k] = s[k]
  BY <1>7, <1>8, <1>10, SubSeqProperties, <1>3
<1> QED BY <1>1, <1>3, <1>8, <1>9, <1>11 DEF IsText, Last

-----------------------------------------------------------------------------
(* Numbers.  r[1], r[2], ... are the characters from the lexeme on, j is   *)
(* the one that is looked at.                                              *)

Digs(r, a, b) == a <= b /\ \A k \in a..b : r[k] \in Digit
IntPart(r, a, m) ==
  /\ a \in 1..2 /\ m \in Nat /\ (a = 2 => r[1] = "-")
  /\ Digs(r, a, m) /\ (r[a] = "0" => m = a)
FracPart(r, m, f) == f = m \/ (f > m /\ r[m + 1] = "." /\ Digs(r, m + 2, f))
Mantissa(r, a, m, f) == IntPart(r, a, m) /\ f \in Nat /\ FracPart(r, m, f)
Sign(r, f, g)     == g \in 2..3 /\ (g = 3 => r[f + 2] \in {"+", "-"})
ExpPart(r, f, g, L) == f = L \/ (r[f + 1] = "e" /\ Digs(r, f + g, L))

Parts(r, a, m, f, g, L) ==
  /\ Mantissa(r, a, m, f) /\ f <= L
  /\ g \in 2..3 /\ (f # L => Sign(r, f, g)) /\ ExpPart(r, f, g, L)

PartsOf(s, a, m, f, g) ==
  /\ a = 2 => s[1] = "-"
  /\ DigitsAt(s, a, m) /\ (s[a] = "0" => m = a)
  /\ f = m \/ (f > m /\ s[m + 1] = "." /\ DigitsAt(s, m + 2, f))
  /\ f = Len(s) \/ (/\ s[f + 1] = "e" /\ DigitsAt(s, f + g, Len(s))
                    /\ g = 3 => s[f + 2] \in {"+", "-"})

LEMMA NumberIn ==
  ASSUME NEW L \in Nat, NEW s, Len(s) = L, NEW r, \A k \in 1..L : s[k] = r[k]
  PROVE  IsNumber(s) <=> \E a \in 1..2, m \in Nat, f \in Nat, g \in 2..3 : Parts(r, a, m, f, g, L)
<1>1. \A a, b \in Nat : a > 0 => (DigitsAt(s, a, b) <=> b <= L /\ Digs(r, a, b))
  BY DEF DigitsAt, Digs
<1>2. ASSUME NEW a \in 1..2, NEW m \in 1..L, NEW f \in 1..L, NEW g \in 2..3
      PROVE  PartsOf(s, a, m, f, g) <=> Parts(r, a, m, f, g, L)
  <2>0. m \in Nat /\ f \in Nat /\ a \in Nat /\ g \in Nat /\ 1 \in 1..L /\ a > 0 OBVIOUS
  <2>1. (a = 2 => s[1] = "-") <=> (a = 2 => r[1] = "-") BY <2>0
  <2>2. DigitsAt(s, a, m) <=> Digs(r, a, m) BY <1>1, <2>0
  <2>3. Digs(r, a, m) => ((s[a] = "0" => m = a) <=> (r[a] = "0" => m = a))
    BY <2>0 DEF Digs
  <2>4. (f = m \/ (f > m /\ s[m + 1] = "." /\ DigitsAt(s, m + 2, f))) <=> FracPart(r, m, f)
    <3>1. DigitsAt(s, m + 2, f) <=> Digs(r, m + 2, f) BY <1>1, <2>0
    <3>2. f > m => s[m + 1] = r[m + 1] BY <2>0
    <3> QED BY <3>1, <3>2 DEF FracPart
  <2>5. (f = Len(s) \/ (/\ s[f + 1] = "e" /\ DigitsAt(s, f + g, Len(s))
                        /\ g = 3 => s[f + 2] \in {"+", "-"}))
        <=> (f # L => Sign(r, f, g)) /\ ExpPart(r, f, g, L)
    <3>1. DigitsAt(s, f + g, L) <=> Digs(r, f + g, L)
      <4>1. f + g \in Nat /\ f + g > 0 BY <2>0
      <4> QED BY <4>1, <1>1
    <3>2. f # L => s[f + 1] = r[f + 1] BY <2>0
    <3>3. Digs(r, f + g, L) /\ g = 3 => s[f + 2] = r[f + 2] BY <2>0 DEF Digs
    <3> QED BY <3>1, <3>2, <3>3 DEF Sign, ExpPart
  <2> QED BY <2>0, <2>1, <2>2, <2>3, <2>4, <2>5 DEF PartsOf, Parts, Mantissa, IntPart
<1>3. ASSUME NEW a \in 1..2, NEW m \in Nat, NEW f \in Nat, NEW g \in 2..3, Parts(r, a, m, f, g, L)
      PROVE  m \in 1..L /\ f \in 1..L
  BY <1>3 DEF Parts, Mantissa, IntPart, FracPart, Digs
<1>4. IsNumber(s) => \E a \in 1..2, m \in Nat, f \in Nat, g \in 2..3 : Parts(r, a, m, f, g, L)
  <2> SUFFICES ASSUME IsNumber(s)
               PROVE  \E a \in 1..2, m \in Nat, f \in Nat, g \in 2..3 : Parts(r, a, m, f, g, L)
    OBVIOUS
  <2>1. PICK a \in 1..2, m \in 1..L, f \in 1..L, g \in 2..3 : PartsOf(s, a, m, f, g)
    BY DEF IsNumber, PartsOf
  <2>2. Parts(r, a, m, f, g, L) BY <2>1, <1>2
  <2> QED BY <2>2
<1>5. ASSUME NEW a \in 1..2, NEW m \in Nat, NEW f \in Nat, NEW g \in 2..3, Parts(r, a, m, f, g, L)
      PROVE  IsNumber(s)
  <2>1. m \in 1..L /\ f \in 1..L BY <1>3, <1>5
  <2>2. PartsOf(s, a, m, f, g) BY <1>2, <1>5, <2>1
  <2> QED BY <2>1, <2>2 DEF IsNumber, PartsOf
<1> QED BY <1>4, <1>5

-----------------------------------------------------------------------------
(* What has been read of a number in each place of scan_number.            *)
PInt(r, j)      == j = 2 /\ r[1] = "-"
PZero(r, j)     == \E a \in 1..2 : IntPart(r, a, j - 1) /\ r[a] = "0"
PDigits(r, j)   == \E a \in 1..2 : IntPart(r, a, j - 1) /\ r[a] # "0"
PPoint(r, j)    == \E a \in 1..2, m \in Nat :
                      IntPart(r, a, m) /\ r[m + 1] = "." /\ j = m + 2
PFraction(r, j) == \E a \in 1..2, m \in Nat :
                      IntPart(r, a, m) /\ r[m + 1] = "." /\ Digs(r, m + 2, j - 1)
PE(r, j)        == \E a \in 1..2, m \in Nat, f \in Nat :
                      Mantissa(r, a, m, f) /\ r[f + 1] = "e" /\ j = f + 2
PEsign(r, j)    == \E a \in 1..2, m \in Nat, f \in Nat :
                      /\ Mantissa(r, a, m, f) /\ r[f + 1] = "e"
                      /\ r[f + 2] \in {"+", "-"} /\ j = f + 3
PExponent(r, j) == \E a \in 1..2, m \in Nat, f \in Nat, g \in 2..3 :
                      /\ Mantissa(r, a, m, f) /\ r[f + 1] = "e" /\ Sign(r, f, g)
                      /\ Digs(r, f + g, j - 1)
NumberRead(q, r, j) ==
  /\ q = "sign" => j = 1
  /\ q = "int" => PInt(r, j)
  /\ q = "zero" => PZero(r, j)
  /\ q = "digits" => PDigits(r, j)
  /\ q = "point" => PPoint(r, j)
  /\ q = "fraction" => PFraction(r, j)
  /\ q = "e" => PE(r, j)
  /\ q = "esign" => PEsign(r, j)
  /\ q = "exponent" => PExponent(r, j)

LEMMA NumberCame ==
  ASSUME st \in InNumber, NEW q, q = NumberMove
  PROVE  /\ q = "int" => st = "sign" /\ c = "-"
         /\ q = "zero" => st \in {"sign", "int"} /\ c = "0"
         /\ q = "digits" => \/ st \in {"sign", "int"} /\ c \in Digit \ {"0"}
                            \/ st = "digits" /\ c \in Digit
         /\ q = "point" => st \in {"zero", "digits"} /\ c = "."
         /\ q = "fraction" => st \in {"point", "fraction"} /\ c \in Digit
         /\ q = "e" => st \in {"zero", "digits", "fraction"} /\ c = "e"
         /\ q = "esign" => st = "e" /\ c \in {"+", "-"}
         /\ q = "exponent" => st \in {"e", "esign", "exponent"} /\ c \in Digit
         /\ q = "number" => st \in {"zero", "digits", "fraction", "exponent"} /\ c \in Boundary
         /\ q # "sign"
BY DEF NumberMove, InNumber

LEMMA NumberGoes ==
  ASSUME st \in InNumber
  PROVE  /\ st = "sign" /\ c = "-" => NumberMove = "int"
         /\ st \in {"sign", "int"} /\ c = "0" => NumberMove = "zero"
         /\ st \in {"sign", "int"} /\ c \in Digit \ {"0"} => NumberMove = "digits"
         /\ st = "digits" /\ c \in Digit => NumberMove = "digits"
         /\ st \in {"zero", "digits"} /\ c = "." => NumberMove = "point"
         /\ st \in {"point", "fraction"} /\ c \in Digit => NumberMove = "fraction"
         /\ st \in {"zero", "digits", "fraction"} /\ c = "e" => NumberMove = "e"
         /\ st = "e" /\ c \in {"+", "-"} => NumberMove = "esign"
         /\ st \in {"e", "esign", "exponent"} /\ c \in Digit => NumberMove = "exponent"
         /\ st \in {"zero", "digits", "fraction", "exponent"} /\ c \in Boundary
              => NumberMove = "number"
BY DEF NumberMove, InNumber, Digit, Boundary, NUL, LF, CR, TAB, VT

LEMMA DigsOn ==
  ASSUME NEW r, NEW a \in Nat, NEW b \in Nat
  PROVE  /\ r[a] \in Digit => Digs(r, a, a)
         /\ Digs(r, a, b) /\ r[b + 1] \in Digit => Digs(r, a, b + 1)
BY DEF Digs

LEMMA IntPartOn ==
  ASSUME NEW r, NEW a \in 1..2, NEW m \in Nat, IntPart(r, a, m), r[a] # "0",
         r[m + 1] \in Digit
  PROVE  IntPart(r, a, m + 1)
BY DEF IntPart, Digs

LEMMA IntPartBegins ==
  ASSUME NEW r, NEW a \in 1..2, a = 2 => r[1] = "-", r[a] \in Digit
  PROVE  IntPart(r, a, a)
BY DEF IntPart, Digs

LEMMA NumberReadOn ==
  ASSUME NEW r, NEW j \in Nat \ {0}, st \in InNumber, c = r[j], NumberRead(st, r, j),
         NEW q \in InNumber, q = NumberMove
  PROVE  NumberRead(q, r, j + 1)
<1>0. \A x \in InNumber : x \in {"sign", "int", "zero", "digits", "point", "fraction", "e",
                                 "esign", "exponent"}
  BY DEF InNumber
<1>1. CASE q = "int" BY <1>1, NumberCame DEF NumberRead, PInt
<1>2. ASSUME st \in {"sign", "int"}, c \in Digit
      PROVE  \E a \in 1..2 : IntPart(r, a, j) /\ r[a] = c
  <2>1. CASE st = "sign"
    <3>1. j = 1 BY <2>1 DEF NumberRead
    <3>2. IntPart(r, 1, 1) /\ r[1] = c BY <3>1, <1>2, IntPartBegins
    <3> QED BY <3>1, <3>2
  <2>2. CASE st = "int"
    <3>1. j = 2 /\ r[1] = "-" BY <2>2 DEF NumberRead, PInt
    <3>2. IntPart(r, 2, 2) /\ r[2] = c BY <3>1, <1>2, IntPartBegins
    <3> QED BY <3>1, <3>2
  <2> QED BY <1>2, <2>1, <2>2
<1>j. j + 1 - 1 = j /\ j - 1 \in Nat /\ j - 1 + 1 = j /\ j \in Nat OBVIOUS
<1>3. CASE q = "zero"
  <2>1. st \in {"sign", "int"} /\ c = "0" /\ c \in Digit BY <1>3, NumberCame DEF Digit
  <2>2. PZero(r, j + 1) BY <1>2, <1>j, <2>1 DEF PZero
  <2> QED BY <1>3, <2>2 DEF NumberRead
<1>4. CASE q = "digits"
  <2>1. CASE st \in {"sign", "int"}
    <3>1. c \in Digit /\ c # "0" BY <1>4, <2>1, NumberCame
    <3> QED BY <1>2, <1>j, <2>1, <3>1, <1>4 DEF NumberRead, PDigits
  <2>2. CASE st = "digits"
    <3>1. c \in Digit BY <1>4, <2>2, NumberCame
    <3>2. PICK a \in 1..2 : IntPart(r, a, j - 1) /\ r[a] # "0"
      BY <2>2 DEF NumberRead, PDigits
    <3>3. IntPart(r, a, j - 1 + 1) BY <1>j, <3>1, <3>2, IntPartOn
    <3>4. PDigits(r, j + 1) BY <1>j, <3>2, <3>3 DEF PDigits
    <3> QED BY <3>4, <1>4 DEF NumberRead
  <2> QED BY <1>4, <2>1, <2>2, NumberCame
<1>5. ASSUME st \in {"zero", "digits"} PROVE \E a \in 1..2 : IntPart(r, a, j - 1)
  BY <1>5 DEF NumberRead, PZero, PDigits
<1>6. CASE q = "point"
  <2>1. st \in {"zero", "digits"} /\ c = "." BY <1>6, NumberCame
  <2>2. PICK a \in 1..2 : IntPart(r, a, j - 1) BY <2>1, <1>5
  <2>r. r[j] = "." BY <2>1
  <2>3. j + 1 = j - 1 + 2 /\ r[j - 1 + 1] = "." BY ONLY <1>j, <2>r
  <2>4. PPoint(r, j + 1) BY <1>j, <2>2, <2>3 DEF PPoint
  <2> QED BY <2>4, <1>6 DEF NumberRead
<1>7. CASE q = "fraction"
  <2>1. st \in {"point", "fraction"} /\ c \in Digit BY <1>7, NumberCame
  <2>2. CASE st = "point"
    <3>1. PICK a \in 1..2, m \in Nat : IntPart(r, a, m) /\ r[m + 1] = "." /\ j = m + 2
      BY <2>2 DEF NumberRead, PPoint
    <3>2. Digs(r, m + 2, j) BY <3>1, <2>1, DigsOn
    <3>3. PFraction(r, j + 1) BY <1>j, <3>1, <3>2 DEF PFraction
    <3> QED BY <3>3, <1>7 DEF NumberRead
  <2>3. CASE st = "fraction"
    <3>1. PICK a \in 1..2, m \in Nat :
            IntPart(r, a, m) /\ r[m + 1] = "." /\ Digs(r, m + 2, j - 1)
      BY <2>3 DEF NumberRead, PFraction
    <3>2. Digs(r, m + 2, j - 1 + 1) BY <1>j, <3>1, <2>1, DigsOn
    <3>3. PFraction(r, j + 1) BY <1>j, <3>1, <3>2 DEF PFraction
    <3> QED BY <3>3, <1>7 DEF NumberRead
  <2> QED BY <2>1, <2>2, <2>3
<1>8. ASSUME st \in {"zero", "digits", "fraction"}
      PROVE  \E a \in 1..2, m \in Nat : Mantissa(r, a, m, j - 1)
  <2>1. CASE st \in {"zero", "digits"}
    <3>1. PICK a \in 1..2 : IntPart(r, a, j - 1) BY <2>1, <1>5
    <3>2. Mantissa(r, a, j - 1, j - 1) BY <1>j, <3>1 DEF Mantissa, FracPart
    <3> QED BY <1>j, <3>2
  <2>2. CASE st = "fraction"
    <3>1. PICK a \in 1..2, m \in Nat :
            IntPart(r, a, m) /\ r[m + 1] = "." /\ Digs(r, m + 2, j - 1)
      BY <2>2 DEF NumberRead, PFraction
    <3>2. Mantissa(r, a, m, j - 1) BY <1>j, <3>1 DEF Mantissa, FracPart, Digs
    <3> QED BY <3>2
  <2> QED BY <1>8, <2>1, <2>2
<1>9. CASE q = "e"
  <2>1. st \in {"zero", "digits", "fraction"} /\ c = "e" BY <1>9, NumberCame
  <2>2. PICK a \in 1..2, m \in Nat : Mantissa(r, a, m, j - 1) BY <2>1, <1>8
  <2>r. r[j] = "e" BY <2>1
  <2>3. j + 1 = j - 1 + 2 /\ r[j - 1 + 1] = "e" BY ONLY <1>j, <2>r
  <2>4. PE(r, j + 1) BY <1>j, <2>2, <2>3 DEF PE
  <2> QED BY <2>4, <1>9 DEF NumberRead
<1>10. CASE q = "esign"
  <2>1. st = "e" /\ c \in {"+", "-"} BY <1>10, NumberCame
  <2>2. PICK a \in 1..2, m \in Nat, f \in Nat :
          Mantissa(r, a, m, f) /\ r[f + 1] = "e" /\ j = f + 2
    BY <2>1 DEF NumberRead, PE
  <2>3. PEsign(r, j + 1) BY <1>j, <2>1, <2>2 DEF PEsign
  <2> QED BY <2>3, <1>10 DEF NumberRead
<1>11. CASE q = "exponent"
  <2>1. st \in {"e", "esign", "exponent"} /\ c \in Digit BY <1>11, NumberCame
  <2>2. CASE st = "e"
    <3>1. PICK a \in 1..2, m \in Nat, f \in Nat :
            Mantissa(r, a, m, f) /\ r[f + 1] = "e" /\ j = f + 2
      BY <2>2 DEF NumberRead, PE
    <3>2. Digs(r, f + 2, j) /\ Sign(r, f, 2) BY <3>1, <2>1, DigsOn DEF Sign
    <3>3. PExponent(r, j + 1) BY <1>j, <3>1, <3>2 DEF PExponent
    <3> QED BY <3>3, <1>11 DEF NumberRead
  <2>3. CASE st = "esign"
    <3>1. PICK a \in 1..2, m \in Nat, f \in Nat :
            /\ Mantissa(r, a, m, f) /\ r[f + 1] = "e"
            /\ r[f + 2] \in {"+", "-"} /\ j = f + 3
      BY <2>3 DEF NumberRead, PEsign
    <3>2. Digs(r, f + 3, j) /\ Sign(r, f, 3) BY <3>1, <2>1, DigsOn DEF Sign
    <3>3. PExponent(r, j + 1) BY <1>j, <3>1, <3>2 DEF PExponent
    <3> QED BY <3>3, <1>11 DEF NumberRead
  <2>4. CASE st = "exponent"
    <3>1. PICK a \in 1..2, m \in Nat, f \in Nat, g \in 2..3 :
            /\ Mantissa(r, a, m, f) /\ r[f + 1] = "e" /\ Sign(r, f, g)
            /\ Digs(r, f + g, j - 1)
      BY <2>4 DEF NumberRead, PExponent
    <3>2. Digs(r, f + g, j - 1 + 1)
      <4>1. f + g \in Nat OBVIOUS
      <4> QED BY <1>j, <3>1, <2>1, <4>1, DigsOn
    <3>3. PExponent(r, j + 1) BY <1>j, <3>1, <3>2 DEF PExponent
    <3> QED BY <3>3, <1>11 DEF NumberRead
  <2> QED BY <2>1, <2>2, <2>3, <2>4
<1>12. q # "sign" BY NumberCame
<1> QED BY <1>0, <1>1, <1>3, <1>4, <1>6, <1>7, <1>9, <1>10, <1>11, <1>12

LEMMA NumberEnds ==
  ASSUME NEW r, NEW j \in Nat \ {0}, st \in InNumber, c = r[j], NumberRead(st, r, j),
         NumberMove = "number"
  PROVE  /\ j - 1 \in Nat \ {0} /\ r[j] \in Boundary
         /\ \E a \in 1..2, m \in Nat, f \in Nat, g \in 2..3 : Parts(r, a, m, f, g, j - 1)
<1>1. st \in {"zero", "digits", "fraction", "exponent"} /\ c \in Boundary BY NumberCame
<1>2. j - 1 \in Nat OBVIOUS
<1>3. CASE st \in {"zero", "digits", "fraction"}
  <2>1. \E a \in 1..2, m \in Nat : Mantissa(r, a, m, j - 1)
    <3>1. CASE st \in {"zero", "digits"}
      <4>1. PICK a \in 1..2 : IntPart(r, a, j - 1)
        BY <3>1 DEF NumberRead, PZero, PDigits
      <4>2. Mantissa(r, a, j - 1, j - 1) BY <1>2, <4>1 DEF Mantissa, FracPart
      <4> QED BY <1>2, <4>2
    <3>2. CASE st = "fraction"
      <4>1. PICK a \in 1..2, m \in Nat :
              IntPart(r, a, m) /\ r[m + 1] = "." /\ Digs(r, m + 2, j - 1)
        BY <3>2 DEF NumberRead, PFraction
      <4>2. Mantissa(r, a, m, j - 1) BY <1>2, <4>1 DEF Mantissa, FracPart, Digs
      <4> QED BY <4>2
    <3> QED BY <1>3, <3>1, <3>2
  <2>2. PICK a \in 1..2, m \in Nat : Mantissa(r, a, m, j - 1) BY <2>1
  <2>3. Parts(r, a, m, j - 1, 2, j - 1) BY <1>2, <2>2 DEF Parts, ExpPart
  <2>4. j - 1 # 0 BY <2>2 DEF Mantissa, IntPart, FracPart, Digs
  <2> QED BY <1>1, <1>2, <2>3, <2>4
<1>4. CASE st = "exponent"
  <2>1. PICK a \in 1..2, m \in Nat, f \in Nat, g \in 2..3 :
          /\ Mantissa(r, a, m, f) /\ r[f + 1] = "e" /\ Sign(r, f, g)
          /\ Digs(r, f + g, j - 1)
    BY <1>4 DEF NumberRead, PExponent
  <2>2. f + g <= j - 1 BY <2>1 DEF Digs
  <2>3. Parts(r, a, m, f, g, j - 1) BY <1>2, <2>1, <2>2 DEF Parts, ExpPart
  <2> QED BY <1>1, <1>2, <2>2, <2>3
<1> QED BY <1>1, <1>3, <1>4

(* Where scan_number is when it looks at character j of a number.          *)
NumberAt(q, r, a, m, f, g, L, j) ==
  /\ j <= L + 1
  /\ j = 1 => q = "sign"
  /\ 1 < j /\ j <= a => q = "int"
  /\ a < j /\ j <= m + 1 /\ r[a] = "0" => q = "zero"
  /\ a < j /\ j <= m + 1 /\ r[a] # "0" => q = "digits"
  /\ j = m + 2 /\ j <= f + 1 => q = "point"
  /\ m + 2 < j /\ j <= f + 1 => q = "fraction"
  /\ j = f + 2 => q = "e"
  /\ j = f + 3 /\ g = 3 => q = "esign"
  /\ f + g < j => q = "exponent"

LEMMA NumberSizes ==
  ASSUME NEW r, NEW a \in 1..2, NEW m \in Nat, NEW f \in Nat, NEW g \in 2..3, NEW L \in Nat,
         Parts(r, a, m, f, g, L)
  PROVE  /\ a <= m /\ m <= f /\ f <= L /\ (f # m => m + 2 <= f) /\ (f # L => f + g <= L)
         /\ \A k \in a..m : r[k] \in Digit
         /\ r[a] = "0" => m = a
         /\ a = 2 => r[1] = "-"
         /\ f # m => r[m + 1] = "." /\ \A k \in m+2..f : r[k] \in Digit
         /\ f # L => /\ r[f + 1] = "e" /\ (g = 3 => r[f + 2] \in {"+", "-"})
                     /\ \A k \in f+g..L : r[k] \in Digit
BY DEF Parts, Mantissa, IntPart, FracPart, ExpPart, Sign, Digs

LEMMA NumberLasts ==
  ASSUME NEW r, NEW j \in Nat \ {0}, st \in InNumber, c = r[j],
         NEW a \in 1..2, NEW m \in Nat, NEW f \in Nat, NEW g \in 2..3, NEW L \in Nat,
         Parts(r, a, m, f, g, L), r[L + 1] \in Boundary,
         NumberAt(st, r, a, m, f, g, L, j)
  PROVE  \/ NumberMove \in InNumber /\ NumberAt(NumberMove, r, a, m, f, g, L, j + 1)
         \/ NumberMove = "number"
<1>1. /\ a <= m /\ m <= f /\ f <= L /\ (f # m => m + 2 <= f) /\ (f # L => f + g <= L)
      /\ \A k \in a..m : r[k] \in Digit
      /\ r[a] = "0" => m = a
      /\ a = 2 => r[1] = "-"
      /\ f # m => r[m + 1] = "." /\ \A k \in m+2..f : r[k] \in Digit
      /\ f # L => /\ r[f + 1] = "e" /\ (g = 3 => r[f + 2] \in {"+", "-"})
                  /\ \A k \in f+g..L : r[k] \in Digit
  BY NumberSizes
<1>2. j <= L + 1 BY DEF NumberAt
<1>3. CASE j = L + 1
  <2>1. st \in {"zero", "digits", "fraction", "exponent"}
    <3>1. CASE f # L
      <4>1. f + g < j BY <1>1, <1>3, <3>1
      <4> QED BY <4>1 DEF NumberAt
    <3>2. CASE f = L /\ f # m
      <4>1. m + 2 < j /\ j <= f + 1 BY <1>1, <1>3, <3>2
      <4> QED BY <4>1 DEF NumberAt
    <3>3. CASE f = L /\ f = m
      <4>1. a < j /\ j <= m + 1 BY <1>1, <1>3, <3>3
      <4> QED BY <4>1 DEF NumberAt
    <3> QED BY <3>1, <3>2, <3>3
  <2> QED BY <1>3, <2>1, NumberGoes
<1>4. CASE j <= L
  <2> DEFINE q == NumberMove
  <2>0. {"int", "zero", "digits", "point", "fraction", "e", "esign", "exponent"} \subseteq InNumber
    BY DEF InNumber
  <2>1. ASSUME j = 1, a = 2 PROVE q \in InNumber /\ NumberAt(q, r, a, m, f, g, L, j + 1)
    <3>1. st = "sign" /\ c = "-" BY <1>1, <2>1 DEF NumberAt
    <3>2. q = "int" BY <3>1, NumberGoes
    <3>3. NumberAt("int", r, a, m, f, g, L, 2) BY <1>1, <1>4, <2>1 DEF NumberAt
    <3> QED BY <2>0, <2>1, <3>2, <3>3
  <2>2. ASSUME j = a PROVE q \in InNumber /\ NumberAt(q, r, a, m, f, g, L, j + 1)
    <3>1. st \in {"sign", "int"} /\ c \in Digit BY <1>1, <2>2 DEF NumberAt
    <3>2. CASE c = "0"
      <4>1. q = "zero" BY <3>1, <3>2, NumberGoes
      <4>2. NumberAt("zero", r, a, m, f, g, L, j + 1) BY <1>1, <1>4, <2>2, <3>2 DEF NumberAt
      <4> QED BY <2>0, <4>1, <4>2
    <3>3. CASE c # "0"
      <4>1. q = "digits" BY <3>1, <3>3, NumberGoes
      <4>2. NumberAt("digits", r, a, m, f, g, L, j + 1) BY <1>1, <1>4, <2>2, <3>3 DEF NumberAt
      <4> QED BY <2>0, <4>1, <4>2
    <3> QED BY <3>2, <3>3
  <2>3. ASSUME a < j, j <= m PROVE q \in InNumber /\ NumberAt(q, r, a, m, f, g, L, j + 1)
    <3>1. r[a] # "0" /\ c \in Digit BY <1>1, <2>3
    <3>2. st = "digits" BY <2>3, <3>1 DEF NumberAt
    <3>3. q = "digits" BY <3>1, <3>2, NumberGoes
    <3>4. NumberAt("digits", r, a, m, f, g, L, j + 1) BY <1>1, <1>4, <2>3, <3>1 DEF NumberAt
    <3> QED BY <2>0, <3>3, <3>4
  <2>4. ASSUME j = m + 1, f # m PROVE q \in InNumber /\ NumberAt(q, r, a, m, f, g, L, j + 1)
    <3>1. a < j BY <1>1, <2>4
    <3>2. st \in {"zero", "digits"} /\ c = "." BY <1>1, <2>4, <3>1 DEF NumberAt
    <3>3. q = "point" BY <3>2, NumberGoes
    <3>4. NumberAt("point", r, a, m, f, g, L, j + 1) BY <1>1, <1>4, <2>4 DEF NumberAt
    <3> QED BY <2>0, <3>3, <3>4
  <2>5. ASSUME m + 2 <= j, j <= f PROVE q \in InNumber /\ NumberAt(q, r, a, m, f, g, L, j + 1)
    <3>1. st \in {"point", "fraction"} BY <2>5 DEF NumberAt
    <3>2. c \in Digit BY <1>1, <2>5
    <3>3. q = "fraction" BY <3>1, <3>2, NumberGoes
    <3>4. NumberAt("fraction", r, a, m, f, g, L, j + 1) BY <1>1, <1>4, <2>5 DEF NumberAt
    <3> QED BY <2>0, <3>3, <3>4
  <2>6. ASSUME j = f + 1, f # L PROVE q \in InNumber /\ NumberAt(q, r, a, m, f, g, L, j + 1)
    <3>1. c = "e" BY <1>1, <2>6
    <3>2. st \in {"zero", "digits", "fraction"}
      <4>1. CASE f = m
        <5>1. a < j /\ j <= m + 1 BY <1>1, <2>6, <4>1
        <5> QED BY <5>1 DEF NumberAt
      <4>2. CASE f # m
        <5>1. m + 2 < j /\ j <= f + 1 BY <1>1, <2>6, <4>2
        <5> QED BY <5>1 DEF NumberAt
      <4> QED BY <4>1, <4>2
    <3>3. q = "e" BY <3>1, <3>2, NumberGoes
    <3>4. NumberAt("e", r, a, m, f, g, L, j + 1) BY <1>1, <1>4, <2>6 DEF NumberAt
    <3> QED BY <2>0, <3>3, <3>4
  <2>7. ASSUME j = f + 2, g = 3 PROVE q \in InNumber /\ NumberAt(q, r, a, m, f, g, L, j + 1)
    <3>1. c \in {"+", "-"} BY <1>1, <1>4, <2>7
    <3>2. st = "e" BY <2>7 DEF NumberAt
    <3>3. q = "esign" BY <3>1, <3>2, NumberGoes
    <3>4. NumberAt("esign", r, a, m, f, g, L, j + 1) BY <1>1, <1>4, <2>7 DEF NumberAt
    <3> QED BY <2>0, <3>3, <3>4
  <2>8. ASSUME f + g <= j PROVE q \in InNumber /\ NumberAt(q, r, a, m, f, g, L, j + 1)
    <3>1. c \in Digit BY <1>1, <1>4, <2>8
    <3>2. st \in {"e", "esign", "exponent"}
      <4>1. CASE f + g < j BY <4>1 DEF NumberAt
      <4>2. CASE f + g = j /\ g = 2 BY <4>2 DEF NumberAt
      <4>3. CASE f + g = j /\ g = 3 BY <4>3 DEF NumberAt
      <4> QED BY <2>8, <4>1, <4>2, <4>3
    <3>3. q = "exponent" BY <3>1, <3>2, NumberGoes
    <3>4. NumberAt("exponent", r, a, m, f, g, L, j + 1) BY <1>1, <1>4, <2>8 DEF NumberAt
    <3> QED BY <2>0, <3>3, <3>4
  <2> HIDE DEF q
  <2>9. \/ (j = 1 /\ a = 2) \/ j = a \/ (a < j /\ j <= m) \/ (j = m + 1 /\ f # m)
        \/ (m + 2 <= j /\ j <= f) \/ (j = f + 1 /\ f # L) \/ (j = f + 2 /\ g = 3)
        \/ f + g <= j
    BY <1>1, <1>4
  <2>10. q \in InNumber /\ NumberAt(q, r, a, m, f, g, L, j + 1)
    BY <2>1, <2>2, <2>3, <2>4, <2>5, <2>6, <2>7, <2>8, <2>9
  <2> QED BY <2>10 DEF q
<1> QED BY <1>2, <1>3, <1>4

-----------------------------------------------------------------------------
(* Strings.                                                                *)

(* A run of backslashes from n on, up to before k. *)
Run(r, n, k) == /\ \A b \in n..k-1 : r[b] = BS
                /\ n = 1 \/ r[n - 1] # BS

LEMMA EscapedIs ==
  ASSUME NEW r, NEW k \in Nat
  PROVE  Escaped(r, k) <=> \E n \in 1..k-1 : (k - n) % 2 = 1 /\ Run(r, n, k)
BY DEF Escaped, Run

LEMMA OneRun ==
  ASSUME NEW r, NEW k \in Nat, NEW n \in 1..k-1, NEW d \in 1..k-1, Run(r, n, k), Run(r, d, k)
  PROVE  n = d
BY DEF Run

LEMMA RunExists ==
  ASSUME NEW r, NEW k \in Nat \ {0}, r[k] = BS
  PROVE  \E n \in 1..k : Run(r, n, k + 1)
<1> DEFINE S == {n \in 1..k : \A b \in n..k : r[b] = BS}
<1>1. S \in SUBSET Nat /\ k \in S OBVIOUS
<1>2. PICK n \in S : \A d \in S : n <= d BY <1>1, FirstOf
<1>3. n = 1 \/ r[n - 1] # BS
  <2> SUFFICES ASSUME n # 1, r[n - 1] = BS PROVE FALSE
    OBVIOUS
  <2>1. n - 1 \in S OBVIOUS
  <2> QED BY <2>1, <1>2
<1> QED BY <1>2, <1>3 DEF Run

LEMMA EscapedNext ==
  ASSUME NEW r, NEW k \in Nat \ {0}
  PROVE  Escaped(r, k + 1) <=> r[k] = BS /\ ~Escaped(r, k)
<1>1. ASSUME NEW n \in 1..k, Run(r, n, k + 1)
      PROVE  r[k] = BS /\ (n # k => n \in 1..k-1 /\ Run(r, n, k))
  BY <1>1 DEF Run
<1>2. ASSUME NEW n \in 1..k PROVE (k + 1 - n) % 2 = 1 <=> ~((k - n) % 2 = 1)
  OBVIOUS
<1>3. ASSUME Escaped(r, k + 1) PROVE r[k] = BS /\ ~Escaped(r, k)
  <2>1. PICK n \in 1..k : (k + 1 - n) % 2 = 1 /\ Run(r, n, k + 1)
    BY <1>3, EscapedIs
  <2>2. ASSUME Escaped(r, k) PROVE FALSE
    <3>1. PICK d \in 1..k-1 : (k - d) % 2 = 1 /\ Run(r, d, k) BY <2>2, EscapedIs
    <3>2. n # k
      <4> SUFFICES ASSUME n = k PROVE FALSE
        OBVIOUS
      <4>1. r[k - 1] = BS /\ k # 1 BY <3>1 DEF Run
      <4> QED BY <4>1, <2>1 DEF Run
    <3>3. n = d BY <1>1, <2>1, <3>1, <3>2, OneRun
    <3> QED BY <1>2, <2>1, <3>1, <3>3
  <2> QED BY <1>1, <2>1, <2>2
<1>4. ASSUME r[k] = BS, ~Escaped(r, k) PROVE Escaped(r, k + 1)
  <2>1. PICK n \in 1..k : Run(r, n, k + 1) BY <1>4, RunExists
  <2>2. (k + 1 - n) % 2 = 1
    <3>1. CASE n = k BY <3>1
    <3>2. CASE n # k
      <4>1. n \in 1..k-1 /\ Run(r, n, k) BY <1>1, <2>1, <3>2
      <4>2. ~((k - n) % 2 = 1) BY <1>4, <4>1, EscapedIs
      <4> QED BY <1>2, <4>2
    <3> QED BY <3>1, <3>2
  <2>3. k + 1 \in Nat /\ n \in 1..(k+1)-1 OBVIOUS
  <2> QED BY <2>1, <2>2, <2>3, EscapedIs
<1> QED BY <1>3, <1>4

LEMMA EscapedSame ==
  ASSUME NEW s, NEW r, NEW k \in Nat, \A b \in 1..k-1 : s[b] = r[b]
  PROVE  Escaped(s, k) <=> Escaped(r, k)
<1>1. ASSUME NEW n \in 1..k-1 PROVE Run(s, n, k) <=> Run(r, n, k)
  BY DEF Run
<1> QED BY <1>1, EscapedIs

LEMMA EscapedFirst == ASSUME NEW r PROVE ~Escaped(r, 1)
BY DEF Escaped

FourHex(r, k, e) == k + 4 < e /\ \A n \in k+1..k+4 : r[n] \in Hex
StringParts(r, L) ==
  /\ L >= 2 /\ r[1] = DQ /\ r[L] = DQ
  /\ \A k \in 2..L :
       /\ r[k] = DQ /\ k < L => Escaped(r, k)
       /\ r[k] \in {LF, CR} => Escaped(r, k)
       /\ r[k] = "u" /\ Escaped(r, k) => FourHex(r, k, L)
  /\ ~Escaped(r, L)

LEMMA StringIn ==
  ASSUME NEW L \in Nat, NEW s, Len(s) = L, NEW r, \A k \in 1..L : s[k] = r[k]
  PROVE  IsString(s) <=> StringParts(r, L)
<1>1. \A k \in 1..L : Escaped(s, k) <=> Escaped(r, k) BY EscapedSame
<1>2. L >= 2 => (s[1] = r[1] /\ s[L] = r[L]) OBVIOUS
<1>3. ASSUME NEW k \in 1..L
      PROVE  (k + 4 < L /\ \A n \in k+1..k+4 : s[n] \in Hex) <=> FourHex(r, k, L)
  BY DEF FourHex
<1>4. L >= 2 => (Escaped(s, L) <=> Escaped(r, L)) BY <1>1
<1>5. ASSUME NEW k \in 2..L
      PROVE  (/\ s[k] = DQ /\ k < Len(s) => Escaped(s, k)
              /\ s[k] \in {LF, CR} => Escaped(s, k)
              /\ s[k] = "u" /\ Escaped(s, k) =>
                   k + 4 < Len(s) /\ \A n \in k+1..k+4 : s[n] \in Hex)
             <=> (/\ r[k] = DQ /\ k < L => Escaped(r, k)
                  /\ r[k] \in {LF, CR} => Escaped(r, k)
                  /\ r[k] = "u" /\ Escaped(r, k) => FourHex(r, k, L))
  <2>1. k \in 1..L /\ s[k] = r[k] /\ (Escaped(s, k) <=> Escaped(r, k)) BY <1>1
  <2>2. (k + 4 < Len(s) /\ \A n \in k+1..k+4 : s[n] \in Hex) <=> FourHex(r, k, L)
    BY <1>3, <2>1
  <2> QED BY <2>1, <2>2
<1> QED BY <1>2, <1>4, <1>5 DEF IsString, StringParts

(* Four places of scan_string are n characters behind a "u". *)
Behind(q, n) ==
  (q = "u1" /\ n = 1) \/ (q = "u2" /\ n = 2) \/ (q = "u3" /\ n = 3) \/ (q = "u4" /\ n = 4)

LEMMA StringCame ==
  ASSUME st \in InString, NEW q, q = StringMove
  PROVE  /\ q = "string" => st = "text" /\ c = DQ
         /\ q = "escape" => st = "text" /\ c = BS
         /\ q = "u1" => st = "escape" /\ c = "u"
         /\ q = "u2" => st = "u1" /\ c \in Hex
         /\ q = "u3" => st = "u2" /\ c \in Hex
         /\ q = "u4" => st = "u3" /\ c \in Hex
         /\ q = "text" => \/ st = "u4" /\ c \in Hex
                          \/ st = "text" /\ c \notin {DQ, BS, NUL, LF, CR}
                          \/ st = "escape" /\ c \notin {"u", NUL}
BY DEF StringMove, InString

LEMMA StringGoes ==
  ASSUME st \in InString
  PROVE  /\ st = "text" /\ c = DQ => StringMove = "string"
         /\ st = "text" /\ c = BS => StringMove = "escape"
         /\ st = "escape" /\ c = "u" => StringMove = "u1"
         /\ st = "u1" /\ c \in Hex => StringMove = "u2"
         /\ st = "u2" /\ c \in Hex => StringMove = "u3"
         /\ st = "u3" /\ c \in Hex => StringMove = "u4"
         /\ st = "u4" /\ c \in Hex => StringMove = "text"
         /\ st = "text" /\ c \notin {DQ, BS, NUL, LF, CR} => StringMove = "text"
         /\ st = "escape" /\ c \notin {"u", NUL} => StringMove = "text"
BY DEF StringMove, InString, DQ, BS

LEMMA CharsDiffer ==
  /\ DQ \notin {BS, LF, CR, NUL, "u"} /\ BS \notin {LF, CR, NUL, "u"}
  /\ "u" \notin {LF, CR, NUL}
  /\ \A x \in Hex : x \notin {DQ, BS, LF, CR, NUL, "u"}
BY DEF DQ, BS, LF, CR, NUL, Hex, Digit

(* A "u" behind a backslash has its four digits, or is waiting for them.   *)
UComplete(q, r, j, k) ==
  \/ FourHex(r, k, j)
  \/ \E n \in 1..4 : Behind(q, n) /\ k = j - n /\ \A b \in k+1..j-1 : r[b] \in Hex

StringRead(q, r, j) ==
  /\ j >= 2 /\ r[1] = DQ
  /\ \A k \in 2..j-1 : r[k] \in {DQ, LF, CR} => Escaped(r, k)
  /\ \A k \in 2..j-1 : r[k] = "u" /\ Escaped(r, k) => UComplete(q, r, j, k)
  /\ Escaped(r, j) <=> q = "escape"
  /\ \A n \in 1..4 : Behind(q, n) => j - n >= 2 /\ r[j - n] = "u" /\ Escaped(r, j - n)

LEMMA StringBegins ==
  ASSUME NEW r, r[1] = DQ
  PROVE  StringRead("text", r, 2)
<1>1. 2 = 1 + 1 OBVIOUS
<1>2. ~Escaped(r, 2) BY <1>1, EscapedNext, CharsDiffer
<1>3. \A n \in 1..4 : ~Behind("text", n) BY DEF Behind
<1> QED BY <1>2, <1>3 DEF StringRead

LEMMA BehindNext ==
  ASSUME st \in InString, NEW q \in InString, q = StringMove
  PROVE  /\ \A n \in 1..4 : Behind(st, n) =>
              c \in Hex /\ (IF n = 4 THEN q = "text" ELSE Behind(q, n + 1))
         /\ \A n \in 1..4 : Behind(q, n) =>
              IF n = 1 THEN st = "escape" /\ c = "u" ELSE Behind(st, n - 1) /\ c \in Hex
         /\ q = "escape" <=> st = "text" /\ c = BS
         /\ c \in {DQ, LF, CR} => st = "escape"
         /\ st = "escape" /\ c = "u" => q = "u1"
<1>0. /\ InString = {"text", "escape", "u1", "u2", "u3", "u4"} /\ q # "string"
  BY DEF InString
<1>1. /\ st = "u1" => c \in Hex /\ q = "u2"
      /\ st = "u2" => c \in Hex /\ q = "u3"
      /\ st = "u3" => c \in Hex /\ q = "u4"
      /\ st = "u4" => c \in Hex /\ q = "text"
  BY <1>0, StringCame
<1>2. \A n \in 1..4 : Behind(st, n) =>
        c \in Hex /\ (IF n = 4 THEN q = "text" ELSE Behind(q, n + 1))
  BY <1>1 DEF Behind
<1>3. \A n \in 1..4 : Behind(q, n) =>
        IF n = 1 THEN st = "escape" /\ c = "u" ELSE Behind(st, n - 1) /\ c \in Hex
  BY StringCame DEF Behind
<1>4. q = "escape" <=> st = "text" /\ c = BS BY StringCame, StringGoes
<1>5. c \in {DQ, LF, CR} => st = "escape"
  <2>1. ASSUME c \in {DQ, LF, CR}, st # "escape" PROVE FALSE
    <3>1. c \notin Hex BY <2>1, CharsDiffer
    <3>2. st = "text" BY <1>0, <1>1, <2>1, <3>1
    <3>3. c # BS BY <2>1, CharsDiffer
    <3>4. q \notin {"escape", "u1", "u2", "u3", "u4", "text"}
      BY <2>1, <3>1, <3>2, <3>3, StringCame
    <3> QED BY <1>0, <3>4
  <2> QED BY <2>1
<1>6. st = "escape" /\ c = "u" => q = "u1" BY StringGoes
<1> QED BY <1>2, <1>3, <1>4, <1>5, <1>6

LEMMA StringReadOn ==
  ASSUME NEW r, NEW j \in Nat \ {0}, st \in InString, c = r[j], StringRead(st, r, j),
         NEW q \in InString, q = StringMove
  PROVE  StringRead(q, r, j + 1)
<1>0. /\ \A n \in 1..4 : Behind(st, n) =>
           c \in Hex /\ (IF n = 4 THEN q = "text" ELSE Behind(q, n + 1))
      /\ \A n \in 1..4 : Behind(q, n) =>
           IF n = 1 THEN st = "escape" /\ c = "u" ELSE Behind(st, n - 1) /\ c \in Hex
      /\ q = "escape" <=> st = "text" /\ c = BS
      /\ c \in {DQ, LF, CR} => st = "escape"
      /\ st = "escape" /\ c = "u" => q = "u1"
  BY BehindNext
<1>1. /\ j >= 2 /\ r[1] = DQ
      /\ \A k \in 2..j-1 : r[k] \in {DQ, LF, CR} => Escaped(r, k)
      /\ \A k \in 2..j-1 : r[k] = "u" /\ Escaped(r, k) => UComplete(st, r, j, k)
      /\ Escaped(r, j) <=> st = "escape"
      /\ \A n \in 1..4 : Behind(st, n) => j - n >= 2 /\ r[j - n] = "u" /\ Escaped(r, j - n)
  BY DEF StringRead
<1>2. ASSUME NEW k \in 2..j+1-1, r[k] \in {DQ, LF, CR} PROVE Escaped(r, k)
  <2>1. CASE k = j BY <1>0, <1>1, <1>2, <2>1
  <2>2. CASE k # j
    <3>1. k \in 2..j-1 BY <2>2
    <3> QED BY <1>1, <1>2, <3>1
  <2> QED BY <2>1, <2>2
<1>3. ASSUME NEW k \in 2..j+1-1, r[k] = "u", Escaped(r, k) PROVE UComplete(q, r, j + 1, k)
  <2>1. CASE k = j
    <3>1. st = "escape" /\ q = "u1" BY <1>0, <1>1, <1>3, <2>1
    <3>2. Behind(q, 1) BY <3>1 DEF Behind
    <3>3. k = j + 1 - 1 /\ \A b \in k+1..j+1-1 : r[b] \in Hex BY <2>1
    <3> QED BY <3>2, <3>3 DEF UComplete
  <2>2. CASE k # j
    <3>1. k \in 2..j-1 BY <2>2
    <3>2. UComplete(st, r, j, k) BY <1>1, <1>3, <3>1
    <3>3. CASE FourHex(r, k, j) BY <3>3 DEF UComplete, FourHex
    <3>4. ASSUME NEW n \in 1..4, Behind(st, n), k = j - n, \A b \in k+1..j-1 : r[b] \in Hex
          PROVE  UComplete(q, r, j + 1, k)
      <4>1. r[j] \in Hex BY <1>0, <3>4
      <4>2. \A b \in k+1..j+1-1 : r[b] \in Hex BY <3>1, <3>4, <4>1
      <4>3. CASE n = 4
        <5>1. FourHex(r, k, j + 1) BY <3>4, <4>2, <4>3 DEF FourHex
        <5> QED BY <5>1 DEF UComplete
      <4>4. CASE n # 4
        <5>1. Behind(q, n + 1) BY <1>0, <3>4, <4>4
        <5>2. n + 1 \in 1..4 /\ k = j + 1 - (n + 1) BY <3>4, <4>4
        <5> QED BY <4>2, <5>1, <5>2 DEF UComplete
      <4> QED BY <4>3, <4>4
    <3> QED BY <3>2, <3>3, <3>4 DEF UComplete
  <2> QED BY <2>1, <2>2
<1>4. Escaped(r, j + 1) <=> q = "escape"
  <2>1. Escaped(r, j + 1) <=> r[j] = BS /\ st # "escape" BY <1>1, EscapedNext
  <2>2. r[j] = BS /\ st # "escape" => st = "text"
    <3>1. ASSUME r[j] = BS, st # "escape", st # "text" PROVE FALSE
      <4>1. \E n \in 1..4 : Behind(st, n) BY <3>1 DEF InString, Behind
      <4>2. c \in Hex BY <1>0, <4>1
      <4> QED BY <3>1, <4>2, CharsDiffer
    <3> QED BY <3>1
  <2> QED BY <1>0, <2>1, <2>2
<1>5. ASSUME NEW n \in 1..4, Behind(q, n)
      PROVE  j + 1 - n >= 2 /\ r[j + 1 - n] = "u" /\ Escaped(r, j + 1 - n)
  <2>1. CASE n = 1
    <3>1. st = "escape" /\ r[j] = "u" BY <1>0, <1>5, <2>1
    <3>2. j + 1 - n = j BY <2>1
    <3> QED BY <1>1, <3>1, <3>2
  <2>2. CASE n # 1
    <3>1. n - 1 \in 1..4 /\ Behind(st, n - 1) /\ j + 1 - n = j - (n - 1) BY <1>0, <1>5, <2>2
    <3> QED BY <1>1, <3>1
  <2> QED BY <2>1, <2>2
<1>6. j + 1 >= 2 BY <1>1
<1> QED BY <1>1, <1>2, <1>3, <1>4, <1>5, <1>6 DEF StringRead

LEMMA StringEnds ==
  ASSUME NEW r, NEW j \in Nat \ {0}, st \in InString, c = r[j], StringRead(st, r, j),
         StringMove = "string"
  PROVE  j >= 2 /\ StringParts(r, j)
<1>1. st = "text" /\ r[j] = DQ BY StringCame
<1>2. \A n \in 1..4 : ~Behind(st, n) BY <1>1 DEF Behind
<1>3. /\ j >= 2 /\ r[1] = DQ /\ ~Escaped(r, j)
      /\ \A k \in 2..j-1 : r[k] \in {DQ, LF, CR} => Escaped(r, k)
      /\ \A k \in 2..j-1 : r[k] = "u" /\ Escaped(r, k) => FourHex(r, k, j)
  BY <1>1, <1>2 DEF StringRead, UComplete
<1>4. r[j] \notin {LF, CR, "u"} BY <1>1, CharsDiffer
<1>5. \A k \in 2..j : k = j \/ k \in 2..j-1 BY <1>3
<1>6. ASSUME NEW k \in 2..j
      PROVE  /\ r[k] = DQ /\ k < j => Escaped(r, k)
             /\ r[k] \in {LF, CR} => Escaped(r, k)
             /\ r[k] = "u" /\ Escaped(r, k) => FourHex(r, k, j)
  <2>1. CASE k = j BY <1>4, <2>1
  <2>2. CASE k \in 2..j-1 BY <1>3, <2>2
  <2> QED BY <1>5, <2>1, <2>2
<1> QED BY <1>1, <1>3, <1>6 DEF StringParts

LEMMA StringLasts ==
  ASSUME NEW r, NEW j \in Nat \ {0}, st \in InString, c = r[j], StringRead(st, r, j),
         NEW L \in Nat, StringParts(r, L), \A k \in 1..L : r[k] # NUL, j <= L
  PROVE  \/ StringMove \in InString /\ j + 1 <= L
         \/ StringMove = "string"
<1>1. /\ j >= 2 /\ (Escaped(r, j) <=> st = "escape")
      /\ \A n \in 1..4 : Behind(st, n) => j - n >= 2 /\ r[j - n] = "u" /\ Escaped(r, j - n)
  BY DEF StringRead
<1>2. /\ L >= 2 /\ r[L] = DQ /\ ~Escaped(r, L)
      /\ \A k \in 2..L : r[k] \in {LF, CR} => Escaped(r, k)
      /\ \A k \in 2..L : r[k] = "u" /\ Escaped(r, k) => FourHex(r, k, L)
  BY DEF StringParts
<1>3. j \in 2..L /\ c # NUL BY <1>1
<1>0. {"text", "escape", "u1", "u2", "u3", "u4"} \subseteq InString BY DEF InString
<1>4. CASE st = "text"
  <2>1. c \notin {LF, CR} BY <1>1, <1>2, <1>3, <1>4
  <2>2. c # DQ => j # L /\ StringMove \in InString
    BY <1>0, <1>2, <1>3, <1>4, <2>1, StringGoes
  <2> QED BY <1>3, <1>4, <2>2, StringGoes
<1>5. CASE st = "escape"
  <2>1. j # L BY <1>1, <1>2, <1>5
  <2>2. StringMove \in InString BY <1>0, <1>3, <1>5, StringGoes
  <2> QED BY <1>3, <2>1, <2>2
<1>6. ASSUME NEW n \in 1..4, Behind(st, n)
      PROVE  StringMove \in InString /\ j + 1 <= L
  <2>1. j - n \in 2..L /\ FourHex(r, j - n, L) BY <1>1, <1>2, <1>3, <1>6
  <2>2. j < L /\ r[j] \in Hex
    <3>1. j - n + 4 < L /\ \A b \in j-n+1..j-n+4 : r[b] \in Hex BY <2>1 DEF FourHex
    <3>2. j \in j-n+1..j-n+4 OBVIOUS
    <3> QED BY <3>1, <3>2
  <2>3. StringMove \in InString
    <3>1. st \in {"u1", "u2", "u3", "u4"} BY <1>6 DEF Behind
    <3> QED BY <1>0, <2>2, <3>1, StringGoes
  <2> QED BY <1>3, <2>2, <2>3
<1>7. st \in {"text", "escape"} \/ \E n \in 1..4 : Behind(st, n)
  BY DEF InString, Behind
<1> QED BY <1>4, <1>5, <1>6, <1>7

-----------------------------------------------------------------------------
(* Places: line and column behind the white space B before place p.        *)

BreakAt(k, B) == Text[k] = CR \/ (Text[k] = LF /\ ~(k - 1 \in B /\ Text[k - 1] = CR))
LineBreaks(p, B) == {k \in B : k < p /\ BreakAt(k, B)}
LineEnds(p, B)   == {k \in B : k < p /\ Text[k] \in {LF, CR}}
Tabs(s, p, B)    == {k \in B : s < k /\ k < p /\ Text[k] = TAB}

LEMMA LineAtIs == ASSUME NEW p, NEW B PROVE LineAt(p, B) = 1 + Cardinality(LineBreaks(p, B))
BY DEF LineAt, LineBreaks, BreakAt

LEMMA ColAtIs ==
  ASSUME NEW p, NEW B, NEW s, s = Max({0} \union LineEnds(p, B))
  PROVE  ColAt(p, B) = p - s + 3 * Cardinality(Tabs(s, p, B))
BY DEF ColAt, LineEnds, Tabs

(* The column, from the last line end. *)
Column(p, B, cl) ==
  \E s \in {0} \union LineEnds(p, B) :
    /\ \A k \in LineEnds(p, B) : s >= k
    /\ cl = p - s + 3 * Cardinality(Tabs(s, p, B))

LEMMA ColumnIs ==
  ASSUME NEW p \in Nat, NEW B \in SUBSET Nat, NEW cl, Column(p, B, cl)
  PROVE  ColAt(p, B) = cl
<1>1. PICK s \in {0} \union LineEnds(p, B) :
        /\ \A k \in LineEnds(p, B) : s >= k
        /\ cl = p - s + 3 * Cardinality(Tabs(s, p, B))
  BY DEF Column
<1>2. LineEnds(p, B) \in SUBSET Nat BY DEF LineEnds
<1>3. \A k \in {0} \union LineEnds(p, B) : s >= k BY <1>1, <1>2
<1>4. Max({0} \union LineEnds(p, B)) = s
  <2>1. {0} \union LineEnds(p, B) \in SUBSET Nat BY <1>2
  <2> QED BY <1>1, <1>3, <2>1, MaxIs
<1> QED BY <1>1, <1>4, ColAtIs

LEMMA PlaceAgrees ==
  ASSUME NEW p \in Nat, NEW B \in SUBSET Nat, NEW D \in SUBSET Nat,
         \A k \in Nat : k < p => (k \in B <=> k \in D)
  PROVE  LineAt(p, B) = LineAt(p, D) /\ ColAt(p, B) = ColAt(p, D)
<1>1. ASSUME NEW k \in Nat, k < p PROVE BreakAt(k, B) <=> BreakAt(k, D)
  <2>1. k - 1 \in B <=> k - 1 \in D
    <3>1. CASE k - 1 \in Nat BY <3>1, <1>1
    <3>2. CASE k - 1 \notin Nat BY <3>2
    <3> QED BY <3>1, <3>2
  <2> QED BY <2>1 DEF BreakAt
<1>2. LineBreaks(p, B) = LineBreaks(p, D) BY <1>1 DEF LineBreaks
<1>3. LineEnds(p, B) = LineEnds(p, D) BY DEF LineEnds
<1>4. \A s : Tabs(s, p, B) = Tabs(s, p, D) BY DEF Tabs
<1>5. PICK s : s = Max({0} \union LineEnds(p, B)) OBVIOUS
<1>6. ColAt(p, B) = ColAt(p, D) BY <1>3, <1>4, <1>5, ColAtIs
<1> QED BY <1>2, <1>6, LineAtIs

(* No line end CR LF lies across p. *)
NoSplit(p, B) == p - 1 \in B /\ Text[p - 1] = CR => Text[p] # LF
Place(p, B, ln, cl) == ln = LineAt(p, B) /\ Column(p, B, cl) /\ NoSplit(p, B)

Before(p, B) == p \in Nat \ {0} /\ B \in SUBSET (1..p-1)

LEMMA BeforeIs ==
  ASSUME NEW p, NEW B, Before(p, B)
  PROVE  /\ p \in Nat \ {0} /\ B \in SUBSET Nat /\ IsFiniteSet(B)
         /\ \A k \in B : k \in Nat /\ k < p /\ k # p
         /\ \A n \in Nat : p + n \notin B
<1>1. p \in Nat \ {0} /\ B \in SUBSET (1..p-1) BY DEF Before
<1>2. IsFiniteSet(1..p-1) BY <1>1, FS_Interval
<1>3. IsFiniteSet(B) BY <1>1, <1>2, FS_Subset
<1> QED BY <1>1, <1>3

LEMMA NoSplitIs ==
  ASSUME NEW p, NEW B, NEW d, d = p - 1, d \notin B \/ Text[d] # CR \/ Text[p] # LF
  PROVE  NoSplit(p, B)
BY DEF NoSplit

LEMMA ColumnFrom ==
  ASSUME NEW p, NEW B, NEW cl, NEW s \in {0} \union LineEnds(p, B),
         \A k \in LineEnds(p, B) : s >= k, NEW x, x = Cardinality(Tabs(s, p, B)),
         cl = p - s + 3 * x
  PROVE  Column(p, B, cl)
BY DEF Column

LEMMA FiniteParts ==
  ASSUME NEW p, NEW B, IsFiniteSet(B)
  PROVE  /\ IsFiniteSet(LineBreaks(p, B)) /\ Cardinality(LineBreaks(p, B)) \in Nat
         /\ \A s : IsFiniteSet(Tabs(s, p, B)) /\ Cardinality(Tabs(s, p, B)) \in Nat
<1>1. LineBreaks(p, B) \in SUBSET B BY DEF LineBreaks
<1>2. \A s : Tabs(s, p, B) \in SUBSET B BY DEF Tabs
<1>3. IsFiniteSet(LineBreaks(p, B)) BY <1>1, FS_Subset
<1>4. ASSUME NEW s PROVE IsFiniteSet(Tabs(s, p, B)) BY <1>2, FS_Subset
<1> QED BY <1>3, <1>4, FS_CardinalityType

LEMMA PlaceBegins == Place(1, {}, 1, 1)
<1>1. LineBreaks(1, {}) = {} /\ LineEnds(1, {}) = {} /\ \A s : Tabs(s, 1, {}) = {}
  BY DEF LineBreaks, LineEnds, Tabs
<1>2. LineAt(1, {}) = 1 BY <1>1, LineAtIs, FS_EmptySet
<1>3. Cardinality(Tabs(0, 1, {})) = 0 BY <1>1, FS_EmptySet
<1>4. Column(1, {}, 1) BY <1>1, <1>3 DEF Column
<1> QED BY <1>2, <1>4 DEF Place, NoSplit

(* Over n characters of a token. *)
LEMMA PlaceToken ==
  ASSUME NEW p \in Nat \ {0}, NEW B, Before(p, B), NEW ln, NEW cl, Place(p, B, ln, cl),
         NEW n \in Nat \ {0}
  PROVE  Place(p + n, B, ln, cl + n)
<1>1. /\ p \in Nat \ {0} /\ B \in SUBSET Nat /\ IsFiniteSet(B)
      /\ \A k \in B : k \in Nat /\ k < p /\ k # p
      /\ \A k \in Nat : p + k \notin B
  BY BeforeIs
<1>2. \A k \in B : k < p + n BY <1>1
<1>3. LineBreaks(p + n, B) = LineBreaks(p, B) BY <1>1, <1>2 DEF LineBreaks
<1>4. LineEnds(p + n, B) = LineEnds(p, B) BY <1>1, <1>2 DEF LineEnds
<1>5. \A s : Tabs(s, p + n, B) = Tabs(s, p, B) BY <1>1, <1>2 DEF Tabs
<1>6. LineAt(p + n, B) = ln BY <1>3, LineAtIs DEF Place
<1>7. Column(p + n, B, cl + n)
  <2>1. PICK s \in {0} \union LineEnds(p, B) :
          /\ \A k \in LineEnds(p, B) : s >= k
          /\ cl = p - s + 3 * Cardinality(Tabs(s, p, B))
    BY DEF Place, Column
  <2>2. PICK x \in Nat : x = Cardinality(Tabs(s, p, B)) BY <1>1, FiniteParts
  <2>3. s \in Nat BY <1>1 DEF LineEnds
  <2>4. cl + n = p + n - s + 3 * x BY <1>1, <2>1, <2>2, <2>3
  <2>5. x = Cardinality(Tabs(s, p + n, B)) BY <1>5, <2>2
  <2> QED BY <1>4, <2>1, <2>4, <2>5, ColumnFrom
<1>8. NoSplit(p + n, B)
  <2>1. PICK d : d = p + n - 1 OBVIOUS
  <2>2. d = p + (n - 1) /\ n - 1 \in Nat BY <1>1, <2>1
  <2>3. d \notin B BY <1>1, <2>2
  <2> QED BY <2>1, <2>3, NoSplitIs
<1> QED BY <1>6, <1>7, <1>8 DEF Place

(* Over a blank or a tab. *)
LEMMA PlaceBlank ==
  ASSUME NEW p \in Nat \ {0}, NEW B, Before(p, B), NEW ln, NEW cl, Place(p, B, ln, cl),
         Text[p] \notin {LF, CR}
  PROVE  Place(p + 1, B \union {p}, ln, IF Text[p] = TAB THEN cl + 4 ELSE cl + 1)
<1> DEFINE D == B \union {p}
<1>d. p \in D /\ \A k : k \in D <=> k \in B \/ k = p OBVIOUS
<1> HIDE DEF D
<1>1. /\ p \in Nat \ {0} /\ B \in SUBSET Nat /\ IsFiniteSet(B)
      /\ \A k \in B : k \in Nat /\ k < p /\ k # p
      /\ \A k \in Nat : p + k \notin B
  BY BeforeIs
<1>2. \A k \in B : k < p + 1 BY <1>1
<1>3. \A k \in B : BreakAt(k, D) <=> BreakAt(k, B)
  <2>1. \A k \in B : k - 1 # p BY <1>1
  <2> QED BY <1>d, <2>1 DEF BreakAt
<1>4. ~BreakAt(p, D) BY DEF BreakAt
<1>5. LineBreaks(p + 1, D) = LineBreaks(p, B)
  BY <1>d, <1>1, <1>2, <1>3, <1>4 DEF LineBreaks
<1>6. LineEnds(p + 1, D) = LineEnds(p, B) BY <1>d, <1>1, <1>2 DEF LineEnds
<1>7. LineAt(p + 1, D) = ln BY <1>5, LineAtIs DEF Place
<1>8. Column(p + 1, D, IF Text[p] = TAB THEN cl + 4 ELSE cl + 1)
  <2>1. PICK s \in {0} \union LineEnds(p, B) :
          /\ \A k \in LineEnds(p, B) : s >= k
          /\ cl = p - s + 3 * Cardinality(Tabs(s, p, B))
    BY DEF Place, Column
  <2>2. PICK x \in Nat : x = Cardinality(Tabs(s, p, B)) BY <1>1, FiniteParts
  <2>3. s \in Nat /\ s < p BY <1>d, <1>1 DEF LineEnds
  <2>4. IsFiniteSet(Tabs(s, p, B)) BY <1>1, FiniteParts
  <2>5. p \notin Tabs(s, p, B) BY <1>1 DEF Tabs
  <2>6. CASE Text[p] = TAB
    <3>1. Tabs(s, p + 1, D) = Tabs(s, p, B) \union {p}
      <4>1. \A k \in B : k \in Tabs(s, p + 1, D) <=> k \in Tabs(s, p, B)
        BY <1>d, <1>1, <1>2 DEF Tabs
      <4>2. p \in Tabs(s, p + 1, D) BY <1>d, <1>1, <2>3, <2>6 DEF Tabs
      <4>3. \A k : k \in Tabs(s, p + 1, D) => k \in D BY DEF Tabs
      <4>4. \A k : k \in Tabs(s, p, B) => k \in B BY DEF Tabs
      <4> QED BY <1>d, <4>1, <4>2, <4>3, <4>4
    <3>2. Cardinality(Tabs(s, p + 1, D)) = x + 1
      BY <2>2, <2>4, <2>5, <3>1, FS_AddElement
    <3>3. cl + 4 = p + 1 - s + 3 * (x + 1) BY <1>1, <2>1, <2>2, <2>3
    <3>4. Column(p + 1, D, cl + 4) BY <1>6, <2>1, <3>2, <3>3, ColumnFrom
    <3> QED BY <2>6, <3>4
  <2>7. CASE Text[p] # TAB
    <3>1. Tabs(s, p + 1, D) = Tabs(s, p, B)
      BY <1>d, <1>1, <1>2, <2>3, <2>7 DEF Tabs
    <3>3. cl + 1 = p + 1 - s + 3 * x BY <1>1, <2>1, <2>2, <2>3
    <3>2. x = Cardinality(Tabs(s, p + 1, D)) BY <2>2, <3>1
    <3>4. Column(p + 1, D, cl + 1) BY <1>6, <2>1, <3>2, <3>3, ColumnFrom
    <3> QED BY <2>7, <3>4
  <2> QED BY <2>6, <2>7
<1>9. NoSplit(p + 1, D)
  <2>1. p + 1 - 1 = p BY <1>1
  <2> QED BY <2>1, NoSplitIs
<1> QED BY <1>7, <1>8, <1>9 DEF Place, D

(* Over a line end of one character. *)
LEMMA PlaceLine ==
  ASSUME NEW p \in Nat \ {0}, NEW B, Before(p, B), NEW ln, NEW cl, Place(p, B, ln, cl),
         Text[p] \in {LF, CR}, Text[p] = CR => Text[p + 1] # LF
  PROVE  Place(p + 1, B \union {p}, ln + 1, 1)
<1> DEFINE D == B \union {p}
<1>d. p \in D /\ \A k : k \in D <=> k \in B \/ k = p OBVIOUS
<1> HIDE DEF D
<1>1. /\ p \in Nat \ {0} /\ B \in SUBSET Nat /\ IsFiniteSet(B)
      /\ \A k \in B : k \in Nat /\ k < p /\ k # p
      /\ \A k \in Nat : p + k \notin B
  BY BeforeIs
<1>2. \A k \in B : k < p + 1 BY <1>1
<1>3. \A k \in B : BreakAt(k, D) <=> BreakAt(k, B)
  <2>1. \A k \in B : k - 1 # p BY <1>1
  <2> QED BY <1>d, <2>1 DEF BreakAt
<1>4. BreakAt(p, D)
  <2>1. p - 1 # p BY <1>1
  <2> QED BY <1>d, <2>1 DEF BreakAt, Place, NoSplit
<1>5. LineBreaks(p + 1, D) = LineBreaks(p, B) \union {p}
  <2>1. \A k \in B : k \in LineBreaks(p + 1, D) <=> k \in LineBreaks(p, B)
    BY <1>d, <1>1, <1>2, <1>3 DEF LineBreaks
  <2>2. p \in LineBreaks(p + 1, D) BY <1>d, <1>1, <1>4 DEF LineBreaks
  <2>3. \A k : k \in LineBreaks(p + 1, D) => k \in D BY DEF LineBreaks
  <2>4. \A k : k \in LineBreaks(p, B) => k \in B BY DEF LineBreaks
  <2> QED BY <1>d, <2>1, <2>2, <2>3, <2>4
<1>6. p \notin LineBreaks(p, B) BY <1>1 DEF LineBreaks
<1>7. IsFiniteSet(LineBreaks(p, B)) /\ Cardinality(LineBreaks(p, B)) \in Nat
  BY <1>1, FiniteParts
<1>8. PICK x \in Nat : x = Cardinality(LineBreaks(p, B)) BY <1>7
<1>9. Cardinality(LineBreaks(p + 1, D)) = x + 1
  BY <1>5, <1>6, <1>7, <1>8, FS_AddElement
<1>10. LineAt(p + 1, D) = ln + 1 BY <1>8, <1>9, LineAtIs DEF Place
<1>11. Column(p + 1, D, 1)
  <2>1. p \in LineEnds(p + 1, D) BY <1>d, <1>1 DEF LineEnds
  <2>2. \A k \in LineEnds(p + 1, D) : p >= k BY <1>d, <1>1 DEF LineEnds
  <2>3. Tabs(p, p + 1, D) = {}
    <3>1. \A k \in B : k \notin Tabs(p, p + 1, D) BY <1>1 DEF Tabs
    <3>2. p \notin Tabs(p, p + 1, D) BY DEF Tabs
    <3>3. \A k : k \in Tabs(p, p + 1, D) => k \in D BY DEF Tabs
    <3> QED BY <1>d, <3>1, <3>2, <3>3
  <2>4. Cardinality(Tabs(p, p + 1, D)) = 0 BY <2>3, FS_EmptySet
  <2>5. 1 = p + 1 - p + 3 * 0 BY <1>1
  <2> QED BY <2>1, <2>2, <2>4, <2>5, ColumnFrom
<1>12. NoSplit(p + 1, D)
  <2>1. p + 1 - 1 = p BY <1>1
  <2>2. LF # CR BY DEF LF, CR
  <2> QED BY <2>1, <2>2, NoSplitIs
<1> QED BY <1>10, <1>11, <1>12 DEF Place, D

(* Over CR LF. *)
LEMMA PlaceTwo ==
  ASSUME NEW p \in Nat \ {0}, NEW B, Before(p, B), NEW ln, NEW cl, Place(p, B, ln, cl),
         Text[p] = CR, Text[p + 1] = LF
  PROVE  Place(p + 2, B \union {p, p + 1}, ln + 1, 1)
<1> DEFINE D == B \union {p, p + 1}
<1>d. p \in D /\ p + 1 \in D /\ \A k : k \in D <=> k \in B \/ k = p \/ k = p + 1 OBVIOUS
<1> HIDE DEF D
<1>1. /\ p \in Nat \ {0} /\ B \in SUBSET Nat /\ IsFiniteSet(B)
      /\ \A k \in B : k \in Nat /\ k < p /\ k # p
      /\ \A k \in Nat : p + k \notin B
  BY BeforeIs
<1>2. \A k \in B : k < p + 2 BY <1>1
<1>3. \A k \in B : BreakAt(k, D) <=> BreakAt(k, B)
  <2>1. \A k \in B : k - 1 # p /\ k - 1 # p + 1 BY <1>1
  <2> QED BY <1>d, <2>1 DEF BreakAt
<1>4. BreakAt(p, D) BY <1>d DEF BreakAt
<1>5. ~BreakAt(p + 1, D)
  <2>1. p + 1 - 1 = p BY <1>1
  <2>2. LF # CR BY DEF LF, CR
  <2> QED BY <2>1, <2>2, <1>d DEF BreakAt
<1>6. LineBreaks(p + 2, D) = LineBreaks(p, B) \union {p}
  <2>1. \A k \in B : k \in LineBreaks(p + 2, D) <=> k \in LineBreaks(p, B)
    BY <1>d, <1>1, <1>2, <1>3 DEF LineBreaks
  <2>2. p \in LineBreaks(p + 2, D) BY <1>d, <1>1, <1>4 DEF LineBreaks
  <2>3. \A k : k \in LineBreaks(p + 2, D) => k \in D BY DEF LineBreaks
  <2>4. \A k : k \in LineBreaks(p, B) => k \in B BY DEF LineBreaks
  <2>6. p + 1 \notin LineBreaks(p + 2, D) BY <1>5 DEF LineBreaks
  <2> QED BY <1>d, <2>1, <2>2, <2>3, <2>4, <2>6
<1>7. p \notin LineBreaks(p, B) BY <1>1 DEF LineBreaks
<1>8. IsFiniteSet(LineBreaks(p, B)) /\ Cardinality(LineBreaks(p, B)) \in Nat
  BY <1>1, FiniteParts
<1>9. PICK x \in Nat : x = Cardinality(LineBreaks(p, B)) BY <1>8
<1>10. Cardinality(LineBreaks(p + 2, D)) = x + 1
  BY <1>6, <1>7, <1>8, <1>9, FS_AddElement
<1>11. LineAt(p + 2, D) = ln + 1 BY <1>9, <1>10, LineAtIs DEF Place
<1>12. Column(p + 2, D, 1)
  <2>1. p + 1 \in LineEnds(p + 2, D) BY <1>d, <1>1 DEF LineEnds
  <2>2. \A k \in LineEnds(p + 2, D) : p + 1 >= k BY <1>d, <1>1 DEF LineEnds
  <2>3. Tabs(p + 1, p + 2, D) = {}
    <3>1. \A k \in B : k \notin Tabs(p + 1, p + 2, D) BY <1>1 DEF Tabs
    <3>2. p \notin Tabs(p + 1, p + 2, D) /\ p + 1 \notin Tabs(p + 1, p + 2, D) BY DEF Tabs
    <3>3. \A k : k \in Tabs(p + 1, p + 2, D) => k \in D BY DEF Tabs
    <3> QED BY <1>d, <3>1, <3>2, <3>3
  <2>4. Cardinality(Tabs(p + 1, p + 2, D)) = 0 BY <2>3, FS_EmptySet
  <2>5. 1 = p + 2 - (p + 1) + 3 * 0 BY <1>1
  <2> QED BY <2>1, <2>2, <2>4, <2>5, ColumnFrom
<1>13. NoSplit(p + 2, D)
  <2>1. p + 2 - 1 = p + 1 BY <1>1
  <2>2. LF # CR BY DEF LF, CR
  <2> QED BY <2>1, <2>2, NoSplitIs
<1> QED BY <1>11, <1>12, <1>13 DEF Place, D

-----------------------------------------------------------------------------
(* The tokens so far are right, and the lexer is at ix, in line ln.        *)

Token == [kind : Kinds \union {"eof", "error"}, from : Nat, length : Nat, line : Nat, col : Nat]
Gaps(toks, ix) ==
  {k \in 1..ix-1 : \A t \in 1..Len(toks) : ~(StartOf(toks[t]) <= k /\ k <= EndOf(toks[t]))}

Lies(toks, ix) ==
  /\ \A t \in 1..Len(toks) :
       /\ IsToken(toks[t].kind, StartOf(toks[t]), EndOf(toks[t]))
       /\ StartOf(toks[t]) \in Nat /\ EndOf(toks[t]) \in Nat
       /\ StartOf(toks[t]) <= EndOf(toks[t]) /\ EndOf(toks[t]) < ix
  /\ \A t \in 1..Len(toks)-1 : EndOf(toks[t]) < StartOf(toks[t + 1])
Good(toks, ix, ln, cl) ==
  /\ toks \in Seq(Token) /\ Lies(toks, ix)
  /\ Marked(toks, Gaps(toks, ix))
  /\ \A k \in Gaps(toks, ix) : Text[k] \in Blanks
  /\ Place(ix, Gaps(toks, ix), ln, cl)

LEMMA GapsBefore ==
  ASSUME NEW toks, NEW ix \in Nat \ {0}
  PROVE  Before(ix, Gaps(toks, ix)) /\ Gaps(toks, ix) \in SUBSET Nat
BY DEF Before, Gaps

LEMMA TokenPlaces ==
  ASSUME NEW tok \in Token
  PROVE  StartOf(tok) \in Int /\ EndOf(tok) \in Int
<1>1. tok.from \in Nat /\ tok.length \in Nat BY DEF Token
<1> QED BY <1>1 DEF StartOf, EndOf

LEMMA GoodBegins == Good(<<>>, 1, 1, 1)
<1>1. Gaps(<<>>, 1) = {} BY DEF Gaps
<1>2. Len(<<>>) = 0 /\ <<>> \in Seq(Token) OBVIOUS
<1>3. Lies(<<>>, 1) /\ Marked(<<>>, {}) BY <1>2 DEF Lies, Marked
<1> QED BY <1>1, <1>2, <1>3, PlaceBegins DEF Good

LEMMA GoodToken ==
  ASSUME NEW toks, NEW ix \in Nat \ {0}, NEW ln, NEW cl, Good(toks, ix, ln, cl),
         NEW tok \in Token, NEW n \in Nat \ {0},
         StartOf(tok) = ix, EndOf(tok) = ix + n - 1, tok.line = ln, tok.col = cl,
         IsToken(tok.kind, ix, ix + n - 1)
  PROVE  Good(Append(toks, tok), ix + n, ln, cl + n)
<1>1. PICK new : new = Append(toks, tok) OBVIOUS
<1>2. PICK e : e = ix + n OBVIOUS
<1>3. /\ new \in Seq(Token) /\ Len(toks) \in Nat /\ Len(new) = Len(toks) + 1
      /\ new[Len(toks) + 1] = tok /\ \A t \in 1..Len(toks) : new[t] = toks[t]
  BY <1>1, AppendProperties DEF Good
<1>4. PICK L \in Nat : L = Len(toks) BY <1>3
<1>5. e \in Nat /\ ix < e /\ EndOf(tok) < e /\ EndOf(tok) \in Nat /\ ix <= EndOf(tok) BY <1>2
<1>6. PICK B : B = Gaps(toks, ix) OBVIOUS
<1>7. Gaps(new, e) = B
  <2>1. \A k \in 1..ix-1 : ~(StartOf(tok) <= k /\ k <= EndOf(tok)) OBVIOUS
  <2>2. \A k \in ix..e-1 : StartOf(tok) <= k /\ k <= EndOf(tok) BY <1>2
  <2>3. \A k : k \in B <=>
            k \in 1..ix-1 /\ \A t \in 1..L : ~(StartOf(toks[t]) <= k /\ k <= EndOf(toks[t]))
    BY <1>4, <1>6 DEF Gaps
  <2>4. \A k : k \in Gaps(new, e) <=>
            k \in 1..e-1 /\ \A t \in 1..L+1 : ~(StartOf(new[t]) <= k /\ k <= EndOf(new[t]))
    BY <1>3, <1>4 DEF Gaps
  <2>5. \A k : k \in Gaps(new, e) <=>
            /\ k \in 1..e-1 /\ ~(StartOf(tok) <= k /\ k <= EndOf(tok))
            /\ \A t \in 1..L : ~(StartOf(toks[t]) <= k /\ k <= EndOf(toks[t]))
    <3>1. L + 1 \in 1..L+1 /\ \A t \in 1..L : t \in 1..L+1 OBVIOUS
    <3>2. \A t \in 1..L+1 : t = L + 1 \/ t \in 1..L OBVIOUS
    <3>3. new[L + 1] = tok /\ \A t \in 1..L : new[t] = toks[t] BY <1>3, <1>4
    <3> QED BY <2>4, <3>1, <3>2, <3>3
  <2>6. \A k : k \in 1..e-1 <=> k \in 1..ix-1 \/ k \in ix..e-1 BY <1>5
  <2> QED BY <2>1, <2>2, <2>3, <2>5, <2>6
<1>8. Lies(new, e)
  <2>1. ASSUME NEW t \in 1..L+1
        PROVE  /\ IsToken(new[t].kind, StartOf(new[t]), EndOf(new[t]))
               /\ StartOf(new[t]) \in Nat /\ EndOf(new[t]) \in Nat
               /\ StartOf(new[t]) <= EndOf(new[t]) /\ EndOf(new[t]) < e
    <3>1. CASE t = L + 1 BY <1>3, <1>4, <1>5, <3>1
    <3>2. CASE t # L + 1
      <4>1. t \in 1..Len(toks) /\ new[t] = toks[t] BY <1>3, <1>4, <3>2
      <4>2. EndOf(toks[t]) \in Nat /\ EndOf(toks[t]) < ix BY <4>1 DEF Good, Lies
      <4>3. EndOf(toks[t]) < e BY <1>5, <4>2
      <4> QED BY <4>1, <4>3 DEF Good, Lies
    <3> QED BY <3>1, <3>2
  <2>2. ASSUME NEW t \in 1..L+1-1 PROVE EndOf(new[t]) < StartOf(new[t + 1])
    <3>1. t \in 1..Len(toks) /\ new[t] = toks[t] BY <1>3, <1>4
    <3>2. CASE t = L
      <4>1. new[t + 1] = tok BY <1>3, <1>4, <3>2
      <4> QED BY <3>1, <4>1 DEF Good, Lies
    <3>3. CASE t # L
      <4>1. t + 1 \in 1..Len(toks) /\ t \in 1..Len(toks)-1 BY <1>4, <3>3
      <4>2. new[t + 1] = toks[t + 1] BY <1>3, <4>1
      <4> QED BY <3>1, <4>1, <4>2 DEF Good, Lies
    <3> QED BY <3>2, <3>3
  <2> QED BY <1>3, <1>4, <2>1, <2>2 DEF Lies
<1>9. Before(ix, B) /\ B \in SUBSET Nat /\ Place(ix, B, ln, cl) BY <1>6, GapsBefore DEF Good
<1>10. Marked(new, B)
  <2>1. ln = LineAt(ix, B) /\ cl = ColAt(ix, B) BY <1>9, ColumnIs DEF Place
  <2>2. ASSUME NEW t \in 1..L+1
        PROVE  /\ new[t].line = LineAt(StartOf(new[t]), B)
               /\ new[t].col = ColAt(StartOf(new[t]), B)
    <3>1. CASE t = L + 1 BY <1>3, <1>4, <2>1, <3>1
    <3>2. CASE t # L + 1
      <4>1. t \in 1..Len(toks) /\ new[t] = toks[t] BY <1>3, <1>4, <3>2
      <4> QED BY <1>6, <4>1 DEF Good, Marked
    <3> QED BY <3>1, <3>2
  <2> QED BY <1>3, <1>4, <2>2 DEF Marked
<1>11. Place(e, B, ln, cl + n) BY <1>2, <1>9, PlaceToken
<1>12. \A k \in B : Text[k] \in Blanks BY <1>6 DEF Good
<1> QED BY <1>1, <1>2, <1>3, <1>7, <1>8, <1>10, <1>11, <1>12 DEF Good

LEMMA GoodSkip ==
  ASSUME NEW toks, NEW ix \in Nat \ {0}, NEW ln, NEW cl, Good(toks, ix, ln, cl),
         NEW n \in Nat \ {0}, \A k \in ix..ix+n-1 : Text[k] \in Blanks,
         NEW ln2, NEW cl2, Place(ix + n, Gaps(toks, ix) \union (ix..ix+n-1), ln2, cl2)
  PROVE  Good(toks, ix + n, ln2, cl2)
<1>1. PICK e \in Nat : e = ix + n /\ ix < e OBVIOUS
<1>2. PICK B : B = Gaps(toks, ix) OBVIOUS
<1>3. PICK D : D = B \union (ix..e-1) OBVIOUS
<1>4. \A t \in 1..Len(toks) :
        /\ StartOf(toks[t]) \in Nat /\ EndOf(toks[t]) \in Nat
        /\ StartOf(toks[t]) <= EndOf(toks[t]) /\ EndOf(toks[t]) < ix
  BY DEF Good, Lies
<1>5. Gaps(toks, e) = D
  <2>1. \A k : k \in 1..e-1 <=> k \in 1..ix-1 \/ k \in ix..e-1 BY <1>1
  <2>2. \A k \in ix..e-1 :
          \A t \in 1..Len(toks) : ~(StartOf(toks[t]) <= k /\ k <= EndOf(toks[t]))
    BY <1>4
  <2>3. \A k : k \in B <=>
          k \in 1..ix-1 /\ \A t \in 1..Len(toks) : ~(StartOf(toks[t]) <= k /\ k <= EndOf(toks[t]))
    BY <1>2 DEF Gaps
  <2>4. \A k : k \in Gaps(toks, e) <=>
          k \in 1..e-1 /\ \A t \in 1..Len(toks) : ~(StartOf(toks[t]) <= k /\ k <= EndOf(toks[t]))
    BY DEF Gaps
  <2>5. \A k : k \in D <=> k \in B \/ k \in ix..e-1 BY <1>3
  <2> QED BY <2>1, <2>2, <2>3, <2>4, <2>5
<1>6. Lies(toks, e)
  <2>1. \A t \in 1..Len(toks) : EndOf(toks[t]) < e BY <1>1, <1>4
  <2> QED BY <2>1 DEF Good, Lies
<1>7. B \in SUBSET Nat /\ D \in SUBSET Nat BY <1>2, <1>3, GapsBefore
<1>8. Marked(toks, D)
  <2> SUFFICES ASSUME NEW t \in 1..Len(toks)
               PROVE  /\ toks[t].line = LineAt(StartOf(toks[t]), D)
                      /\ toks[t].col = ColAt(StartOf(toks[t]), D)
    BY DEF Marked
  <2>1. PICK s \in Nat : s = StartOf(toks[t]) /\ s < ix BY <1>4
  <2>2. \A k \in Nat : k < s => (k \in B <=> k \in D) BY <1>3, <2>1
  <2>3. LineAt(s, B) = LineAt(s, D) /\ ColAt(s, B) = ColAt(s, D) BY <1>7, <2>2, PlaceAgrees
  <2> QED BY <1>2, <2>1, <2>3 DEF Good, Marked
<1>9. \A k \in D : Text[k] \in Blanks
  <2>1. \A k \in B : Text[k] \in Blanks BY <1>2 DEF Good
  <2>2. \A k \in ix..e-1 : Text[k] \in Blanks BY <1>1
  <2> QED BY <1>3, <2>1, <2>2
<1>10. Place(e, D, ln2, cl2) BY <1>1, <1>2, <1>3
<1>11. toks \in Seq(Token) BY DEF Good
<1> QED BY <1>1, <1>5, <1>6, <1>8, <1>9, <1>10, <1>11 DEF Good

NoTokenAt(ix) ==
  /\ Text[ix] \notin Blanks \union {NUL}
  /\ \A e \in ix..Len(Text)-1, k \in Kinds : ~IsToken(k, ix, e)

CutRight(toks) ==
  /\ InOrder(toks) /\ Marked(toks, LeftOut(toks))
  /\ \A k \in LeftOut(toks) : Text[k] \in Blanks
  /\ Stops(toks[Len(toks)])

LEMMA GoodDone ==
  ASSUME NEW toks, NEW ix \in Nat \ {0}, NEW ln, NEW cl, Good(toks, ix, ln, cl),
         NEW tok \in Token, tok.from = ix, tok.line = ln, tok.col = cl,
         \/ tok.kind = "eof" /\ ix = Len(Text)
         \/ tok.kind = "error" /\ NoTokenAt(ix)
  PROVE  CutRight(Append(toks, tok))
<1>0. StartOf(tok) = ix BY DEF StartOf
<1>1. PICK new : new = Append(toks, tok) OBVIOUS
<1>3. /\ Len(toks) \in Nat /\ Len(new) = Len(toks) + 1
      /\ new[Len(toks) + 1] = tok /\ \A t \in 1..Len(toks) : new[t] = toks[t]
  BY <1>1, AppendProperties DEF Good
<1>4. PICK L \in Nat : L = Len(toks) BY <1>3
<1>6. PICK B : B = Gaps(toks, ix) OBVIOUS
<1>7. LeftOut(new) = B
  <2>1. new[Len(new)] = tok /\ Len(new) - 1 = Len(toks) BY <1>3
  <2>2. StartOf(new[Len(new)])-1 = ix - 1 BY <1>0, <2>1
  <2>3. \A t \in 1..Len(toks) : new[t] = toks[t] BY <1>3
  <2> QED BY <1>6, <2>1, <2>2, <2>3 DEF LeftOut, Gaps
<1>9. Before(ix, B) /\ B \in SUBSET Nat /\ Place(ix, B, ln, cl) BY <1>6, GapsBefore DEF Good
<1>10. ln = LineAt(ix, B) /\ cl = ColAt(ix, B) BY <1>9, ColumnIs DEF Place
<1>11. Marked(new, B)
  <2> SUFFICES ASSUME NEW t \in 1..L+1
               PROVE  /\ new[t].line = LineAt(StartOf(new[t]), B)
                      /\ new[t].col = ColAt(StartOf(new[t]), B)
    BY <1>3, <1>4 DEF Marked
  <2>1. CASE t = L + 1 BY <1>0, <1>3, <1>4, <1>10, <2>1
  <2>2. CASE t # L + 1
    <3>1. t \in 1..Len(toks) /\ new[t] = toks[t] BY <1>3, <1>4, <2>2
    <3> QED BY <1>6, <3>1 DEF Good, Marked
  <2> QED BY <2>1, <2>2
<1>12. InOrder(new)
  <2> SUFFICES ASSUME NEW t \in 1..L
               PROVE  /\ IsToken(new[t].kind, StartOf(new[t]), EndOf(new[t]))
                      /\ EndOf(new[t]) < StartOf(new[t + 1])
    BY <1>3, <1>4 DEF InOrder
  <2>1. t \in 1..Len(toks) /\ new[t] = toks[t] BY <1>3, <1>4
  <2>2. IsToken(toks[t].kind, StartOf(toks[t]), EndOf(toks[t])) /\ EndOf(toks[t]) < ix
    BY <2>1 DEF Good, Lies
  <2>3. CASE t = L
    <3>1. new[t + 1] = tok BY <1>3, <1>4, <2>3
    <3> QED BY <1>0, <2>1, <2>2, <3>1
  <2>4. CASE t # L
    <3>1. t + 1 \in 1..Len(toks) /\ t \in 1..Len(toks)-1 BY <1>4, <2>1, <2>4
    <3>2. new[t + 1] = toks[t + 1] BY <1>3, <3>1
    <3> QED BY <2>1, <2>2, <3>1, <3>2 DEF Good, Lies
  <2> QED BY <2>3, <2>4
<1>13. \A k \in B : Text[k] \in Blanks BY <1>6 DEF Good
<1>14. new[Len(new)] = tok BY <1>3, <1>4
<1>15. Stops(tok) BY DEF Stops, NoTokenAt
<1> QED BY <1>1, <1>7, <1>11, <1>12, <1>13, <1>14, <1>15 DEF CutRight

-----------------------------------------------------------------------------
(* Tokens of the text.                                                     *)

From(ix) == [k \in Nat |-> Text[ix + k - 1]]

LEMMA Piece ==
  ASSUME IsText, NEW p \in Nat \ {0}, NEW e \in p..Last
  PROVE  /\ e - p + 1 \in Nat \ {0} /\ Len(SubSeq(Text, p, e)) = e - p + 1
         /\ \A k \in 1..e-p+1 : SubSeq(Text, p, e)[k] = From(p)[k]
         /\ SubSeq(Text, p, e)[1] = Text[p]
<1>1. \A k \in p..e : Text[k] \in Char BY DEF IsText, Last
<1>2. PICK s : s = SubSeq(Text, p, e) OBVIOUS
<1>3. Len(s) = e - p + 1 /\ \A k \in 1..e-p+1 : s[k] = Text[p + k - 1]
  BY <1>1, <1>2, SubSeqProperties DEF IsText
<1>4. s[1] = Text[p + 1 - 1] /\ p + 1 - 1 = p BY <1>3, <1>1 DEF IsText
<1>5. s[1] = Text[p] BY <1>4
<1> QED BY <1>2, <1>3, <1>5 DEF From, IsText

LEMMA KindsDiffer ==
  /\ \A w \in Literals : w \notin {"number", "string"}
  /\ \A k \in Punct : k \notin {"number", "string"} \union Literals
<1>1. Literals = {"true", "false", "null"} BY DEF Literals, Word
<1>2. \A w \in Literals : w \notin {"number", "string"} BY <1>1
<1>3. \A k \in Punct : k \notin {"number", "string", "true", "false", "null"}
  BY DEF Punct
<1> QED BY <1>1, <1>2, <1>3

LEMMA TokenKinds ==
  ASSUME NEW p, NEW e, NEW s, s = SubSeq(Text, p, e)
  PROVE  /\ IsToken("number", p, e) <=> IsNumber(s) /\ Text[e + 1] \in Boundary
         /\ IsToken("string", p, e) <=> IsString(s)
         /\ \A w \in Literals : IsToken(w, p, e) <=> s = Word[w] /\ Text[e + 1] \in Boundary
         /\ \A k \in Punct : IsToken(k, p, e) <=> s = <<k>>
<1>1. IsToken("number", p, e) <=> IsNumber(s) /\ Text[e + 1] \in Boundary
  BY KindsDiffer DEF IsToken
<1>2. IsToken("string", p, e) <=> IsString(s) BY KindsDiffer DEF IsToken
<1>3. ASSUME NEW w \in Literals
      PROVE  IsToken(w, p, e) <=> s = Word[w] /\ Text[e + 1] \in Boundary
  BY KindsDiffer DEF IsToken
<1>4. ASSUME NEW k \in Punct PROVE IsToken(k, p, e) <=> s = <<k>>
  BY KindsDiffer DEF IsToken
<1> QED BY <1>1, <1>2, <1>3, <1>4

LEMMA NumberToken ==
  ASSUME IsText, NEW p \in Nat \ {0}, NEW e \in p..Last-1, NEW L, L = e - p + 1
  PROVE  IsToken("number", p, e) <=>
           /\ \E a \in 1..2, m \in Nat, f \in Nat, g \in 2..3 : Parts(From(p), a, m, f, g, L)
           /\ From(p)[L + 1] \in Boundary
<1>1. PICK s : s = SubSeq(Text, p, e) OBVIOUS
<1>2. L \in Nat \ {0} /\ Len(s) = L /\ \A k \in 1..L : s[k] = From(p)[k]
  <2>1. e \in p..Last BY DEF IsText
  <2> QED BY <1>1, <2>1, Piece
<1>3. IsNumber(s) <=>
        \E a \in 1..2, m \in Nat, f \in Nat, g \in 2..3 : Parts(From(p), a, m, f, g, L)
  BY <1>2, NumberIn
<1>4. From(p)[L + 1] = Text[e + 1]
  <2>1. L + 1 \in Nat /\ p + (L + 1) - 1 = e + 1 BY DEF IsText
  <2>2. From(p)[L + 1] = Text[p + (L + 1) - 1] BY <2>1 DEF From
  <2> QED BY <2>1, <2>2
<1> QED BY <1>1, <1>3, <1>4, TokenKinds

LEMMA StringToken ==
  ASSUME IsText, NEW p \in Nat \ {0}, NEW e \in p..Last-1
  PROVE  IsToken("string", p, e) <=> StringParts(From(p), e - p + 1)
<1>1. PICK s : s = SubSeq(Text, p, e) OBVIOUS
<1>0. e \in p..Last BY DEF IsText
<1>2. PICK L \in Nat : L = e - p + 1 BY DEF IsText
<1>3. Len(s) = L /\ \A k \in 1..L : s[k] = From(p)[k] BY <1>0, <1>1, <1>2, Piece
<1>4. IsString(s) <=> StringParts(From(p), L) BY <1>3, StringIn
<1> QED BY <1>1, <1>2, <1>4, TokenKinds

LEMMA WordsAre ==
  /\ Literals = {"true", "false", "null"}
  /\ Word["true"] = <<"t", "r", "u", "e">> /\ Word["false"] = <<"f", "a", "l", "s", "e">>
  /\ Word["null"] = <<"n", "u", "l", "l">>
BY DEF Literals, Word

LEMMA FirstLetters ==
  /\ Word["true"][1] = "t" /\ Word["false"][1] = "f" /\ Word["null"][1] = "n"
  /\ \A w \in Literals : Word[w][1] \in {"t", "f", "n"}
  /\ \A w, x \in Literals : Word[w][1] = Word[x][1] => w = x
BY WordsAre

LEMMA FirstChar ==
  ASSUME IsText, NEW p \in Nat \ {0}, NEW e \in p..Last-1, NEW k \in Kinds, IsToken(k, p, e)
  PROVE  \/ k = "number" /\ Text[p] \in Digit \union {"-"}
         \/ k = "string" /\ Text[p] = DQ
         \/ k \in Literals /\ Text[p] = Word[k][1]
         \/ k \in Punct /\ Text[p] = k
<1>0. e \in p..Last BY DEF IsText
<1>1. PICK s : s = SubSeq(Text, p, e) OBVIOUS
<1>2. s[1] = Text[p] BY <1>0, <1>1, Piece
<1>3. From(p)[1] = Text[p]
  <2>1. p + 1 - 1 = p OBVIOUS
  <2> QED BY <2>1 DEF From
<1>4. CASE k = "number"
  <2>1. PICK L : L = e - p + 1 OBVIOUS
  <2>2. PICK a \in 1..2, m \in Nat, f \in Nat, g \in 2..3 : Parts(From(p), a, m, f, g, L)
    BY <1>4, <2>1, NumberToken
  <2>3. a = 1 \/ From(p)[1] = "-" BY <2>2 DEF Parts, Mantissa, IntPart
  <2>4. From(p)[a] \in Digit BY <2>2 DEF Parts, Mantissa, IntPart, Digs
  <2> QED BY <1>3, <1>4, <2>3, <2>4
<1>5. CASE k = "string" BY <1>3, <1>5, StringToken DEF StringParts
<1>6. CASE k \in Literals
  <2>1. s = Word[k] BY <1>1, <1>6, TokenKinds
  <2> QED BY <1>2, <1>6, <2>1
<1>7. CASE k \in Punct
  <2>1. s = <<k>> BY <1>1, <1>7, TokenKinds
  <2>2. s[1] = k BY <2>1
  <2> QED BY <1>2, <1>7, <2>2
<1> QED BY <1>4, <1>5, <1>6, <1>7 DEF Kinds

LEMMA FirstsDiffer ==
  /\ DQ \notin Digit \union {"-"} /\ DQ \notin Punct /\ DQ \notin {"t", "f", "n"}
  /\ \A x \in Digit \union {"-"} : x \notin Punct /\ x \notin {"t", "f", "n"}
  /\ \A x \in Punct : x \notin {"t", "f", "n"}
BY DEF DQ, Digit, Punct

LEMMA Here ==
  ASSUME IInv, WholeFile, reading = "ok"
  PROVE  /\ IsText /\ i \in 1..Last /\ index \in Nat \ {0} /\ index <= i
         /\ \A k \in 1..Last : storage[k] = Text[k]
<1>1. file \in Seq(Char) BY DEF IInv, ReadInv, ReadType
<1>2. /\ IsText /\ Last <= Len(file) + 1
      /\ \A k \in 1..Last : Text[k] = Append(file, NUL)[k]
  BY <1>1, TextIs
<1>3. storage = Append(file, NUL) BY DEF WholeFile
<1>4. \A k \in 1..Last : storage[k] = Text[k] BY <1>2, <1>3
<1>5. storage[Last] = NUL BY <1>2, <1>4 DEF IsText
<1>6. i \in Nat \ {0} /\ index \in Nat \ {0} /\ \A k \in 1..i-1 : storage[k] # NUL
  BY DEF IInv, LexType, InBuffer
<1>7. i <= Last BY <1>2, <1>5, <1>6 DEF IsText
<1>8. index <= i BY <1>6 DEF IInv, InStep
<1> QED BY <1>2, <1>4, <1>6, <1>7, <1>8 DEF IsText

(* What is known while a number or a string is being scanned: what has been*)
(* read of it, and that every token that begins at ix goes on like this.   *)
NumberAhead(ix, q, j) ==
  \A a \in 1..2, m \in Nat, f \in Nat, g \in 2..3, L \in Nat :
    Parts(From(ix), a, m, f, g, L) /\ From(ix)[L + 1] \in Boundary
      => NumberAt(q, From(ix), a, m, f, g, L, j)
StringAhead(ix, j) ==
  \A L \in Nat : StringParts(From(ix), L) /\ ix + L <= Last => j <= L

InNumberInv(ix, q, j) ==
  NumberRead(q, From(ix), j) /\ NumberAhead(ix, q, j) /\ Text[ix] \in Digit \union {"-"}
InStringInv(ix, q, j) ==
  StringRead(q, From(ix), j) /\ StringAhead(ix, j) /\ Text[ix] = DQ
ScanInv(ix, q, j) ==
  /\ q \in InNumber => InNumberInv(ix, q, j)
  /\ q \in InString => InStringInv(ix, q, j)

LEMMA PlacesDiffer ==
  /\ \A q \in InNumber : q \notin InString
  /\ "blank" \notin Scanning /\ "done" \notin Scanning /\ "invalid" \notin Scanning
  /\ "number" \notin Scanning /\ "string" \notin Scanning
  /\ "sign" \in InNumber /\ "text" \in InString
BY DEF InNumber, InString, Scanning

LEMMA FromAt ==
  ASSUME NEW ix \in Nat \ {0}, NEW k \in Nat \ {0}
  PROVE  From(ix)[k - ix + 1] = Text[k] \/ k < ix
<1>1. CASE k >= ix
  <2>1. k - ix + 1 \in Nat /\ ix + (k - ix + 1) - 1 = k BY <1>1
  <2>2. From(ix)[k - ix + 1] = Text[ix + (k - ix + 1) - 1] BY <2>1 DEF From
  <2> QED BY <2>1, <2>2
<1> QED BY <1>1

LEMMA FromFirst == ASSUME NEW ix \in Nat \ {0} PROVE From(ix)[1] = Text[ix]
<1>1. 1 \in Nat /\ ix + 1 - 1 = ix OBVIOUS
<1> QED BY <1>1 DEF From

LEMMA BeginNumber ==
  ASSUME NEW ix \in Nat \ {0}, Text[ix] \in Digit \union {"-"}
  PROVE  ScanInv(ix, "sign", 1)
<1>1. NumberRead("sign", From(ix), 1) BY DEF NumberRead
<1>2. ASSUME NEW a \in 1..2, NEW m \in Nat, NEW f \in Nat, NEW g \in 2..3, NEW L \in Nat,
             Parts(From(ix), a, m, f, g, L)
      PROVE  NumberAt("sign", From(ix), a, m, f, g, L, 1)
  <2>1. a <= m /\ m <= f /\ f <= L BY <1>2, NumberSizes
  <2> QED BY <2>1 DEF NumberAt
<1> QED BY <1>1, <1>2, PlacesDiffer DEF ScanInv, InNumberInv, NumberAhead

LEMMA BeginString ==
  ASSUME NEW ix \in Nat \ {0}, Text[ix] = DQ
  PROVE  ScanInv(ix, "text", 2)
<1>1. StringRead("text", From(ix), 2) BY StringBegins, FromFirst
<1>2. StringAhead(ix, 2) BY DEF StringAhead, StringParts
<1> QED BY <1>1, <1>2, PlacesDiffer DEF ScanInv, InStringInv

(* The character looked at. *)
Looking(r, j) == j \in Nat \ {0} /\ c = r[j]

LEMMA StringFull ==
  ASSUME IsText, NEW ix \in Nat \ {0}, NEW L \in Nat, ix + L <= Last
  PROVE  \A k \in 1..L : From(ix)[k] # NUL
<1> SUFFICES ASSUME NEW k \in 1..L PROVE From(ix)[k] # NUL
  OBVIOUS
<1>1. k \in Nat /\ ix + k - 1 \in 1..Last-1 BY DEF IsText
<1>2. From(ix)[k] = Text[ix + k - 1] BY <1>1 DEF From
<1> QED BY <1>1, <1>2 DEF IsText

LEMMA ScanOn ==
  ASSUME IsText, NEW ix \in Nat \ {0}, NEW j, Looking(From(ix), j),
         st \in Scanning, ScanInv(ix, st, j), NEW q \in Scanning, q = Move
  PROVE  ScanInv(ix, q, j + 1)
<1>0. j \in Nat \ {0} /\ c = From(ix)[j] BY DEF Looking
<1>1. CASE st \in InNumber
  <2>1. q = NumberMove BY <1>1 DEF Move
  <2>2. q \in InNumber
    BY <1>1, <2>1 DEF NumberMove, Scanning, InNumber, InString
  <2>3. /\ NumberRead(st, From(ix), j) /\ NumberAhead(ix, st, j)
        /\ Text[ix] \in Digit \union {"-"}
    BY <1>1 DEF ScanInv, InNumberInv
  <2>4. NumberRead(q, From(ix), j + 1) BY <1>0, <1>1, <2>1, <2>2, <2>3, NumberReadOn
  <2>5. ASSUME NEW a \in 1..2, NEW m \in Nat, NEW f \in Nat, NEW g \in 2..3, NEW L \in Nat,
               Parts(From(ix), a, m, f, g, L), From(ix)[L + 1] \in Boundary
        PROVE  NumberAt(q, From(ix), a, m, f, g, L, j + 1)
    <3>1. NumberAt(st, From(ix), a, m, f, g, L, j) BY <2>3, <2>5 DEF NumberAhead
    <3>2. q # "number" BY PlacesDiffer
    <3> QED BY <1>0, <1>1, <2>1, <2>5, <3>1, <3>2, NumberLasts
  <2>6. NumberAhead(ix, q, j + 1) BY <2>5 DEF NumberAhead
  <2> QED BY <2>2, <2>3, <2>4, <2>6, PlacesDiffer DEF ScanInv, InNumberInv
<1>2. CASE st \in InString
  <2>1. q = StringMove BY <1>2, PlacesDiffer DEF Move
  <2>2. q \in InString
    BY <1>2, <2>1 DEF StringMove, Scanning, InNumber, InString
  <2>3. StringRead(st, From(ix), j) /\ StringAhead(ix, j) /\ Text[ix] = DQ
    BY <1>2 DEF ScanInv, InStringInv
  <2>4. StringRead(q, From(ix), j + 1) BY <1>0, <1>2, <2>1, <2>2, <2>3, StringReadOn
  <2>5. ASSUME NEW L \in Nat, StringParts(From(ix), L), ix + L <= Last
        PROVE  j + 1 <= L
    <3>1. j <= L BY <2>3, <2>5 DEF StringAhead
    <3>2. q # "string" BY PlacesDiffer
    <3>3. \A k \in 1..L : From(ix)[k] # NUL BY <2>5, StringFull
    <3> QED BY <1>0, <1>2, <2>1, <2>3, <2>5, <3>1, <3>2, <3>3, StringLasts
  <2>6. StringAhead(ix, j + 1) BY <2>5 DEF StringAhead
  <2> QED BY <2>2, <2>3, <2>4, <2>6, PlacesDiffer DEF ScanInv, InStringInv
<1> QED BY <1>1, <1>2 DEF Scanning

LEMMA ScanFails ==
  ASSUME IsText, NEW ix \in Nat \ {0}, NEW j, Looking(From(ix), j),
         st \in Scanning, ScanInv(ix, st, j), Move = "invalid"
  PROVE  NoTokenAt(ix)
<1>0. j \in Nat \ {0} /\ c = From(ix)[j] BY DEF Looking
<1>1. CASE st \in InNumber
  <2>1. NumberMove = "invalid" BY <1>1 DEF Move
  <2>2. NumberAhead(ix, st, j) /\ Text[ix] \in Digit \union {"-"}
    BY <1>1 DEF ScanInv, InNumberInv
  <2>3. ASSUME NEW e \in ix..Len(Text)-1, NEW k \in Kinds, IsToken(k, ix, e) PROVE FALSE
    <3>0. e \in ix..Last-1 BY DEF Last
    <3>1. k = "number" BY <2>2, <2>3, <3>0, FirstChar, FirstsDiffer, FirstLetters
    <3>2. PICK L \in Nat : L = e - ix + 1 BY <3>0 DEF IsText
    <3>3. PICK a \in 1..2, m \in Nat, f \in Nat, g \in 2..3 : Parts(From(ix), a, m, f, g, L)
      BY <2>3, <3>0, <3>1, <3>2, NumberToken
    <3>4. From(ix)[L + 1] \in Boundary BY <2>3, <3>0, <3>1, <3>2, NumberToken
    <3>5. NumberAt(st, From(ix), a, m, f, g, L, j) BY <2>2, <3>3, <3>4 DEF NumberAhead
    <3>6. NumberMove \in InNumber \/ NumberMove = "number"
      BY <1>0, <1>1, <3>3, <3>4, <3>5, NumberLasts
    <3> QED BY <2>1, <3>6, PlacesDiffer DEF Scanning
  <2>4. Text[ix] \notin Blanks \union {NUL}
    BY <2>2 DEF Digit, Blanks, NUL, LF, CR, TAB
  <2> QED BY <2>3, <2>4 DEF NoTokenAt
<1>2. CASE st \in InString
  <2>1. StringMove = "invalid" BY <1>2, PlacesDiffer DEF Move
  <2>2. StringRead(st, From(ix), j) /\ StringAhead(ix, j) /\ Text[ix] = DQ
    BY <1>2 DEF ScanInv, InStringInv
  <2>3. ASSUME NEW e \in ix..Len(Text)-1, NEW k \in Kinds, IsToken(k, ix, e) PROVE FALSE
    <3>0. e \in ix..Last-1 BY DEF Last
    <3>1. k = "string" BY <2>2, <2>3, <3>0, FirstChar, FirstsDiffer, FirstLetters
    <3>2. PICK L \in Nat : L = e - ix + 1 BY <3>0 DEF IsText
    <3>3. StringParts(From(ix), L) BY <2>3, <3>0, <3>1, <3>2, StringToken
    <3>4. ix + L <= Last BY <3>0, <3>2 DEF IsText
    <3>5. j <= L BY <2>2, <3>3, <3>4 DEF StringAhead
    <3>6. \A d \in 1..L : From(ix)[d] # NUL BY <3>4, StringFull
    <3>7. StringMove \in InString \/ StringMove = "string"
      BY <1>0, <1>2, <2>2, <3>3, <3>5, <3>6, StringLasts
    <3> QED BY <2>1, <3>7, PlacesDiffer DEF Scanning
  <2>4. Text[ix] \notin Blanks \union {NUL}
    BY <2>2 DEF DQ, Blanks, NUL, LF, CR, TAB
  <2> QED BY <2>3, <2>4 DEF NoTokenAt
<1> QED BY <1>1, <1>2 DEF Scanning

-----------------------------------------------------------------------------
(* The text does not change.                                               *)

LEMMA TextStays == UNCHANGED file => Text' = Text
BY DEF Text

LEMMA GoodStays ==
  ASSUME UNCHANGED file, Good(tokens', index', line', col')
  PROVE  Good(tokens, index, line, col)'
<1>1. (tokens \in Seq(Token))' BY DEF Good
<1>2. Lies(tokens, index)' BY TextStays DEF Good, Lies, IsToken
<1>3. Marked(tokens, Gaps(tokens, index))' BY TextStays DEF Good, Marked, Gaps, LineAt, ColAt
<1>4. (\A k \in Gaps(tokens, index) : Text[k] \in Blanks)' BY TextStays DEF Good, Gaps
<1>5. Place(index, Gaps(tokens, index), line, col)'
  <2>1. (line = LineAt(index, Gaps(tokens, index)))'
    BY TextStays DEF Good, Place, Gaps, LineAt
  <2>2. Column(index, Gaps(tokens, index), col)'
    BY TextStays DEF Good, Place, Gaps, Column, LineEnds, Tabs
  <2>3. NoSplit(index, Gaps(tokens, index))' BY TextStays DEF Good, Place, Gaps, NoSplit
  <2> QED BY <2>1, <2>2, <2>3 DEF Place
<1> QED BY <1>1, <1>2, <1>3, <1>4, <1>5 DEF Good

LEMMA ScanStays ==
  ASSUME UNCHANGED file, ScanInv(index', st', i' - index' + 1)
  PROVE  ScanInv(index, st, i - index + 1)'
BY TextStays DEF ScanInv, InNumberInv, InStringInv, NumberAhead, StringAhead, From, Last

LEMMA CutStays ==
  ASSUME UNCHANGED file, CutRight(tokens')
  PROVE  CutRight(tokens)'
<1>1. InOrder(tokens)' BY TextStays DEF CutRight, InOrder, IsToken
<1>2. Marked(tokens, LeftOut(tokens))' BY TextStays DEF CutRight, Marked, LeftOut, LineAt, ColAt
<1>3. (\A k \in LeftOut(tokens) : Text[k] \in Blanks)' BY TextStays DEF CutRight, LeftOut
<1>4. Stops(tokens[Len(tokens)])' BY TextStays DEF CutRight, Stops, IsToken
<1> QED BY <1>1, <1>2, <1>3, <1>4 DEF CutRight

-----------------------------------------------------------------------------
(* The steps of the lexer.                                                 *)

TokInv ==
  /\ WholeFile
  /\ reading # "ok" => tokens = <<>> /\ line = 1 /\ col = 1 /\ st = "blank"
  /\ reading = "ok" /\ st # "done" =>
       Good(tokens, index, line, col) /\ ScanInv(index, st, i - index + 1)
  /\ st = "done" => CutRight(tokens)

LEMMA StepFrom ==
  ASSUME TokInv, UNCHANGED fileVars, reading = "ok",
         st' # "done" => /\ Good(tokens', index', line', col')
                         /\ ScanInv(index', st', i' - index' + 1),
         st' = "done" => CutRight(tokens')
  PROVE  TokInv'
<1>1. UNCHANGED <<file, at, storage, reading>> BY DEF fileVars
<1>2. WholeFile' BY <1>1 DEF TokInv, WholeFile
<1> QED BY <1>1, <1>2, GoodStays, ScanStays, CutStays DEF TokInv

LEMMA NoScan ==
  ASSUME NEW ix, NEW q, NEW j, q \notin Scanning
  PROVE  ScanInv(ix, q, j)
BY DEF ScanInv, Scanning

LEMMA LookingAt ==
  ASSUME IInv, WholeFile, reading = "ok"
  PROVE  /\ c = Text[i] /\ Looking(From(index), i - index + 1)
         /\ c # NUL => i + 1 \in 1..Last /\ storage[i + 1] = Text[i + 1]
<1>1. /\ IsText /\ i \in 1..Last /\ index \in Nat \ {0} /\ index <= i
      /\ \A k \in 1..Last : storage[k] = Text[k]
  BY Here
<1>2. c = Text[i] BY <1>1 DEF c
<1>3. i \in Nat \ {0} BY <1>1 DEF IsText
<1>4. From(index)[i - index + 1] = Text[i] BY <1>1, <1>3, FromAt
<1>5. c # NUL => i + 1 \in 1..Last BY <1>1, <1>2 DEF IsText
<1> QED BY <1>1, <1>2, <1>3, <1>4, <1>5 DEF Looking

LEMMA SkipRight ==
  ASSUME IInv, TokInv, UNCHANGED fileVars, Skip
  PROVE  TokInv'
<1>1. /\ reading = "ok" /\ index = i /\ i \in Nat \ {0} /\ st = "blank" /\ st' = "blank"
      /\ c \in Blanks /\ tokens' = tokens /\ index' = index + Skipped
  BY CallingIs DEF Skip
<1>2. Good(tokens, i, line, col) BY <1>1 DEF TokInv
<1>3. WholeFile BY DEF TokInv
<1>4. c = Text[i] /\ c # NUL BY <1>1, <1>3, LookingAt, NotNul
<1>5. storage[i + 1] = Text[i + 1] BY <1>1, <1>3, <1>4, LookingAt
<1>6. PICK B : B = Gaps(tokens, i) OBVIOUS
<1>7. Before(i, B) /\ Place(i, B, line, col) BY <1>1, <1>2, <1>6, GapsBefore DEF Good
<1>8. LF \in Blanks /\ LF # TAB /\ CR # TAB /\ LF # " " /\ CR # " " /\ LF # CR /\ TAB # " "
  BY DEF Blanks, LF, CR, TAB
<1>9. Good(tokens, index', line', col')
  <2>1. CASE c \in {LF, CR} /\ Skipped = 1
    <3>1. line' = line + 1 /\ col' = 1 BY <1>8, <2>1 DEF Skip
    <3>2. c = CR => storage[i + 1] # LF BY <2>1 DEF Skipped
    <3>3. Place(i + 1, B \union {i}, line + 1, 1)
      BY <1>1, <1>4, <1>5, <1>7, <2>1, <3>2, PlaceLine
    <3>4. i..i+1-1 = {i} BY <1>1
    <3>5. \A k \in i..i+1-1 : Text[k] \in Blanks BY <1>1, <1>4, <3>4
    <3>6. Good(tokens, i + 1, line + 1, 1)
      BY <1>1, <1>2, <1>6, <3>3, <3>4, <3>5, GoodSkip
    <3> QED BY <1>1, <2>1, <3>1, <3>6
  <2>2. CASE Skipped # 1
    <3>1. Skipped = 2 /\ c = CR /\ storage[i + 1] = LF BY <2>2 DEF Skipped
    <3>2. line' = line + 1 /\ col' = 1 BY <1>8, <3>1 DEF Skip
    <3>3. Place(i + 2, B \union {i, i + 1}, line + 1, 1)
      BY <1>1, <1>4, <1>5, <1>7, <3>1, PlaceTwo
    <3>4. i..i+2-1 = {i, i + 1} BY <1>1
    <3>5. \A k \in i..i+2-1 : Text[k] \in Blanks BY <1>1, <1>4, <1>5, <1>8, <3>1, <3>4
    <3>6. Good(tokens, i + 2, line + 1, 1)
      BY <1>1, <1>2, <1>6, <3>3, <3>4, <3>5, GoodSkip
    <3> QED BY <1>1, <3>1, <3>2, <3>6
  <2>3. CASE c \in {TAB, " "}
    <3>1. /\ Skipped = 1 /\ line' = line
          /\ col' = IF c = TAB THEN col + 4 ELSE col + 1
      BY <1>8, <2>3 DEF Skip, Skipped
    <3>2. Text[i] \notin {LF, CR} BY <1>4, <1>8, <2>3
    <3>3. Place(i + 1, B \union {i}, line, IF Text[i] = TAB THEN col + 4 ELSE col + 1)
      BY <1>1, <1>7, <3>2, PlaceBlank
    <3>4. i..i+1-1 = {i} BY <1>1
    <3>5. \A k \in i..i+1-1 : Text[k] \in Blanks BY <1>1, <1>4, <3>4
    <3>6. Good(tokens, i + 1, line, IF Text[i] = TAB THEN col + 4 ELSE col + 1)
      BY <1>1, <1>2, <1>6, <3>3, <3>4, <3>5, GoodSkip
    <3> QED BY <1>1, <1>4, <3>1, <3>6
  <2> QED BY <1>1, <2>1, <2>2, <2>3 DEF Blanks
<1>10. ScanInv(index', st', i' - index' + 1) BY <1>1, NoScan, PlacesDiffer
<1>11. st' # "done" BY <1>1
<1> QED BY <1>1, <1>9, <1>10, <1>11, StepFrom

LEMMA EnterRight ==
  ASSUME IInv, TokInv, UNCHANGED fileVars, Enter
  PROVE  TokInv'
<1>1. /\ reading = "ok" /\ index = i /\ i \in Nat \ {0} /\ st = "blank"
      /\ UNCHANGED <<index, line, col, tokens>>
  BY CallingIs DEF Enter
<1>2. WholeFile /\ Good(tokens, index, line, col) BY <1>1 DEF TokInv
<1>3. c = Text[index] BY <1>1, <1>2, LookingAt
<1>4. ScanInv(index', st', i' - index' + 1) /\ st' # "done"
  <2>1. CASE c \in Digit \union {"-"} /\ st' = "sign" /\ UNCHANGED i
    <3>1. i' - index' + 1 = 1 BY <1>1, <2>1
    <3>2. ScanInv(index, "sign", 1) BY <1>1, <1>3, <2>1, BeginNumber
    <3> QED BY <1>1, <2>1, <3>1, <3>2
  <2>2. CASE c = DQ /\ st' = "text" /\ i' = i + 1
    <3>1. i' - index' + 1 = 2 BY <1>1, <2>2
    <3>2. ScanInv(index, "text", 2) BY <1>1, <1>3, <2>2, BeginString
    <3> QED BY <1>1, <2>2, <3>1, <3>2
  <2> QED BY <2>1, <2>2 DEF Enter
<1>5. Good(tokens', index', line', col') BY <1>1, <1>2
<1> QED BY <1>1, <1>4, <1>5, StepFrom

LEMMA ScanStepRight ==
  ASSUME IInv, TokInv, UNCHANGED fileVars, Scan
  PROVE  TokInv'
<1>1. /\ st \in Scanning /\ st' \in Scanning /\ st' = Move /\ i' = i + 1
      /\ UNCHANGED <<index, line, col, tokens>>
  BY DEF Scan
<1>2. reading = "ok" BY <1>1 DEF IInv, InStep
<1>3. st # "done" /\ st' # "done" BY <1>1, PlacesDiffer
<1>4. WholeFile /\ Good(tokens, index, line, col) /\ ScanInv(index, st, i - index + 1)
  BY <1>2, <1>3 DEF TokInv
<1>5. /\ IsText /\ Looking(From(index), i - index + 1) /\ index \in Nat \ {0} /\ i \in Nat
  BY <1>2, <1>4, Here, LookingAt DEF IsText
<1>6. ScanInv(index, Move, i - index + 1 + 1) BY <1>1, <1>4, <1>5, ScanOn
<1>7. i' - index' + 1 = i - index + 1 + 1 BY <1>1, <1>5
<1>8. ScanInv(index', st', i' - index' + 1) BY <1>1, <1>6, <1>7
<1>9. Good(tokens', index', line', col') BY <1>1, <1>4
<1> QED BY <1>2, <1>3, <1>8, <1>9, StepFrom

LEMMA PlaceType ==
  ASSUME NEW p \in Nat \ {0}, NEW B, Before(p, B), NEW ln, NEW cl, Place(p, B, ln, cl)
  PROVE  ln \in Nat /\ cl \in Nat
<1>1. IsFiniteSet(B) /\ \A k \in B : k \in Nat /\ k < p BY BeforeIs
<1>2. ln \in Nat
  <2>1. PICK x \in Nat : x = Cardinality(LineBreaks(p, B)) BY <1>1, FiniteParts
  <2>2. ln = 1 + x BY <2>1, LineAtIs DEF Place
  <2> QED BY <2>2
<1>3. cl \in Nat
  <2>1. PICK s \in {0} \union LineEnds(p, B) :
          cl = p - s + 3 * Cardinality(Tabs(s, p, B))
    BY DEF Place, Column
  <2>2. PICK x \in Nat : x = Cardinality(Tabs(s, p, B)) BY <1>1, FiniteParts
  <2>3. s \in Nat /\ s <= p BY <1>1 DEF LineEnds
  <2> QED BY <2>1, <2>2, <2>3
<1> QED BY <1>2, <1>3

LEMMA ReturnRight ==
  ASSUME IInv, TokInv, UNCHANGED fileVars, reading = "ok", st # "done", st' = "blank",
         NEW kind \in Kinds, NEW from \in Nat, NEW length \in Nat, NEW n \in Nat \ {0},
         Return(kind, from, length, n), IsToken(kind, index, index + n - 1),
         IF kind = "string" THEN from = index + 1 /\ length = n - 2
                            ELSE from = index /\ length = n
  PROVE  TokInv'
<1> DEFINE tok == [kind |-> kind, from |-> from, length |-> length,
                   line |-> line, col |-> col]
<1>1. /\ tokens' = Append(tokens, tok) /\ index' = index + n /\ i' = index'
      /\ col' = col + n /\ line' = line
  BY DEF Return
<1>2. Good(tokens, index, line, col) /\ index \in Nat \ {0} BY DEF TokInv, IInv, LexType
<1>3. line \in Nat /\ col \in Nat
  <2>1. PICK B : B = Gaps(tokens, index) OBVIOUS
  <2>2. Before(index, B) /\ Place(index, B, line, col) BY <1>2, <2>1, GapsBefore DEF Good
  <2> QED BY <1>2, <2>2, PlaceType
<1>4. /\ tok \in Token /\ tok.kind = kind /\ tok.line = line /\ tok.col = col
      /\ tok.from = from /\ tok.length = length
  BY <1>3 DEF Token
<1> HIDE DEF tok
<1>5. StartOf(tok) = index /\ EndOf(tok) = index + n - 1
  BY <1>2, <1>4 DEF StartOf, EndOf
<1>6. Good(Append(tokens, tok), index + n, line, col + n)
  BY <1>2, <1>4, <1>5, GoodToken
<1>7. ScanInv(index', st', i' - index' + 1) BY NoScan, PlacesDiffer
<1> QED BY <1>1, <1>6, <1>7, StepFrom

LEMMA StopRight ==
  ASSUME IInv, TokInv, UNCHANGED fileVars, reading = "ok", st # "done", st' = "done",
         NEW kind, NEW length \in Nat, NEW n \in Nat, Return(kind, index, length, n),
         \/ kind = "eof" /\ index = Len(Text)
         \/ kind = "error" /\ NoTokenAt(index)
  PROVE  TokInv'
<1> DEFINE tok == [kind |-> kind, from |-> index, length |-> length,
                   line |-> line, col |-> col]
<1>1. tokens' = Append(tokens, tok) BY DEF Return
<1>2. Good(tokens, index, line, col) /\ index \in Nat \ {0} BY DEF TokInv, IInv, LexType
<1>3. line \in Nat /\ col \in Nat
  <2>1. PICK B : B = Gaps(tokens, index) OBVIOUS
  <2>2. Before(index, B) /\ Place(index, B, line, col) BY <1>2, <2>1, GapsBefore DEF Good
  <2> QED BY <1>2, <2>2, PlaceType
<1>4. /\ tok \in Token /\ tok.kind = kind /\ tok.line = line /\ tok.col = col
      /\ tok.from = index
  BY <1>2, <1>3 DEF Token
<1> HIDE DEF tok
<1>5. CutRight(Append(tokens, tok)) BY <1>2, <1>4, GoodDone
<1> QED BY <1>1, <1>5, StepFrom

LEMMA KindsAre == {"number", "string"} \union Literals \union Punct = Kinds
BY DEF Kinds

LEMMA Scanned ==
  ASSUME IInv, TokInv, st \in Scanning
  PROVE  /\ reading = "ok" /\ st # "done" /\ WholeFile /\ IsText
         /\ index \in Nat \ {0} /\ i \in 1..Last /\ index <= i /\ c = Text[i]
         /\ Looking(From(index), i - index + 1) /\ ScanInv(index, st, i - index + 1)
<1>1. reading = "ok" /\ st # "done" BY PlacesDiffer DEF IInv, InStep
<1>2. WholeFile /\ ScanInv(index, st, i - index + 1) BY <1>1 DEF TokInv
<1> QED BY <1>1, <1>2, Here, LookingAt

LEMMA NumberRight ==
  ASSUME IInv, TokInv, UNCHANGED fileVars, Number
  PROVE  TokInv'
<1>1. /\ st \in InNumber /\ Move = "number" /\ st' = "blank"
      /\ Return("number", index, i - index, i - index)
  BY DEF Number
<1>2. /\ reading = "ok" /\ st # "done" /\ WholeFile /\ IsText
      /\ index \in Nat \ {0} /\ i \in 1..Last /\ index <= i /\ c = Text[i]
      /\ Looking(From(index), i - index + 1) /\ ScanInv(index, st, i - index + 1)
  BY <1>1, Scanned DEF Scanning
<1>3. PICK j : j = i - index + 1 OBVIOUS
<1>4. j \in Nat \ {0} /\ c = From(index)[j] BY <1>2, <1>3 DEF Looking
<1>5. NumberMove = "number" /\ NumberRead(st, From(index), j)
  BY <1>1, <1>2, <1>3 DEF Move, ScanInv, InNumberInv
<1>6. /\ j - 1 \in Nat \ {0} /\ From(index)[j] \in Boundary
      /\ \E a \in 1..2, m \in Nat, f \in Nat, g \in 2..3 : Parts(From(index), a, m, f, g, j - 1)
  BY <1>1, <1>4, <1>5, NumberEnds
<1>7. PICK e : e = i - 1 OBVIOUS
<1>8. PICK n \in Nat \ {0} : n = i - index /\ n = j - 1 /\ n + 1 = j /\ e = index + n - 1
                             /\ n = e - index + 1
  BY <1>2, <1>3, <1>6, <1>7 DEF IsText
<1>9. e \in index..Last-1 BY <1>2, <1>7, <1>8 DEF IsText
<1>10. IsToken("number", index, e) BY <1>2, <1>6, <1>8, <1>9, NumberToken
<1>11. IsToken("number", index, index + n - 1) BY <1>8, <1>10
<1>12. "number" \in Kinds /\ "number" # "string" BY DEF Kinds
<1>13. Return("number", index, n, n) BY <1>1, <1>8
<1>14. index \in Nat /\ n \in Nat BY <1>2
<1> QED BY <1>1, <1>2, <1>11, <1>12, <1>13, <1>14, ReturnRight

LEMMA StringRight ==
  ASSUME IInv, TokInv, UNCHANGED fileVars, String
  PROVE  TokInv'
<1>1. /\ st \in InString /\ Move = "string" /\ st' = "blank"
      /\ Return("string", index + 1, i - index - 1, i - index + 1)
  BY DEF String
<1>2. /\ reading = "ok" /\ st # "done" /\ WholeFile /\ IsText
      /\ index \in Nat \ {0} /\ i \in 1..Last /\ index <= i /\ c = Text[i]
      /\ Looking(From(index), i - index + 1) /\ ScanInv(index, st, i - index + 1)
  BY <1>1, Scanned DEF Scanning
<1>3. PICK j : j = i - index + 1 OBVIOUS
<1>4. j \in Nat \ {0} /\ c = From(index)[j] BY <1>2, <1>3 DEF Looking
<1>5. StringMove = "string" /\ StringRead(st, From(index), j)
  BY <1>1, <1>2, <1>3, PlacesDiffer DEF Move, ScanInv, InStringInv
<1>6. j >= 2 /\ StringParts(From(index), j) BY <1>1, <1>4, <1>5, StringEnds
<1>7. c = DQ BY <1>1, MoveOn DEF Scanning
<1>8. i # Last BY <1>2, <1>7, CharsDiffer DEF IsText
<1>9. i \in index..Last-1 /\ j = i - index + 1 BY <1>2, <1>3, <1>8 DEF IsText
<1>10. IsToken("string", index, i) BY <1>2, <1>6, <1>9, StringToken
<1>11. index + j - 1 = i BY <1>2, <1>3 DEF IsText
<1>12. IsToken("string", index, index + j - 1) BY <1>10, <1>11
<1>13. "string" \in Kinds BY DEF Kinds
<1>14. PICK length \in Nat : length = i - index - 1 /\ length = j - 2
  BY <1>2, <1>3, <1>6 DEF IsText
<1>15. Return("string", index + 1, length, j) BY <1>1, <1>3, <1>14
<1>16. index + 1 \in Nat BY <1>2
<1> QED BY <1>1, <1>2, <1>4, <1>12, <1>13, <1>14, <1>15, <1>16, ReturnRight

LEMMA InvalidRight ==
  ASSUME IInv, TokInv, UNCHANGED fileVars, Invalid
  PROVE  TokInv'
<1>1. /\ st \in Scanning /\ Move = "invalid" /\ st' = "done" /\ Return("error", index, 1, 1)
  BY DEF Invalid, Error
<1>2. /\ reading = "ok" /\ st # "done" /\ IsText /\ index \in Nat \ {0}
      /\ Looking(From(index), i - index + 1) /\ ScanInv(index, st, i - index + 1)
  BY <1>1, Scanned
<1>3. NoTokenAt(index) BY <1>1, <1>2, ScanFails
<1> QED BY <1>1, <1>2, <1>3, StopRight

LEMMA CallingHere ==
  ASSUME IInv, TokInv, Calling
  PROVE  /\ reading = "ok" /\ st # "done" /\ st = "blank" /\ WholeFile /\ IsText
         /\ index \in Nat \ {0} /\ index \in 1..Last /\ c = Text[index]
         /\ \A k \in 1..Last : storage[k] = Text[k]
<1>1. reading = "ok" /\ index = i /\ st = "blank" BY CallingIs
<1>2. WholeFile BY DEF TokInv
<1> QED BY <1>1, <1>2, Here, LookingAt

LEMMA PunctuationRight ==
  ASSUME IInv, TokInv, UNCHANGED fileVars, Punctuation
  PROVE  TokInv'
<1>1. Calling /\ c \in Punct /\ Return(c, index, 1, 1) /\ st' = st BY DEF Punctuation
<1>2. /\ reading = "ok" /\ st # "done" /\ st = "blank" /\ IsText
      /\ index \in Nat \ {0} /\ index \in 1..Last /\ c = Text[index]
  BY <1>1, CallingHere
<1>3. PICK s : s = SubSeq(Text, index, index) OBVIOUS
<1>4. s = <<c>>
  <2>1. Text \in Seq(Char) /\ index \in 1..Len(Text) BY <1>2 DEF IsText, Last
  <2>2. Text[index] \in Char BY <2>1
  <2>3. s \in Seq(Char) /\ Len(s) = 1 /\ s[1] = Text[index]
    BY <1>3, <2>1, <2>2, SubSeqProperties
  <2> QED BY <1>2, <2>3
<1>5. IsToken(c, index, index) BY <1>1, <1>3, <1>4, TokenKinds
<1>6. index + 1 - 1 = index /\ index \in Nat BY <1>2
<1>7. c \in Kinds /\ c # "string" BY <1>1, KindsDiffer DEF Kinds
<1>8. IsToken(c, index, index + 1 - 1) BY <1>5, <1>6
<1>9. st' = "blank" /\ 1 \in Nat \ {0} /\ 1 \in Nat BY <1>1, <1>2
<1>10. PICK kind \in Kinds : kind = c BY <1>7
<1> QED BY <1>1, <1>2, <1>6, <1>7, <1>8, <1>9, <1>10, ReturnRight

LEMMA EofRight ==
  ASSUME IInv, TokInv, UNCHANGED fileVars, Eof
  PROVE  TokInv'
<1>1. Calling /\ c = NUL /\ Return("eof", index, 0, 0) /\ st' = "done" BY DEF Eof
<1>2. /\ reading = "ok" /\ st # "done" /\ IsText
      /\ index \in Nat \ {0} /\ index \in 1..Last /\ c = Text[index]
  BY <1>1, CallingHere
<1>3. index = Len(Text) BY <1>1, <1>2 DEF IsText, Last
<1> QED BY <1>1, <1>2, <1>3, StopRight

LEMMA UnsupportedRight ==
  ASSUME IInv, TokInv, UNCHANGED fileVars, Unsupported
  PROVE  TokInv'
<1>1. /\ Calling /\ Return("error", index, 1, 1) /\ st' = "done"
      /\ c \notin Blanks \union Digit \union Punct \union {"-", DQ, "t", "f", "n", NUL}
  BY DEF Unsupported, Error
<1>2. /\ reading = "ok" /\ st # "done" /\ IsText
      /\ index \in Nat \ {0} /\ index \in 1..Last /\ c = Text[index]
  BY <1>1, CallingHere
<1>3. ASSUME NEW e \in index..Len(Text)-1, NEW k \in Kinds, IsToken(k, index, e) PROVE FALSE
  <2>1. e \in index..Last-1 BY DEF Last
  <2> QED BY <1>1, <1>2, <1>3, <2>1, FirstChar, FirstLetters
<1>4. NoTokenAt(index) BY <1>1, <1>2, <1>3 DEF NoTokenAt
<1> QED BY <1>1, <1>2, <1>4, StopRight

LEMMA WordSeq ==
  ASSUME NEW w \in Literals
  PROVE  /\ Len(Word[w]) \in Nat \ {0}
         /\ \A k \in 1..Len(Word[w]) : Word[w][k] # NUL
         /\ \E S : Word[w] \in Seq(S)
<1>1. Len(Word[w]) \in Nat \ {0} /\ \A k \in 1..Len(Word[w]) : Word[w][k] # NUL BY NotNul
<1>2. w \in {"true", "false", "null"} BY WordsAre
<1> DEFINE S == {"t", "r", "u", "e", "f", "a", "l", "s", "n"}
<1>3. <<"t", "r", "u", "e">> \in Seq(S) /\ <<"f", "a", "l", "s", "e">> \in Seq(S)
      /\ <<"n", "u", "l", "l">> \in Seq(S)
  OBVIOUS
<1> HIDE DEF S
<1>4. Word[w] \in Seq(S) BY <1>2, <1>3, WordsAre
<1> QED BY <1>1, <1>4

LEMMA SeqSame ==
  ASSUME NEW S, NEW s \in Seq(S), NEW T, NEW t \in Seq(T),
         Len(s) = Len(t), \A k \in 1..Len(s) : s[k] = t[k]
  PROVE  s = t
OBVIOUS

(* The word is there, and so is the token. *)
LEMMA SpeltToken ==
  ASSUME IsText, NEW ix \in 1..Last, NEW w \in Literals, NEW n, n = Len(Word[w]),
         \A k \in 1..n : ix + k - 1 \in 1..Last => Text[ix + k - 1] = Word[w][k],
         ix + n \in 1..Last => Text[ix + n] \in Boundary
  PROVE  IsToken(w, ix, ix + n - 1)
<1>1. /\ n \in Nat \ {0} /\ \A k \in 1..n : Word[w][k] # NUL
      /\ \E S : Word[w] \in Seq(S)
  BY WordSeq
<1>2. Last \in Nat \ {0} /\ Text[Last] = NUL /\ ix \in Nat \ {0} BY DEF IsText
<1>3. ix + n <= Last
  <2> SUFFICES ASSUME ix + n > Last PROVE FALSE
    BY <1>1, <1>2
  <2>1. PICK k \in 1..n : k = Last - ix + 1 BY <1>1, <1>2
  <2>2. ix + k - 1 = Last BY <1>2, <2>1
  <2>3. Text[Last] = Word[w][k] BY <1>2, <2>2
  <2> QED BY <1>1, <1>2, <2>3
<1>4. PICK e : e = ix + n - 1 OBVIOUS
<1>5. e \in ix..Last /\ e - ix + 1 = n /\ e + 1 = ix + n BY <1>1, <1>2, <1>3, <1>4
<1>6. PICK s : s = SubSeq(Text, ix, e) OBVIOUS
<1>7. \A k \in ix..e : Text[k] \in Char BY <1>2, <1>5 DEF IsText, Last
<1>8. s \in Seq(Char) /\ Len(s) = n /\ \A k \in 1..n : s[k] = Text[ix + k - 1]
  <2>1. ix \in Int /\ e \in Int /\ ix <= e BY <1>1, <1>2, <1>5
  <2> QED BY <1>5, <1>6, <1>7, <2>1, SubSeqProperties
<1>9. \A k \in 1..n : s[k] = Word[w][k]
  <2>1. \A k \in 1..n : ix + k - 1 \in 1..Last BY <1>1, <1>2, <1>3
  <2> QED BY <1>8, <2>1
<1>10. s = Word[w]
  <2>1. PICK S : Word[w] \in Seq(S) BY <1>1
  <2> QED BY <1>8, <1>9, <2>1, SeqSame
<1>11. Text[e + 1] \in Boundary
  <2>1. ix + n \in 1..Last BY <1>1, <1>2, <1>3
  <2> QED BY <1>5, <2>1
<1> QED BY <1>4, <1>6, <1>10, <1>11, TokenKinds

(* And the other way round. *)
LEMMA TokenSpelt ==
  ASSUME IsText, NEW ix \in Nat \ {0}, NEW w \in Literals, NEW e \in ix..Last-1,
         IsToken(w, ix, e), \A k \in 1..Last : storage[k] = Text[k], ix = index
  PROVE  w \in Spelt
<1>1. PICK n : n = Len(Word[w]) OBVIOUS
<1>2. n \in Nat \ {0} BY <1>1, WordSeq
<1>3. PICK s : s = SubSeq(Text, ix, e) OBVIOUS
<1>4. s = Word[w] /\ Text[e + 1] \in Boundary
  <2>1. PICK d : d = e OBVIOUS
  <2>2. IsToken(w, ix, d) /\ s = SubSeq(Text, ix, d) BY <1>3, <2>1
  <2>3. s = Word[w] /\ Text[d + 1] \in Boundary BY ONLY <2>2, w \in Literals, TokenKinds
  <2> QED BY <2>1, <2>3
<1>5. Last \in Nat /\ e \in ix..Last BY DEF IsText
<1>6. \A k \in ix..e : Text[k] \in Char BY <1>5 DEF IsText, Last
<1>7. Len(s) = e - ix + 1 /\ \A k \in 1..e-ix+1 : s[k] = Text[ix + k - 1]
  BY <1>3, <1>5, <1>6, SubSeqProperties
<1>8. n = e - ix + 1 /\ ix + n = e + 1 BY <1>1, <1>4, <1>5, <1>7
<1>9. \A k \in 1..n : storage[ix + k - 1] = Word[w][k]
  <2>1. \A k \in 1..n : ix + k - 1 \in 1..Last BY <1>5, <1>8
  <2> QED BY <1>4, <1>7, <1>8, <2>1
<1>10. storage[ix + n] \in Boundary
  <2>1. e + 1 \in 1..Last BY <1>5
  <2> QED BY <1>4, <1>8, <2>1
<1> QED BY <1>1, <1>9, <1>10 DEF Spelt

LEMMA LiteralRight ==
  ASSUME IInv, TokInv, UNCHANGED fileVars, NEW w \in Literals, Literal(w)
  PROVE  TokInv'
<1>1. Calling /\ c = Word[w][1] BY DEF Literal
<1>2. /\ reading = "ok" /\ st # "done" /\ st = "blank" /\ WholeFile /\ IsText
      /\ index \in Nat \ {0} /\ index \in 1..Last /\ c = Text[index]
      /\ \A k \in 1..Last : storage[k] = Text[k]
  BY <1>1, CallingHere
<1>3. CASE w \in Spelt /\ Return(w, index, Len(Word[w]), Len(Word[w])) /\ UNCHANGED st
  <2>1. PICK n : n = Len(Word[w]) OBVIOUS
  <2>2. n \in Nat \ {0} BY <2>1, WordSeq
  <2>3. \A k \in 1..n : storage[index + k - 1] = Word[w][k] BY <1>3, <2>1 DEF Spelt
  <2>4. storage[index + n] \in Boundary BY <1>3, <2>1 DEF Spelt
  <2>5. \A k \in 1..n : index + k - 1 \in 1..Last => Text[index + k - 1] = Word[w][k]
    BY <1>2, <2>3
  <2>6. index + n \in 1..Last => Text[index + n] \in Boundary BY <1>2, <2>4
  <2>7. IsToken(w, index, index + n - 1) BY <1>2, <2>1, <2>5, <2>6, SpeltToken
  <2>8. w \in Kinds /\ w # "string" BY KindsDiffer DEF Kinds
  <2>9. Return(w, index, n, n) /\ st' = "blank" /\ index \in Nat /\ n \in Nat
    BY <1>2, <1>3, <2>1, <2>2
  <2> QED BY <1>2, <2>2, <2>7, <2>8, <2>9, ReturnRight
<1>4. CASE w \notin Spelt /\ Error
  <2>1. Return("error", index, 1, 1) /\ st' = "done" BY <1>4 DEF Error
  <2>2. ASSUME NEW e \in index..Len(Text)-1, NEW k \in Kinds, IsToken(k, index, e) PROVE FALSE
    <3>1. e \in index..Last-1 BY DEF Last
    <3>2. Text[index] = Word[w][1] /\ Text[index] \in {"t", "f", "n"}
      BY <1>1, <1>2, FirstLetters
    <3>3. k \in Literals /\ Text[index] = Word[k][1]
      BY <1>2, <2>2, <3>1, <3>2, FirstChar, FirstsDiffer
    <3>4. k = w BY <3>2, <3>3, FirstLetters
    <3>5. IsToken(w, index, e) BY <2>2, <3>4
    <3>6. w \in Spelt BY <1>2, <3>1, <3>5, TokenSpelt
    <3> QED BY <1>4, <3>6
  <2>3. Text[index] \notin Blanks \union {NUL}
    BY <1>1, <1>2, FirstLetters DEF Blanks, NUL, LF, CR, TAB
  <2>4. NoTokenAt(index) BY <2>2, <2>3 DEF NoTokenAt
  <2> QED BY <1>2, <2>1, <2>4, StopRight
<1> QED BY <1>3, <1>4 DEF Literal

-----------------------------------------------------------------------------
LEMMA ReadRight ==
  ASSUME IInv, TokInv, ReadStep, UNCHANGED lexVars
  PROVE  TokInv'
<1>1. reading # "ok" BY DEF ReadStep, Open, Read, Finish
<1>2. WholeFile' BY WholeStep DEF IInv, TokInv
<1>3. /\ tokens = <<>> /\ line = 1 /\ col = 1 /\ st = "blank" /\ index = 1
      /\ UNCHANGED <<index, st, line, col, tokens, i>>
  BY <1>1 DEF TokInv, IInv, LexType, lexVars
<1>4. UNCHANGED file BY DEF ReadStep, Open, Read, Finish, Fail
<1>5. Good(tokens', index', line', col') BY <1>3, GoodBegins
<1>6. ScanInv(index', st', i' - index' + 1) BY <1>3, NoScan, PlacesDiffer
<1>7. Good(tokens, index, line, col)' BY <1>4, <1>5, GoodStays
<1>8. ScanInv(index, st, i - index + 1)' BY <1>4, <1>6, ScanStays
<1>9. st' # "done" BY <1>3
<1> QED BY <1>2, <1>3, <1>7, <1>8, <1>9 DEF TokInv

LEMMA TokensInit == Init => TokInv
BY WholeInit DEF Init, InitFile, TokInv

LEMMA TokensStep == IInv /\ TokInv /\ [Next]_vars => TokInv'
<1> SUFFICES ASSUME IInv, TokInv, [Next]_vars PROVE TokInv'
  OBVIOUS
<1>1. CASE ReadStep /\ UNCHANGED lexVars BY <1>1, ReadRight
<1>2. CASE lexer_next /\ UNCHANGED fileVars
  BY <1>2, SkipRight, EnterRight, ScanStepRight, NumberRight, StringRight, InvalidRight,
     LiteralRight, PunctuationRight, EofRight, UnsupportedRight DEF lexer_next
<1>3. CASE UNCHANGED vars
  <2>1. UNCHANGED <<file, at, storage, reading, index, i, st, line, col, tokens>>
    BY <1>3 DEF vars, fileVars, lexVars
  <2>2. WholeFile' BY <2>1 DEF TokInv, WholeFile
  <2>3. reading = "ok" /\ st # "done" => (Good(tokens, index, line, col)
                                        /\ ScanInv(index, st, i - index + 1))'
    <3> SUFFICES ASSUME reading = "ok" /\ st # "done"
                 PROVE  (Good(tokens, index, line, col) /\ ScanInv(index, st, i - index + 1))'
      OBVIOUS
    <3>1. Good(tokens', index', line', col') /\ ScanInv(index', st', i' - index' + 1)
      BY <2>1 DEF TokInv
    <3> QED BY <2>1, <3>1, GoodStays, ScanStays
  <2>4. st = "done" => CutRight(tokens)'
    <3> SUFFICES ASSUME st = "done" PROVE CutRight(tokens)'
      OBVIOUS
    <3>1. CutRight(tokens') BY <2>1 DEF TokInv
    <3> QED BY <2>1, <3>1, CutStays
  <2> QED BY <2>1, <2>2, <2>3, <2>4 DEF TokInv
<1> QED BY <1>1, <1>2, <1>3 DEF Next

(* For any file, however it is read, the tokens are those of the rules,    *)
(* each with its line and column, and the lexer stops only where there is  *)
(* no token.                                                               *)
THEOREM CutsIntoTokens == Spec => []TokensRight
<1>1. IInv /\ TokInv => TokensRight BY DEF TokInv, TokensRight, CutRight
<1> QED BY InitInv, StepInv, TokensInit, TokensStep, <1>1, PTL DEF Spec
=============================================================================
