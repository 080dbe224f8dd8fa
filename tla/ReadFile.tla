------------------------------ MODULE ReadFile ------------------------------
(***************************************************************************)
(* read_file_all() of json-parser's read_file.c: a file is read in pieces  *)
(* into a buffer that grows, and a NUL is put behind it.  fopen, fread,    *)
(* realloc and malloc may fail wherever they are called.                   *)
(***************************************************************************)
EXTENDS Naturals, Sequences

CONSTANTS
  Files,     (* what the file may contain: sequences of characters         *)
  CHUNK,     (* size of the local buffer: 1024 in the code                 *)
  FIRST_CAP  (* first size of storage: 8192 in the code                    *)

ASSUME ReadAssumption ==
  /\ \A f \in Files : f \in Seq(STRING)
  /\ CHUNK \in Nat \ {0} /\ FIRST_CAP \in Nat \ {0}

NUL == "NUL"

VARIABLES
  file,     (* the contents of the file                                    *)
  at,       (* how much of it fread has returned                           *)
  err,      (* ferror(fp)                                                  *)
  storage,  (* what has been written to storage; its length is len         *)
  cap,      (* bytes allocated for storage; 0 while it is NULL             *)
  reading   (* "open", "loop", then "ok" or "failed": FileData.ok          *)

fileVars == <<file, at, err, storage, cap, reading>>

InitFile ==
  /\ file \in Files /\ at = 0 /\ err = FALSE
  /\ storage = <<>> /\ cap = 0
  /\ reading = "open"

(* fclose, free(storage): FileData with buf = NULL. *)
Fail ==
  /\ reading' = "failed" /\ storage' = <<>> /\ cap' = 0
  /\ UNCHANGED file

Open ==
  /\ reading = "open"
  /\ \/ reading' = "loop" /\ UNCHANGED <<file, storage, cap>>
     \/ Fail
  /\ UNCHANGED <<at, err>>

(* What fread may return: a full buffer or all that is left, or less of it *)
(* when a read error comes in between.                                     *)
Left    == Len(file) - at
Full    == IF Left < CHUNK THEN Left ELSE CHUNK
Returns(n) == n <= Full /\ err' = (err \/ n < Full)

(* Room for the new bytes and the NUL. *)
Mut_Need(n) == Len(storage) + n
Need(n) == Len(storage) + n + 1

(* new_cap: cap, or the first size, doubled until it is enough. *)
FirstCap == IF cap > 0 THEN cap ELSE FIRST_CAP
Enough(new, need) ==
  /\ new >= need
  /\ \E k \in 0..need : new = FirstCap * 2^k /\ (k = 0 \/ FirstCap * 2^(k-1) < need)

Read(n) ==
  /\ reading = "loop" /\ n > 0 /\ Returns(n)
  /\ at' = at + n
  /\ \/ /\ Need(n) > cap /\ Fail
     \/ /\ IF Need(n) > cap
           THEN cap' \in {new \in FirstCap..(FirstCap + 2 * Need(n)) : Enough(new, Need(n))}
           ELSE UNCHANGED cap
        /\ storage' = storage \o SubSeq(file, at + 1, at + n)
        /\ UNCHANGED <<file, reading>>

(* fread returns 0. *)
Finish ==
  /\ reading = "loop" /\ Returns(0)
  /\ \/ err' /\ Fail
     \/ cap = 0 /\ ~err' /\ Fail
     \/ /\ ~err'
        /\ cap' = IF cap = 0 THEN 1 ELSE cap
        /\ storage' = Append(storage, NUL)
        /\ reading' = "ok" /\ UNCHANGED file
  /\ UNCHANGED at

ReadStep == Open \/ (\E n \in 1..CHUNK : Read(n)) \/ Finish

-----------------------------------------------------------------------------
(* Nothing is written behind the allocated bytes, the NUL included         *)
(* (the growth of storage, and malloc(1) for an empty file).               *)
BufferHolds == Len(storage) <= cap
=============================================================================
