---------------------------- MODULE MCSendFrame ----------------------------
(***************************************************************************)
(* A greeting, two broadcasts, one of them empty, and an answer.           *)
(***************************************************************************)
EXTENDS SendFrame

Calls == <<[len |-> 2, ignored |-> TRUE], [len |-> 0, ignored |-> FALSE],
           [len |-> 3, ignored |-> TRUE], [len |-> 1, ignored |-> FALSE]>>
=============================================================================
