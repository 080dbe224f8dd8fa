----------------------------- MODULE FrameLine -----------------------------
(***************************************************************************)
(* What send_frame promises about one connection: the frames its callers   *)
(* hand over arrive whole and in order, none left out, until the           *)
(* connection is cut; nothing arrives after that.                          *)
(***************************************************************************)
EXTENDS Naturals

CONSTANT Count       (* frames to be sent *)

VARIABLES line, cut  (* how many are through; whether it is over *)

vars == <<line, cut>>

Init == line = 0 /\ cut = FALSE

Put == ~cut /\ line < Count /\ line' = line + 1 /\ UNCHANGED cut
Cut == ~cut /\ cut' = TRUE /\ UNCHANGED line

Next == Put \/ Cut
Spec == Init /\ [][Next]_vars
=============================================================================
