---------------------------- MODULE MCPlayground ----------------------------
(* The chat page for TLC.  Two requests are enough for one to be made while  *)
(* the other is open, and for either to end first.                           *)
EXTENDS Playground
=============================================================================
