--------------------------- MODULE MCClientSession ---------------------------
(* Small browsers for TLC.                                                   *)
EXTENDS ClientSession

\* After an overlap nothing more is claimed, and the search need not go on.
UntilOverlap == ~overlapped
=============================================================================
