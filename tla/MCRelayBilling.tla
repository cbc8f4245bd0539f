--------------------------- MODULE MCRelayBilling ---------------------------
(***************************************************************************)
(* Small instances of RelayBilling for TLC.                                *)
(***************************************************************************)
EXTENDS RelayBilling

CONSTANTS r1, r2

RelayKeys == ({r1, r2} \X Operations) \cup {Key(Sync, "bootstrap")}
=============================================================================
