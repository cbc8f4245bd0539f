--------------------------- MODULE MCWalletStore ----------------------------
(***************************************************************************)
(* Small instances of WalletStore for TLC: two goroutines of two processes *)
(* and a wallet whose column holds quota before its account exists.        *)
(***************************************************************************)
EXTENDS WalletStore

CONSTANTS c1, c2, o1, r1, r2

TwoProcesses == [c \in {c1, c2} |-> IF c = c1 THEN 1 ELSE 2]

Values == [x \in {o1, r1, r2} |-> IF x = r2 THEN 2 ELSE 1]

AdminDeltas == {-1, 1}
=============================================================================
