--------------------------- MODULE MCLedgerWorker ---------------------------
(***************************************************************************)
(* Small instances of LedgerWorker for TLC.                                *)
(***************************************************************************)
EXTENDS LedgerWorker, TLC

CONSTANTS k1, k2, k3

Used(k) == outbox[k].type # "none"

\* Keys are interchangeable, and a call under a key that has had its effect can
\* only be rolled back: it is enough that calls take the keys in turn.
KeysInOrder ==
    \A c \in Callers :
        call'[c] # NoCall =>
            /\ ~Used(call'[c].key)
            /\ call'[c].key = k2 => Used(k1)
            /\ call'[c].key = k3 => Used(k2)
=============================================================================
