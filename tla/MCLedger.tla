------------------------------ MODULE MCLedger ------------------------------
(***************************************************************************)
(* Small instances of Ledger for TLC.  A key commits at most once, so the  *)
(* number of keys bounds the committed operations of a behaviour.          *)
(***************************************************************************)
EXTENDS LedgerAggregate, TLC

\* A call that starts under a key that has had its effect meets the same tables
\* as one that started before and was delayed: only the latter is explored.
StartsUnused ==
    \A c \in Callers :
        call[c] = NoCall /\ call'[c] # NoCall => outbox[call'[c].key].type = "none"

Symmetry == Permutations(Keys) \cup Permutations(Callers)
=============================================================================
