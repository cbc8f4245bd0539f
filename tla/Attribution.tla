---------------------------- MODULE Attribution -----------------------------
(***************************************************************************)
(* What AllocateSettledFundingFIFO promises, without lots: quota is funded *)
(* in amounts, and a settled request draws its cost from what was funded   *)
(* and not drawn yet, in full and only once.                               *)
(***************************************************************************)
EXTENDS Integers, Functions

CONSTANTS Requests, Cost

VARIABLES
    funded,     \* quota funded so far
    drawn       \* request -> quota attributed to it

TotalDrawn == SumFunction(drawn)

Init ==
    /\ funded = 0
    /\ drawn = [r \in Requests |-> 0]

Fund ==
    /\ funded' > funded
    /\ UNCHANGED drawn

\* The quota that was never recorded when it was granted is funded on the way.
Draw(r) ==
    /\ drawn[r] = 0
    /\ funded' >= funded
    /\ TotalDrawn + Cost[r] <= funded'
    /\ drawn' = [drawn EXCEPT ![r] = Cost[r]]

Next == Fund \/ \E r \in Requests : Draw(r)

Spec == Init /\ [][Next]_<<funded, drawn>>
=============================================================================
