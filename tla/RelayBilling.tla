---------------------------- MODULE RelayBilling ----------------------------
(***************************************************************************)
(* The billing of relay requests paid from one wallet: BillingSession over *)
(* LedgerRelayFunding (internal/billing/app), on top of Ledger.  A request *)
(* holds quota in three places that no transaction covers together: the    *)
(* ledger, the legacy quota column of the user, and the quota of its API   *)
(* token.  Each step below is one database call of one request; requests   *)
(* interleave, any call may fail, and a process may die between two calls. *)
(*                                                                         *)
(* The wallet is created by its first use: its legacy balance is credited  *)
(* to the ledger once, before the requests start (the races of that first  *)
(* use are outside this module).  Request identifiers are unique, so the   *)
(* branch of PreConsume that adopts an existing reservation is left out.   *)
(***************************************************************************)
EXTENDS Ledger

CONSTANTS
    Requests,       \* relay requests, each a caller of the ledger
    Wallet,         \* the account they are paid from
    Sync,           \* the caller and the owner of the key of the first credit
    InitialQuota,   \* legacy balance of the user
    TrustQuota,     \* above it a session holds nothing before it settles
    MaxFaults,      \* bound on the places where database calls fail
    MaxCrashes      \* bound on dying processes in a behaviour

Key(r, operation) == <<r, operation>>

Operations == {"reserve", "undo", "settle", "release"}

ASSUME RequestsAssumption ==
    /\ Requests \cup {Sync} \subseteq Callers
    /\ Sync \notin Requests
    /\ Wallet \in Accounts
    /\ Requests \X Operations \subseteq Keys
    /\ Key(Sync, "bootstrap") \in Keys

ASSUME QuotaAssumption ==
    /\ InitialQuota \in 1 .. MaxAmount
    /\ TrustQuota \in Nat

ASSUME BoundsAssumption == MaxFaults \in Nat /\ MaxCrashes \in Nat

VARIABLES
    session,    \* request -> its BillingSession and LedgerRelayFunding
    quota,      \* legacy quota column of the user
    token,      \* used quota of the API token since the start
    faults,     \* places whose database call failed, as a set
    crashes     \* number of processes that died

relay == <<session, quota, token, faults, crashes>>
relayVars == <<vars, relay>>

-----------------------------------------------------------------------------
(* Sessions *)

\* Where a request stands: the next call it makes.
Places == {"idle", "token", "reserve", "project", "undo", "untoken", "serving",
           "settleProject", "settle", "settleUndo", "settleToken",
           "refundProject", "release", "reproject", "refundToken", "ended"}

Outcomes == {"none", "refused", "refunded", "settled", "short", "unsettled", "crashed"}

\* pre stands for preConsumedQuota and tokenConsumed, which differ only inside
\* preConsume; held for reserved and legacyHeld of a funding that has a
\* reservation, 0 without one.
Session == [at : Places, estimate : 0 .. MaxAmount, usage : 0 .. MaxAmount,
            trusted : BOOLEAN, pre : 0 .. MaxAmount, held : 0 .. MaxAmount,
            outcome : Outcomes]

NewSession == [at |-> "idle", estimate |-> 0, usage |-> 0, trusted |-> FALSE,
               pre |-> 0, held |-> 0, outcome |-> "none"]

At(r, place) == session[r].at = place

Update(r, row) == session' = [session EXCEPT ![r] = row]

GoTo(r, place) == Update(r, [session[r] EXCEPT !.at = place])

End(r, outcome) == Update(r, [session[r] EXCEPT !.at = "ended", !.outcome = outcome])

\* What PreConsume holds: the estimate, or for a trusted session the usage.
Amount(s) == IF s.trusted THEN s.usage ELSE s.estimate

\* What Settle adds to the amount already consumed in advance.
Delta(s) == s.usage - s.pre

\* The legacy column and the token change by atomic SQL increments.  Whether
\* the token can pay is decided before that in a ledger account of its own, from
\* rows read without a lock: here a charge of the token may always be refused.
ProjectLegacyDelta(delta) == quota' = quota - delta

AdjustToken(delta) == token' = token + delta

\* A call that fails without a reason the code can see.
Fault(r) ==
    /\ Cardinality(faults) < MaxFaults
    /\ faults' = faults \cup {session[r].at}

Intact == faults' = faults

\* Where a request goes when funding.PreConsume failed ...
FundingRefused(r) ==
    IF session[r].trusted THEN End(r, "unsettled") ELSE GoTo(r, "untoken")

\* ... and when funding.Refund is over, whether it failed or not.
FundingRefunded(r) ==
    IF session[r].trusted THEN End(r, "unsettled") ELSE GoTo(r, "refundToken")

-----------------------------------------------------------------------------
(* First use of the wallet *)

RelayInit ==
    /\ Init
    /\ session = [r \in Requests |-> NewSession]
    /\ quota = InitialQuota
    /\ token = 0
    /\ faults = {}
    /\ crashes = 0

\* ensureMirroredUserAccount credits the legacy balance under a fixed key.
Bootstrap ==
    /\ \/ BeginCall(Sync, CreditCall(Key(Sync, "bootstrap"), Wallet, InitialQuota))
       \/ CreditAccountTx(Sync, Key(Sync, "bootstrap"), Wallet, InitialQuota)
    /\ UNCHANGED relay

Bootstrapped == snapshot[Wallet].granted > 0

-----------------------------------------------------------------------------
(* Before the upstream call: NewBillingSession and preConsume *)

\* tryWallet compares the estimate with a balance it reads without a lock.
RefuseSession(r, estimate) ==
    /\ At(r, "idle")
    /\ Bootstrapped
    /\ snapshot[Wallet].available <= 0 \/ snapshot[Wallet].available < estimate
    /\ End(r, "refused")
    /\ UNCHANGED <<vars, quota, token, faults, crashes>>

\* shouldTrust compares the same balance; the quota of the token it also looks
\* at was left in the request by its authentication, from a cache, so both
\* answers are possible.  A trusted session, or an estimate of 0, holds nothing.
OpenSession(r, estimate, trusted) ==
    /\ At(r, "idle")
    /\ Bootstrapped
    /\ snapshot[Wallet].available > 0
    /\ snapshot[Wallet].available >= estimate
    /\ trusted => snapshot[Wallet].available > TrustQuota
    /\ Update(r, [session[r] EXCEPT
                   !.estimate = estimate,
                   !.trusted = trusted,
                   !.at = IF trusted \/ estimate = 0 THEN "serving" ELSE "token"])
    /\ UNCHANGED <<vars, quota, token, faults, crashes>>

\* PreConsumeTokenQuota; for a trusted session it is the last call of
\* reserveTrustedSettlement.
TakeToken(r) ==
    /\ At(r, "token")
    /\ AdjustToken(Amount(session[r]))
    /\ Update(r, [session[r] EXCEPT
                   !.pre = Amount(session[r]),
                   !.at = IF session[r].trusted THEN "settle" ELSE "reserve"])
    /\ UNCHANGED <<vars, quota, faults, crashes>>

TokenRefused(r) ==
    /\ At(r, "token")
    /\ IF session[r].trusted THEN GoTo(r, "refundProject") ELSE End(r, "refused")
    /\ UNCHANGED <<vars, quota, token, faults, crashes>>

\* LedgerRelayFunding.PreConsume: reserve in the ledger, then project.
BeginReserve(r) ==
    /\ At(r, "reserve")
    /\ BeginCall(r, ReserveCall(Key(r, "reserve"), Wallet, Amount(session[r])))
    /\ UNCHANGED relay

Reserve(r) ==
    /\ At(r, "reserve")
    /\ CreateReservationTx(r, Key(r, "reserve"), Wallet, Amount(session[r]))
    /\ GoTo(r, "project")
    /\ UNCHANGED <<quota, token, faults, crashes>>

ReserveRefused(r) ==
    /\ At(r, "reserve")
    /\ RollbackTx(r)
    /\ (~CanHold(snapshot[Wallet], Amount(session[r])) /\ Intact) \/ Fault(r)
    /\ FundingRefused(r)
    /\ UNCHANGED <<quota, token, crashes>>

Project(r) ==
    /\ At(r, "project")
    /\ ProjectLegacyDelta(Amount(session[r]))
    /\ Update(r, [session[r] EXCEPT
                   !.held = Amount(session[r]),
                   !.at = IF session[r].trusted THEN "token" ELSE "serving"])
    /\ UNCHANGED <<vars, token, faults, crashes>>

ProjectFails(r) ==
    /\ At(r, "project")
    /\ Fault(r)
    /\ GoTo(r, "undo")
    /\ UNCHANGED <<vars, quota, token, crashes>>

\* The reservation is released again under a key of its own.
BeginUndo(r) ==
    /\ At(r, "undo")
    /\ BeginCall(r, ReleaseCall(Key(r, "undo"), Key(r, "reserve")))
    /\ UNCHANGED relay

\* Mutant of Undo: the reservation row is deleted instead of released.
UndoByDelete(r) ==
    /\ At(r, "undo")
    /\ call[r] # NoCall
    /\ Done(r)
    /\ reservation' = [reservation EXCEPT ![Key(r, "reserve")] = NoReservation]
    /\ FundingRefused(r)
    /\ UNCHANGED <<snapshot, settlement, entries, audit, outbox>>
    /\ UNCHANGED <<quota, token, faults, crashes>>

Undo(r) ==
    /\ At(r, "undo")
    /\ \/ ReleaseReservationTx(r, Key(r, "undo"), Key(r, "reserve")) /\ Intact
       \/ RollbackTx(r) /\ Fault(r)
    /\ FundingRefused(r)
    /\ UNCHANGED <<quota, token, crashes>>

\* Mutant of Untoken: the refused session keeps the quota of the token.
UntokenSkipped(r) ==
    /\ At(r, "untoken")
    /\ End(r, "refused")
    /\ UNCHANGED <<vars, quota, token, faults, crashes>>

\* preConsume gives the token its quota back.
Untoken(r) ==
    /\ At(r, "untoken")
    /\ \/ AdjustToken(-session[r].pre) /\ Intact
       \/ Fault(r) /\ UNCHANGED token
    /\ End(r, "refused")
    /\ UNCHANGED <<vars, quota, crashes>>

-----------------------------------------------------------------------------
(* The upstream call, with its retries on other channels *)

\* Mutant of NeedsRefund: only what was held on top of the estimate counts.
NeedsRefundFunding(s) == s.held > s.estimate

\* needsRefundLocked, before any settlement.
NeedsRefund(s) == s.pre > 0

\* Every channel failed, or a retry wants a larger hold: Reserve refuses that
\* for a ledger funding ("unsupported funding source"), which ends the request.
UpstreamFails(r) ==
    /\ At(r, "serving")
    /\ IF NeedsRefund(session[r]) THEN GoTo(r, "refundProject") ELSE End(r, "refunded")
    /\ UNCHANGED <<vars, quota, token, faults, crashes>>

\* The request is served; Settle starts with the quota it used.  Without a
\* reservation funding.Settle reports "ledger reservation is missing".
UpstreamServes(r, usage) ==
    LET s == session[r]
        place == CASE s.trusted /\ usage > 0 -> "reserve"
                   [] ~s.trusted /\ s.held > 0 /\ usage # s.pre -> "settleProject"
                   [] ~s.trusted /\ s.held > 0 /\ usage = s.pre -> "settle"
                   [] OTHER -> "ended"
    IN  /\ At(r, "serving")
        /\ Update(r, [s EXCEPT !.usage = usage,
                               !.at = place,
                               !.outcome = IF place = "ended" THEN "unsettled" ELSE "none"])
        /\ UNCHANGED <<vars, quota, token, faults, crashes>>

-----------------------------------------------------------------------------
(* Settle: legacy column, ledger, token *)

SettleProject(r) ==
    /\ At(r, "settleProject")
    /\ \/ /\ ProjectLegacyDelta(Delta(session[r]))
          /\ GoTo(r, "settle")
          /\ Intact
       \/ /\ Fault(r)
          /\ End(r, "unsettled")
          /\ UNCHANGED quota
    /\ UNCHANGED <<vars, token, crashes>>

BeginSettle(r) ==
    /\ At(r, "settle")
    /\ BeginCall(r, SettleCall(Key(r, "settle"), Key(r, "reserve"), session[r].usage))
    /\ UNCHANGED relay

Settle(r) ==
    /\ At(r, "settle")
    /\ SettleReservationTx(r, Key(r, "settle"), Key(r, "reserve"), session[r].usage)
    /\ IF Delta(session[r]) # 0 THEN GoTo(r, "settleToken") ELSE End(r, "settled")
    /\ UNCHANGED <<quota, token, faults, crashes>>

SettleRefused(r) ==
    /\ At(r, "settle")
    /\ RollbackTx(r)
    /\ \/ ~CanSettle(snapshot[Wallet], session[r].held, session[r].usage) /\ Intact
       \/ Fault(r)
    /\ IF Delta(session[r]) # 0 THEN GoTo(r, "settleUndo") ELSE End(r, "unsettled")
    /\ UNCHANGED <<quota, token, crashes>>

\* Mutant of SettleUndo: the legacy column is not restored.
SettleUndoSkipped(r) ==
    /\ At(r, "settleUndo")
    /\ End(r, "unsettled")
    /\ UNCHANGED <<vars, quota, token, faults, crashes>>

SettleUndo(r) ==
    /\ At(r, "settleUndo")
    /\ \/ ProjectLegacyDelta(-Delta(session[r])) /\ Intact
       \/ Fault(r) /\ UNCHANGED quota
    /\ End(r, "unsettled")
    /\ UNCHANGED <<vars, token, crashes>>

\* The session counts as settled even when its token cannot pay the rest.
SettleToken(r) ==
    /\ At(r, "settleToken")
    /\ \/ /\ AdjustToken(Delta(session[r]))
          /\ End(r, "settled")
       \/ /\ End(r, "short")
          /\ UNCHANGED token
    /\ UNCHANGED <<vars, quota, faults, crashes>>

-----------------------------------------------------------------------------
(* Refund: legacy column, ledger, token *)

\* Mutant of RefundProject: the legacy column is restored, the hold is not.
RefundProjectOnly(r) ==
    /\ At(r, "refundProject")
    /\ ProjectLegacyDelta(-session[r].held)
    /\ FundingRefunded(r)
    /\ UNCHANGED <<vars, token, faults, crashes>>

RefundProject(r) ==
    /\ At(r, "refundProject")
    /\ \/ /\ ProjectLegacyDelta(-session[r].held)
          /\ GoTo(r, "release")
          /\ Intact
       \/ /\ Fault(r)
          /\ FundingRefunded(r)
          /\ UNCHANGED quota
    /\ UNCHANGED <<vars, token, crashes>>

BeginRelease(r) ==
    /\ At(r, "release")
    /\ BeginCall(r, ReleaseCall(Key(r, "release"), Key(r, "reserve")))
    /\ UNCHANGED relay

Release(r) ==
    /\ At(r, "release")
    /\ \/ /\ ReleaseReservationTx(r, Key(r, "release"), Key(r, "reserve"))
          /\ FundingRefunded(r)
          /\ Intact
       \/ RollbackTx(r) /\ Fault(r) /\ GoTo(r, "reproject")
    /\ UNCHANGED <<quota, token, crashes>>

Reproject(r) ==
    /\ At(r, "reproject")
    /\ \/ ProjectLegacyDelta(session[r].held) /\ Intact
       \/ Fault(r) /\ UNCHANGED quota
    /\ FundingRefunded(r)
    /\ UNCHANGED <<vars, token, crashes>>

RefundToken(r) ==
    /\ At(r, "refundToken")
    /\ \/ AdjustToken(-session[r].pre) /\ Intact
       \/ Fault(r) /\ UNCHANGED token
    /\ End(r, "refunded")
    /\ UNCHANGED <<vars, quota, crashes>>

\* The process dies: an open transaction is rolled back and nothing is resumed.
Crash(r) ==
    /\ session[r].at \notin {"idle", "ended"}
    /\ crashes < MaxCrashes
    /\ crashes' = crashes + 1
    /\ End(r, "crashed")
    /\ IF call[r] = NoCall THEN UNCHANGED vars ELSE RollbackTx(r)
    /\ UNCHANGED <<quota, token, faults>>

-----------------------------------------------------------------------------

\* The calls a request makes on its own once it is under way.
Proceed(r) ==
    \/ TakeToken(r) \/ TokenRefused(r)
    \/ BeginReserve(r) \/ Reserve(r) \/ ReserveRefused(r)
    \/ Project(r) \/ ProjectFails(r) \/ BeginUndo(r) \/ Undo(r) \/ Untoken(r)
    \/ UpstreamFails(r) \/ \E usage \in 0 .. MaxAmount : UpstreamServes(r, usage)
    \/ SettleProject(r) \/ BeginSettle(r) \/ Settle(r) \/ SettleRefused(r)
    \/ SettleUndo(r) \/ SettleToken(r)
    \/ RefundProject(r) \/ BeginRelease(r) \/ Release(r) \/ Reproject(r) \/ RefundToken(r)

RelayNext ==
    \/ Bootstrap
    \/ \E r \in Requests :
          \/ \E estimate \in 0 .. MaxAmount : 
             \/ RefuseSession(r, estimate)
             \/ \E trusted \in BOOLEAN : OpenSession(r, estimate, trusted)
          \/ Proceed(r)
          \/ Crash(r)

RelaySpec == RelayInit /\ [][RelayNext]_relayVars

\* A request that is under way makes its next call: goroutines are scheduled
\* and the database and the upstream answer in the end.
LiveRelaySpec == RelaySpec /\ \A r \in Requests : WF_relayVars(Proceed(r))

-----------------------------------------------------------------------------
(* Properties *)

\* Sessions are well typed: nothing above the largest estimate or usage is ever
\* held or taken in advance.
RelayTypeOK ==
    /\ session \in [Requests -> Session]
    /\ quota \in Int
    /\ token \in Int
    /\ faults \subseteq Places
    /\ crashes \in 0 .. MaxCrashes

\* The requests use the ledger only through its operations, one at a time per
\* request, so all that Ledger promises holds below them.
ImplementsLedger == Spec

AtRest ==
    /\ Bootstrapped
    /\ crashes = 0
    /\ \A r \in Requests : session[r].at \in {"idle", "ended"}

\* The legacy column of the user equals the ledger balance whenever no request
\* is under way: interleaved requests, refused settlements and failing calls
\* never separate them, unless a call that repairs an earlier failure fails.
LegacyMirrorsLedger ==
    (AtRest /\ faults \cap {"undo", "settleUndo", "reproject"} = {})
        => quota = snapshot[Wallet].available

Short == \E r \in Requests : session[r].outcome = "short"

\* What the token was charged is what the wallet has paid or still holds, whenever
\* no request is under way, unless a refund failed or a token ran short.
TokenMatchesWallet ==
    (/\ AtRest
     /\ faults \cap {"undo", "untoken", "refundProject", "release", "refundToken"} = {}
     /\ ~Short)
        => token = snapshot[Wallet].consumed + snapshot[Wallet].reserved

\* A request ends as its reservation does: settled for what was used, released
\* or never opened when it was refused or refunded and no call failed.
OutcomeMatchesLedger ==
    \A r \in Requests :
        LET status == reservation[Key(r, "reserve")].status
            outcome == session[r].outcome
        IN  /\ outcome \in {"settled", "short"} =>
                  /\ status = "settled"
                  /\ \E s \in settlement : /\ s.reservation = Key(r, "reserve")
                                           /\ s.actual = session[r].usage
            /\ outcome \in {"refused", "refunded"} /\ faults = {} =>
                  status \in {"absent", "released"}

\* A request whose upstream failed gets its reservation released in the end,
\* unless a call failed or its process died: the session is marked refunded
\* before the refund is tried, and it is tried once.
FailuresAreRefunded ==
    \A r \in Requests :
        At(r, "refundProject")
            ~> \/ reservation[Key(r, "reserve")].status = "released"
               \/ faults # {}
               \/ crashes > 0
=============================================================================
