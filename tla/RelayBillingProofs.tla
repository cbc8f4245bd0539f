------------------------- MODULE RelayBillingProofs -------------------------
(***************************************************************************)
(* RelayBilling implements Ledger: whatever requests interleave, fail or   *)
(* crash, they reach the ledger through its operations alone, so that what *)
(* LedgerProofs proves of any callers holds below the relay.  Then, what   *)
(* the requests keep outside the ledger agrees with it: their outcomes,    *)
(* the legacy column and the quota of the token.                           *)
(***************************************************************************)
EXTENDS RelayBilling, LedgerProofs, SumTheorems

\* A session that is about to take or hold quota takes or holds some.
HoldsSome ==
    \A r \in Requests :
        session[r].at \in {"token", "reserve", "project"} => Amount(session[r]) > 0

\* Types, and the positive amount of a request about to settle or release.
RelayInv == RelayTypeOK /\ HoldsSome

-----------------------------------------------------------------------------
(* Lemmas about sessions *)

\* The amounts of a session are those of a ledger call.
LEMMA AmountsTyped ==
    ASSUME RelayTypeOK, NEW r \in Requests
    PROVE  /\ session[r] \in Session
           /\ session[r].at \in Places
           /\ session[r].estimate \in 0 .. MaxAmount
           /\ session[r].usage \in 0 .. MaxAmount
           /\ session[r].pre \in 0 .. MaxAmount
           /\ session[r].held \in 0 .. MaxAmount
           /\ session[r].trusted \in BOOLEAN
           /\ Amount(session[r]) \in 0 .. MaxAmount
           /\ Delta(session[r]) \in Int
BY MaxAmountAssumption DEF RelayTypeOK, Session, Amount, Delta

\* The calls of a request are calls of the ledger.
LEMMA CallsTyped ==
    ASSUME RelayInv, NEW r \in Requests
    PROVE  /\ r \in Callers
           /\ Wallet \in Accounts
           /\ \A operation \in Operations : Key(r, operation) \in Keys
           /\ session[r].at = "reserve" =>
                 /\ Amount(session[r]) \in 1 .. MaxAmount
                 /\ ReserveCall(Key(r, "reserve"), Wallet, Amount(session[r])) \in Calls
           /\ ReleaseCall(Key(r, "undo"), Key(r, "reserve")) \in Calls
           /\ ReleaseCall(Key(r, "release"), Key(r, "reserve")) \in Calls
           /\ session[r].usage \in 0 .. MaxAmount
           /\ SettleCall(Key(r, "settle"), Key(r, "reserve"), session[r].usage) \in Calls
<1>1. r \in Callers /\ Wallet \in Accounts
  BY RequestsAssumption
<1>2. \A operation \in Operations : Key(r, operation) \in Keys
  BY RequestsAssumption DEF Key
<1>3. /\ Key(r, "reserve") \in Keys /\ Key(r, "undo") \in Keys
      /\ Key(r, "settle") \in Keys /\ Key(r, "release") \in Keys
  BY <1>2 DEF Operations
<1>4. session[r].usage \in 0 .. MaxAmount
  BY AmountsTyped DEF RelayInv
<1>5. session[r].at = "reserve" => Amount(session[r]) \in 1 .. MaxAmount
  BY AmountsTyped, MaxAmountAssumption DEF RelayInv, HoldsSome
<1> QED
  BY <1>1, <1>2, <1>3, <1>4, <1>5 DEF Calls, ReserveCall, ReleaseCall, SettleCall

-----------------------------------------------------------------------------
(* The invariant *)

\* A step that moves one session to a row that is sound keeps all of them so.
LEMMA UpdateTyped ==
    ASSUME RelayInv, NEW r \in Requests, NEW row \in Session,
           row.at \in {"token", "reserve", "project"} => Amount(row) > 0,
           Update(r, row),
           token' \in Int, quota' \in Int, faults' \subseteq Places,
           crashes' \in 0 .. MaxCrashes
    PROVE  RelayInv'
<1>1. session' = [session EXCEPT ![r] = row]
  BY DEF Update
<1>2. session \in [Requests -> Session]
  BY DEF RelayInv, RelayTypeOK
<1>3. session' \in [Requests -> Session]
  BY <1>1, <1>2
<1>4. ASSUME NEW q \in Requests PROVE session'[q] = IF q = r THEN row ELSE session[q]
  BY <1>1, <1>2
<1>5. HoldsSome'
  BY <1>4 DEF HoldsSome, RelayInv, Amount
<1> QED
  BY <1>3, <1>5 DEF RelayInv, RelayTypeOK

\* The end of a session is a sound row.
LEMMA EndTyped ==
    ASSUME RelayInv, NEW r \in Requests, NEW outcome \in Outcomes
    PROVE  [session[r] EXCEPT !.at = "ended", !.outcome = outcome] \in Session
BY AmountsTyped DEF RelayInv, Session, Places

\* So is a session that moves on to its next call.
LEMMA GoToTyped ==
    ASSUME RelayInv, NEW r \in Requests, NEW place \in Places
    PROVE  /\ [session[r] EXCEPT !.at = place] \in Session
           /\ Amount([session[r] EXCEPT !.at = place]) = Amount(session[r])
BY AmountsTyped DEF RelayInv, Session, Amount

\* What a step leaves alone stays typed, and what it changes is changed by the
\* amounts of a session.
LEMMA CountersTyped ==
    ASSUME RelayInv
    PROVE  /\ quota \in Int /\ token \in Int
           /\ \A delta \in Int : /\ ProjectLegacyDelta(delta) => quota' \in Int
                                 /\ AdjustToken(delta) => token' \in Int
           /\ faults \subseteq Places /\ crashes \in 0 .. MaxCrashes
           /\ \A r \in Requests : Fault(r) => faults' \subseteq Places
           /\ Intact => faults' \subseteq Places
<1>1. \A r \in Requests : session[r].at \in Places
  BY AmountsTyped DEF RelayInv
<1> QED
  BY <1>1 DEF RelayInv, RelayTypeOK, ProjectLegacyDelta, AdjustToken, Fault, Intact

\* Ending a session, or moving it to a call that holds nothing new, keeps the
\* invariant.
LEMMA SessionMoves ==
    ASSUME RelayInv, NEW r \in Requests,
           \/ \E outcome \in Outcomes : End(r, outcome)
           \/ \E place \in Places \ {"token", "reserve", "project"} : GoTo(r, place)
           \/ At(r, "reserve") /\ GoTo(r, "project"),
           token' \in Int, quota' \in Int, faults' \subseteq Places,
           crashes' \in 0 .. MaxCrashes
    PROVE  RelayInv'
<1>1. ASSUME NEW outcome \in Outcomes, End(r, outcome) PROVE RelayInv'
  <2> DEFINE row == [session[r] EXCEPT !.at = "ended", !.outcome = outcome]
  <2>1. row \in Session
    BY EndTyped
  <2>2. row.at = "ended"
    BY <2>1, AmountsTyped DEF Session, RelayInv
  <2>3. Update(r, row)
    BY <1>1 DEF End
  <2> HIDE DEF row
  <2> QED
    BY <2>1, <2>2, <2>3, UpdateTyped
<1>2. ASSUME NEW place \in Places, GoTo(r, place),
             \/ place \notin {"token", "reserve", "project"}
             \/ session[r].at = "reserve"
      PROVE  RelayInv'
  <2> DEFINE row == [session[r] EXCEPT !.at = place]
  <2>1. row \in Session /\ Amount(row) = Amount(session[r])
    BY GoToTyped
  <2>2. row.at = place
    BY <2>1, AmountsTyped DEF Session, RelayInv
  <2>3. Update(r, row)
    BY <1>2 DEF GoTo
  <2>4. row.at \in {"token", "reserve", "project"} => Amount(row) > 0
    BY <1>2, <2>1, <2>2 DEF RelayInv, HoldsSome
  <2> HIDE DEF row
  <2> QED
    BY <2>1, <2>3, <2>4, UpdateTyped
<1>3. "project" \in Places
  BY DEF Places
<1> QED
  BY <1>1, <1>2, <1>3 DEF At

\* No request is open.
LEMMA RelayInvInit == RelayInit => RelayInv
<1> SUFFICES ASSUME RelayInit PROVE RelayInv
  OBVIOUS
<1>1. NewSession \in Session
  BY MaxAmountAssumption DEF NewSession, Session, Places, Outcomes
<1>2. session \in [Requests -> Session]
  BY <1>1 DEF RelayInit
<1>3. quota \in Int /\ token \in Int /\ faults \subseteq Places /\ crashes \in 0 .. MaxCrashes
  BY QuotaAssumption, BoundsAssumption, MaxAmountAssumption DEF RelayInit
<1>4. HoldsSome
  BY DEF RelayInit, HoldsSome, NewSession
<1> QED
  BY <1>2, <1>3, <1>4 DEF RelayInv, RelayTypeOK

\* Every step of the relay keeps sessions sound.
LEMMA RelayInvStep == RelayInv /\ [RelayNext]_relayVars => RelayInv'
<1> SUFFICES ASSUME RelayInv, [RelayNext]_relayVars PROVE RelayInv'
  OBVIOUS
<1>1. ASSUME UNCHANGED relay PROVE RelayInv'
  BY <1>1 DEF relay, RelayInv, RelayTypeOK, HoldsSome, Amount
<1>2. /\ {"untoken", "undo", "serving", "settle", "settleUndo", "settleToken",
          "refundProject", "release", "reproject", "refundToken"}
            \subseteq Places \ {"token", "reserve", "project"}
      /\ {"refused", "refunded", "settled", "short", "unsettled", "crashed"} \subseteq Outcomes
  BY DEF Places, Outcomes
<1>3. ASSUME NEW r \in Requests,
             \/ FundingRefused(r) \/ FundingRefunded(r)
             \/ \E outcome \in {"refused", "refunded", "settled", "short", "unsettled", "crashed"} :
                   End(r, outcome)
             \/ \E place \in {"untoken", "undo", "settle", "settleUndo", "settleToken",
                              "refundProject", "release", "reproject", "refundToken"} :
                   GoTo(r, place)
             \/ At(r, "reserve") /\ GoTo(r, "project"),
             token' \in Int, quota' \in Int, faults' \subseteq Places,
             crashes' \in 0 .. MaxCrashes
      PROVE  RelayInv'
  BY <1>2, <1>3, SessionMoves DEF FundingRefused, FundingRefunded
<1>4. /\ quota \in Int /\ token \in Int /\ faults \subseteq Places /\ crashes \in 0 .. MaxCrashes
      /\ \A r \in Requests : /\ Amount(session[r]) \in Int /\ -session[r].held \in Int
                             /\ session[r].held \in Int /\ -session[r].pre \in Int
                             /\ Delta(session[r]) \in Int /\ -Delta(session[r]) \in Int
  BY CountersTyped, AmountsTyped DEF RelayInv
<1>5. ASSUME NEW r \in Requests, NEW estimate \in 0 .. MaxAmount, RefuseSession(r, estimate)
      PROVE  RelayInv'
  BY <1>5, <1>3, <1>4 DEF RefuseSession
<1>6. ASSUME NEW r \in Requests, NEW estimate \in 0 .. MaxAmount, NEW trusted \in BOOLEAN,
             OpenSession(r, estimate, trusted)
      PROVE  RelayInv'
  <2> DEFINE row == [session[r] EXCEPT
                       !.estimate = estimate, !.trusted = trusted,
                       !.at = IF trusted \/ estimate = 0 THEN "serving" ELSE "token"]
  <2>1. row \in Session
    BY AmountsTyped DEF Session, Places, RelayInv
  <2>2. row.at \in {"token", "reserve", "project"} => Amount(row) > 0
    BY AmountsTyped DEF Session, Amount, RelayInv
  <2>3. Update(r, row)
    BY <1>6 DEF OpenSession
  <2>4. token' \in Int /\ quota' \in Int /\ faults' \subseteq Places /\ crashes' \in 0 .. MaxCrashes
    BY <1>6, <1>4 DEF OpenSession
  <2> HIDE DEF row
  <2> QED
    BY <2>1, <2>2, <2>3, <2>4, UpdateTyped
<1>7. ASSUME NEW r \in Requests, TakeToken(r) PROVE RelayInv'
  <2> DEFINE row == [session[r] EXCEPT
                       !.pre = Amount(session[r]),
                       !.at = IF session[r].trusted THEN "settle" ELSE "reserve"]
  <2>1. row \in Session
    BY AmountsTyped DEF Session, Places, RelayInv
  <2>2. Amount(row) > 0
    BY <1>7, AmountsTyped DEF TakeToken, At, Session, Amount, RelayInv, HoldsSome
  <2>3. Update(r, row)
    BY <1>7 DEF TakeToken
  <2>4. token' \in Int /\ quota' \in Int /\ faults' \subseteq Places /\ crashes' \in 0 .. MaxCrashes
    BY <1>7, <1>4, CountersTyped DEF TakeToken
  <2> HIDE DEF row
  <2> QED
    BY <2>1, <2>2, <2>3, <2>4, UpdateTyped
<1>8. ASSUME NEW r \in Requests, TokenRefused(r) PROVE RelayInv'
  BY <1>8, <1>3, <1>4, CountersTyped DEF TokenRefused
<1>9. ASSUME NEW r \in Requests, Reserve(r) PROVE RelayInv'
  BY <1>9, <1>3, <1>4, CountersTyped DEF Reserve
<1>10. ASSUME NEW r \in Requests, ReserveRefused(r) PROVE RelayInv'
  BY <1>10, <1>3, <1>4, CountersTyped DEF ReserveRefused
<1>11. ASSUME NEW r \in Requests, Project(r) PROVE RelayInv'
  <2> DEFINE row == [session[r] EXCEPT
                       !.held = Amount(session[r]),
                       !.at = IF session[r].trusted THEN "token" ELSE "serving"]
  <2>1. row \in Session
    BY AmountsTyped DEF Session, Places, RelayInv
  <2>2. Amount(row) > 0
    BY <1>11, AmountsTyped DEF Project, At, Session, Amount, RelayInv, HoldsSome
  <2>3. Update(r, row)
    BY <1>11 DEF Project
  <2>4. token' \in Int /\ quota' \in Int /\ faults' \subseteq Places /\ crashes' \in 0 .. MaxCrashes
    BY <1>11, <1>4, CountersTyped DEF Project
  <2> HIDE DEF row
  <2> QED
    BY <2>1, <2>2, <2>3, <2>4, UpdateTyped
<1>12. ASSUME NEW r \in Requests, ProjectFails(r) PROVE RelayInv'
  BY <1>12, <1>3, <1>4, CountersTyped DEF ProjectFails
<1>13. ASSUME NEW r \in Requests, Undo(r) PROVE RelayInv'
  BY <1>13, <1>3, <1>4, CountersTyped DEF Undo
<1>14. ASSUME NEW r \in Requests, Untoken(r) PROVE RelayInv'
  BY <1>14, <1>3, <1>4, CountersTyped DEF Untoken
<1>15. ASSUME NEW r \in Requests, UpstreamFails(r) PROVE RelayInv'
  BY <1>15, <1>3, <1>4, CountersTyped DEF UpstreamFails
<1>16. ASSUME NEW r \in Requests, NEW usage \in 0 .. MaxAmount, UpstreamServes(r, usage)
      PROVE  RelayInv'
  <2> DEFINE s == session[r]
             place == CASE s.trusted /\ usage > 0 -> "reserve"
                        [] ~s.trusted /\ s.held > 0 /\ usage # s.pre -> "settleProject"
                        [] ~s.trusted /\ s.held > 0 /\ usage = s.pre -> "settle"
                        [] OTHER -> "ended"
             row == [s EXCEPT !.usage = usage,
                              !.at = place,
                              !.outcome = IF place = "ended" THEN "unsettled" ELSE "none"]
  <2>1. place \in {"reserve", "settleProject", "settle", "ended"}
    OBVIOUS
  <2>2. place = "reserve" => s.trusted /\ usage > 0
    OBVIOUS
  <2>3. Update(r, row)
    BY <1>16 DEF UpstreamServes
  <2> HIDE DEF place
  <2>4. row \in Session
    BY <2>1, AmountsTyped DEF Session, Places, Outcomes, RelayInv
  <2>5. row.at = place /\ row.trusted = s.trusted /\ row.usage = usage
    BY <2>4, AmountsTyped DEF Session, RelayInv
  <2>6. row.at \in {"token", "reserve", "project"} => Amount(row) > 0
    BY <2>1, <2>2, <2>5 DEF Amount
  <2>7. token' \in Int /\ quota' \in Int /\ faults' \subseteq Places /\ crashes' \in 0 .. MaxCrashes
    BY <1>16, <1>4 DEF UpstreamServes
  <2> HIDE DEF row
  <2> QED
    BY <2>3, <2>4, <2>6, <2>7, UpdateTyped
<1>17. ASSUME NEW r \in Requests, SettleProject(r) PROVE RelayInv'
  BY <1>17, <1>3, <1>4, CountersTyped DEF SettleProject
<1>18. ASSUME NEW r \in Requests, Settle(r) PROVE RelayInv'
  BY <1>18, <1>3, <1>4, CountersTyped DEF Settle
<1>19. ASSUME NEW r \in Requests, SettleRefused(r) PROVE RelayInv'
  BY <1>19, <1>3, <1>4, CountersTyped DEF SettleRefused
<1>20. ASSUME NEW r \in Requests, SettleUndo(r) PROVE RelayInv'
  BY <1>20, <1>3, <1>4, CountersTyped DEF SettleUndo
<1>21. ASSUME NEW r \in Requests, SettleToken(r) PROVE RelayInv'
  BY <1>21, <1>3, <1>4, CountersTyped DEF SettleToken
<1>22. ASSUME NEW r \in Requests, RefundProject(r) PROVE RelayInv'
  BY <1>22, <1>3, <1>4, CountersTyped DEF RefundProject
<1>23. ASSUME NEW r \in Requests, Release(r) PROVE RelayInv'
  BY <1>23, <1>3, <1>4, CountersTyped DEF Release
<1>24. ASSUME NEW r \in Requests, Reproject(r) PROVE RelayInv'
  BY <1>24, <1>3, <1>4, CountersTyped DEF Reproject
<1>25. ASSUME NEW r \in Requests, RefundToken(r) PROVE RelayInv'
  BY <1>25, <1>3, <1>4, CountersTyped DEF RefundToken
<1>26. ASSUME NEW r \in Requests, Crash(r) PROVE RelayInv'
  <2>1. crashes' \in 0 .. MaxCrashes
    BY <1>26, <1>4, BoundsAssumption DEF Crash
  <2> QED
    BY <1>26, <2>1, <1>3, <1>4 DEF Crash
<1>27. ASSUME NEW r \in Requests, BeginReserve(r) \/ BeginUndo(r) \/ BeginSettle(r) \/ BeginRelease(r)
      PROVE  RelayInv'
  BY <1>27, <1>1 DEF BeginReserve, BeginUndo, BeginSettle, BeginRelease
<1> QED
  BY <1>1, <1>5, <1>6, <1>7, <1>8, <1>9, <1>10, <1>11, <1>12, <1>13, <1>14, <1>15, <1>16, <1>17, <1>18, <1>19, <1>20, <1>21, <1>22, <1>23, <1>24, <1>25, <1>26, <1>27
     DEF RelayNext, Proceed, Bootstrap, relayVars, relay

-----------------------------------------------------------------------------
(* Refinement: the ledger below the relay *)

\* Every step of the relay is a step of the ledger, or leaves it alone.
LEMMA RelayStepIsLedgerStep == RelayInv /\ [RelayNext]_relayVars => [Next]_vars
<1> SUFFICES ASSUME RelayInv, [RelayNext]_relayVars PROVE [Next]_vars
  OBVIOUS
<1>1. ASSUME NEW c \in Callers, NEW request \in Calls, BeginCall(c, request) PROVE Next
  BY <1>1 DEF Next
<1>2. ASSUME NEW c \in Callers, RollbackTx(c) PROVE Next
  BY <1>2 DEF Next
<1>3. /\ Sync \in Callers /\ Key(Sync, "bootstrap") \in Keys
      /\ Wallet \in Accounts /\ InitialQuota \in 1 .. MaxAmount
  BY RequestsAssumption, QuotaAssumption
<1>4. CASE UNCHANGED vars
  BY <1>4
<1>5. CASE Bootstrap
  <2>1. CreditCall(Key(Sync, "bootstrap"), Wallet, InitialQuota) \in Calls
    BY <1>3 DEF CreditCall, Calls
  <2> QED
    BY <1>1, <1>3, <1>5, <2>1 DEF Bootstrap, Next
<1>6. ASSUME NEW r \in Requests, BeginReserve(r) PROVE Next
  <2>1. session[r].at = "reserve"
    BY <1>6 DEF BeginReserve, At
  <2>2. BeginCall(r, ReserveCall(Key(r, "reserve"), Wallet, Amount(session[r])))
    BY <1>6 DEF BeginReserve
  <2> QED
    BY <1>1, <2>1, <2>2, CallsTyped
<1>7. ASSUME NEW r \in Requests, BeginUndo(r) \/ BeginSettle(r) \/ BeginRelease(r) PROVE Next
  BY <1>1, <1>7, CallsTyped DEF BeginUndo, BeginSettle, BeginRelease
<1>8. ASSUME NEW r \in Requests, Reserve(r) PROVE Next
  <2>1. session[r].at = "reserve"
    BY <1>8 DEF Reserve, At
  <2>2. Amount(session[r]) \in 1 .. MaxAmount /\ Key(r, "reserve") \in Keys
    BY <2>1, CallsTyped DEF Operations
  <2>3. CreateReservationTx(r, Key(r, "reserve"), Wallet, Amount(session[r]))
    BY <1>8 DEF Reserve
  <2> QED
    BY <1>3, <2>2, <2>3, CallsTyped DEF Next
<1>9. ASSUME NEW r \in Requests, NEW operation \in {"undo", "release"},
             ReleaseReservationTx(r, Key(r, operation), Key(r, "reserve"))
      PROVE  Next
  <2>1. Key(r, operation) \in Keys /\ Key(r, "reserve") \in Keys
    BY CallsTyped DEF Operations
  <2> QED
    BY <1>9, <2>1, CallsTyped DEF Next
<1>10. ASSUME NEW r \in Requests, Undo(r) \/ Release(r) PROVE Next
  BY <1>2, <1>9, <1>10, CallsTyped DEF Undo, Release
<1>11. ASSUME NEW r \in Requests, Settle(r) PROVE Next
  <2>1. Key(r, "settle") \in Keys /\ Key(r, "reserve") \in Keys
    BY CallsTyped DEF Operations
  <2>2. SettleReservationTx(r, Key(r, "settle"), Key(r, "reserve"), session[r].usage)
    BY <1>11 DEF Settle
  <2> QED
    BY <2>1, <2>2, CallsTyped DEF Next
<1>12. ASSUME NEW r \in Requests, ReserveRefused(r) \/ SettleRefused(r) PROVE Next
  BY <1>2, <1>12, CallsTyped DEF ReserveRefused, SettleRefused
<1>13. ASSUME NEW r \in Requests, Crash(r) PROVE Next \/ UNCHANGED vars
  BY <1>2, <1>13, CallsTyped DEF Crash
<1>14. ASSUME NEW r \in Requests,
              \/ TakeToken(r) \/ TokenRefused(r) \/ Project(r) \/ ProjectFails(r) \/ Untoken(r)
              \/ UpstreamFails(r) \/ \E usage \in 0 .. MaxAmount : UpstreamServes(r, usage)
              \/ SettleProject(r) \/ SettleUndo(r) \/ SettleToken(r)
              \/ RefundProject(r) \/ Reproject(r) \/ RefundToken(r)
       PROVE  UNCHANGED vars
  BY <1>14 DEF TakeToken, TokenRefused, Project, ProjectFails, Untoken, UpstreamFails,
               UpstreamServes, SettleProject, SettleUndo, SettleToken, RefundProject,
               Reproject, RefundToken
<1>15. ASSUME NEW r \in Requests, NEW estimate \in 0 .. MaxAmount, NEW trusted \in BOOLEAN,
              RefuseSession(r, estimate) \/ OpenSession(r, estimate, trusted)
       PROVE  UNCHANGED vars
  BY <1>15 DEF RefuseSession, OpenSession
<1> QED
  BY <1>4, <1>5, <1>6, <1>7, <1>8, <1>10, <1>11, <1>12, <1>13, <1>14, <1>15
     DEF RelayNext, Proceed, relayVars

\* Sessions are sound in every behaviour of the relay.
THEOREM RelayTypeCorrect == RelaySpec => []RelayTypeOK
<1>1. RelayInv => RelayTypeOK
  BY DEF RelayInv
<1> QED
  BY RelayInvInit, RelayInvStep, <1>1, PTL DEF RelaySpec

\* The relay implements the ledger: interleaved, failing and crashing requests
\* reach its tables through its operations alone, one at a time per request.
THEOREM RelayRefinesLedger == RelaySpec => ImplementsLedger
<1>1. RelayInit => Init
  BY DEF RelayInit
<1>2. RelayInv /\ [RelayNext]_relayVars => [Next]_vars
  BY RelayStepIsLedgerStep
<1> QED
  BY RelayInvInit, RelayInvStep, <1>1, <1>2, PTL DEF RelaySpec, ImplementsLedger, Spec

\* Hence no wallet is overdrawn by requests that settle for more than they held,
\* the balance explains every entry, and no request is charged and refunded.
THEOREM RelayKeepsLedgerSound ==
    RelaySpec => [](NoOverdraft /\ FundsConserved /\ BalanceChain /\ ClosedOnce)
BY RelayRefinesLedger, Solvency, Conservation, EntriesExplainBalance,
   ReservationsCloseOnce, PTL DEF ImplementsLedger

-----------------------------------------------------------------------------
(* What a request holds, where it stands *)

\* The reservation row of a request.
Row(r) == reservation[Key(r, "reserve")]

\* The request has no reservation yet ...
Unreserved(s) ==
    \/ s.at \in {"idle", "reserve"}
    \/ s.at = "token" /\ ~s.trusted
    \/ s.at = "serving" /\ s.held = 0

\* ... or holds one that is open.
Holds(s) ==
    \/ s.at \in {"project", "undo", "settleProject", "settle", "settleUndo",
                 "refundProject", "release", "reproject"}
    \/ s.at = "token" /\ s.trusted
    \/ s.at = "serving" /\ s.held > 0

\* What an open reservation of the session holds.
HeldBy(s) == IF s.at \in {"project", "undo"} THEN Amount(s) ELSE s.held

\* What the fields of a session say at each place.  Before it settles, a session
\* has taken from the token what it holds, except a trusted one, which takes
\* from the token last.
SessionSound(s) ==
    /\ s.outcome = "none" <=> s.at # "ended"
    /\ s.at = "idle" => s.pre = 0 /\ s.held = 0 /\ ~s.trusted
    /\ s.at = "token" => s.pre = 0 /\ s.held = (IF s.trusted THEN s.usage ELSE 0)
    /\ s.at \in {"reserve", "project", "undo"} =>
          s.pre = (IF s.trusted THEN 0 ELSE s.estimate) /\ s.held = 0
    /\ s.at \in {"untoken", "refundToken", "settleProject", "settleUndo", "settleToken"} => ~s.trusted
    /\ s.at = "serving" => s.pre = s.held /\ (s.trusted => s.held = 0)
    /\ s.at \in {"settleProject", "settle", "settleUndo", "settleToken"} => s.pre = s.held
    /\ s.at = "settle" /\ s.trusted => s.pre = s.usage
    /\ s.at \in {"refundProject", "release", "reproject"} =>
          s.pre = IF s.trusted THEN 0 ELSE s.held

\* The request was settled for what it used.
SettledFor(r) ==
    /\ Row(r).status = "settled"
    /\ \E s \in settlement : s.reservation = Key(r, "reserve") /\ s.actual = session[r].usage

\* The reservation of a request, where the request stands.
RowAgrees(r) ==
    LET s == session[r]
    IN  /\ Unreserved(s) => Row(r).status = "absent"
        /\ Holds(s) => Row(r).status = "open" /\ Row(r).account = Wallet
                        /\ Row(r).amount = HeldBy(s)
        /\ s.at = "settleToken" \/ s.outcome \in {"settled", "short"} => SettledFor(r)
        /\ faults = {} /\ (s.at \in {"untoken", "refundToken"}
                           \/ s.outcome \in {"refused", "refunded"})
              => Row(r).status \in {"absent", "released"}
        /\ s.at = "reproject" => "release" \in faults

\* Every session is sound and agrees with the row of its reservation.
RowsInv == \A r \in Requests : SessionSound(session[r]) /\ RowAgrees(r)

\* What the legacy column still has more than the ledger because of a request.
Drift(s) ==
    CASE s.at \in {"project", "undo"} -> Amount(s)
      [] s.at \in {"release", "reproject"} -> s.held
      [] s.at \in {"settle", "settleUndo"} -> -Delta(s)
      [] OTHER -> 0

\* What the token was charged for a request more than the wallet.
TokenDrift(s) ==
    CASE s.at \in {"reserve", "untoken", "refundToken"} -> s.pre
      [] s.at \in {"project", "undo"} -> s.pre - Amount(s)
      [] s.at \in {"token", "refundProject", "release", "reproject"} -> s.pre - s.held
      [] s.at = "settleToken" -> -Delta(s)
      [] OTHER -> 0

\* Both, for every request.
Drifts == [r \in Requests |-> Drift(session[r])]
TokenDrifts == [r \in Requests |-> TokenDrift(session[r])]

\* The wallet is credited once, and no request starts before that.
BootInv ==
    \/ /\ snapshot[Wallet] = EmptySnapshot
       /\ session = [r \in Requests |-> NewSession]
       /\ quota = InitialQuota /\ token = 0
    \/ /\ snapshot[Wallet].granted > 0
       /\ outbox[Key(Sync, "bootstrap")].type # "none"

\* Nothing kept the legacy column from being repaired: every request takes its
\* share of the difference between the two balances back before it ends.
LegacyRepaired == crashes = 0 /\ faults \cap {"undo", "settleUndo", "reproject"} = {}

LegacyInv ==
    Bootstrapped /\ LegacyRepaired => quota = snapshot[Wallet].available + SumFunction(Drifts)

\* The same for the quota of the token.
TokenRepaired ==
    /\ crashes = 0
    /\ faults \cap {"undo", "untoken", "refundProject", "release", "refundToken"} = {}
    /\ ~Short

TokenWalletInv ==
    Bootstrapped /\ TokenRepaired =>
        token = snapshot[Wallet].consumed + snapshot[Wallet].reserved + SumFunction(TokenDrifts)

\* The invariant behind the agreement of the three books at rest.
MirrorInv == RowsInv /\ BootInv /\ LegacyInv /\ TokenWalletInv

-----------------------------------------------------------------------------
(* What the ledger does for a request *)

\* Events are never taken back.
EventsKept == \A k \in Keys : outbox[k].type # "none" => outbox'[k].type # "none"

\* The wallet's balance moves by the four amounts.
WalletMoves(available, reserved, consumed, granted) ==
    /\ snapshot'[Wallet].available = snapshot[Wallet].available + available
    /\ snapshot'[Wallet].reserved = snapshot[Wallet].reserved + reserved
    /\ snapshot'[Wallet].consumed = snapshot[Wallet].consumed + consumed
    /\ snapshot'[Wallet].granted = snapshot[Wallet].granted + granted

\* The balances of the wallet are integers.
LEMMA WalletTyped ==
    ASSUME TypeOK
    PROVE  /\ Wallet \in Accounts /\ snapshot[Wallet] \in Snapshot
           /\ snapshot[Wallet].available \in Int /\ snapshot[Wallet].reserved \in Int
           /\ snapshot[Wallet].consumed \in Int /\ snapshot[Wallet].granted \in Int
BY RequestsAssumption DEF TypeOK, Snapshot

\* Writing the wallet's row moves its balance.
LEMMA WalletWritten ==
    ASSUME TypeOK, NEW available \in Int, NEW reserved \in Int, NEW consumed \in Int,
           NEW refunded \in Int, NEW granted \in Int,
           snapshot' = [snapshot EXCEPT ![Wallet] =
                          Moved(snapshot[Wallet], available, reserved, consumed, refunded, granted)]
    PROVE  WalletMoves(available, reserved, consumed, granted)
<1>1. snapshot'[Wallet] = Moved(snapshot[Wallet], available, reserved, consumed, refunded, granted)
  BY WalletTyped DEF TypeOK
<1> QED
  BY <1>1 DEF WalletMoves, Moved

\* Recording an event takes none back.
LEMMA RecordKeeps ==
    ASSUME TypeOK, NEW k \in Keys, NEW type \in EventTypes, NEW a, Record(k, type, a)
    PROVE  EventsKept /\ outbox'[k].type = type
BY DEF Record, TypeOK, EventsKept, EventTypes

\* A reservation that is opened.
LEMMA ReserveEffect ==
    ASSUME TypeOK, NEW c, NEW k \in Keys, NEW n \in 1 .. MaxAmount,
           CreateReservationTx(c, k, Wallet, n)
    PROVE  /\ reservation'[k].status = "open" /\ reservation'[k].account = Wallet
           /\ reservation'[k].amount = n
           /\ \A j \in Keys \ {k} : reservation'[j] = reservation[j]
           /\ settlement' = settlement /\ EventsKept
           /\ WalletMoves(-n, n, 0, 0)
<1>1. EventsKept
  BY RecordKeeps DEF CreateReservationTx, EventTypes
<1>2. n \in Int /\ -n \in Int /\ 0 \in Int
  BY MaxAmountAssumption
<1>3. snapshot' = [snapshot EXCEPT ![Wallet] = Held(snapshot[Wallet], n)]
  BY DEF CreateReservationTx
<1>4. WalletMoves(-n, n, 0, 0)
  BY <1>2, <1>3, WalletWritten, Zenon DEF Held
<1>5. reservation' = [reservation EXCEPT ![k] =
                        [account |-> Wallet, amount |-> n, status |-> "open"]]
      /\ settlement' = settlement
  BY DEF CreateReservationTx
<1> QED
  BY <1>1, <1>4, <1>5 DEF TypeOK

\* A reservation that is closed keeps its row but for the status.
LEMMA ClosedRow ==
    ASSUME TypeOK, NEW k \in Keys, NEW status, SetStatus(k, status), IsOpen(k)
    PROVE  /\ reservation'[k].status = status
           /\ \A j \in Keys \ {k} : reservation'[j] = reservation[j]
<1>1. reservation[k] \in [account : Accounts, amount : 1 .. MaxAmount, status : Status]
  BY DEF TypeOK, Reservation, NoReservation, IsOpen
<1> QED
  BY <1>1 DEF SetStatus, TypeOK

\* A reservation of the wallet that is released.
LEMMA ReleaseEffect ==
    ASSUME TypeOK, NEW c, NEW k \in Keys, NEW t \in Keys, ReleaseReservationTx(c, k, t),
           reservation[t].account = Wallet
    PROVE  /\ reservation'[t].status = "released"
           /\ \A j \in Keys \ {t} : reservation'[j] = reservation[j]
           /\ settlement' = settlement /\ EventsKept
           /\ WalletMoves(reservation[t].amount, -reservation[t].amount, 0, 0)
<1> DEFINE n == reservation[t].amount
<1>1. EventsKept
  BY RecordKeeps DEF ReleaseReservationTx, EventTypes
<1>2. n \in Int /\ -n \in Int /\ 0 \in Int
  BY ReservationFields, MaxAmountAssumption
<1>3. snapshot' = [snapshot EXCEPT ![Wallet] = Unheld(snapshot[Wallet], n)]
  BY DEF ReleaseReservationTx
<1>4. WalletMoves(n, -n, 0, 0)
  <2> HIDE DEF n
  <2> QED
    BY <1>2, <1>3, WalletWritten, Zenon DEF Unheld
<1>5. SetStatus(t, "released") /\ IsOpen(t) /\ settlement' = settlement
  BY DEF ReleaseReservationTx
<1> QED
  BY <1>1, <1>4, <1>5, ClosedRow

\* A reservation of the wallet that is settled.
LEMMA SettleEffect ==
    ASSUME TypeOK, NEW c, NEW k \in Keys, NEW t \in Keys, NEW actual \in 0 .. MaxAmount,
           SettleReservationTx(c, k, t, actual), reservation[t].account = Wallet
    PROVE  /\ reservation'[t].status = "settled"
           /\ \A j \in Keys \ {t} : reservation'[j] = reservation[j]
           /\ settlement \subseteq settlement' /\ EventsKept
           /\ \E s \in settlement' : s.reservation = t /\ s.actual = actual
           /\ WalletMoves(reservation[t].amount - actual, -reservation[t].amount, actual, 0)
<1> DEFINE n == reservation[t].amount
<1>1. EventsKept
  BY RecordKeeps DEF SettleReservationTx, EventTypes
<1>2. n \in Int /\ actual \in Int
  BY ReservationFields, MaxAmountAssumption
<1>3. snapshot' = [snapshot EXCEPT ![Wallet] = Settled(snapshot[Wallet], n, actual)]
  BY DEF SettleReservationTx
<1>4. WalletMoves(n - actual, -n, actual, 0)
  <2> DEFINE refund == IF actual < n THEN n - actual ELSE 0
  <2>1. snapshot' = [snapshot EXCEPT ![Wallet] =
                       Moved(snapshot[Wallet], n - actual, -n, actual, refund, 0)]
    BY <1>3 DEF Settled
  <2>2. n - actual \in Int /\ -n \in Int /\ refund \in Int /\ 0 \in Int
    <3> HIDE DEF n
    <3> QED
      BY <1>2
  <2> HIDE DEF n, refund
  <2> QED
    BY <1>2, <2>1, <2>2, WalletWritten, Zenon
<1>5. SetStatus(t, "settled") /\ IsOpen(t)
  BY DEF SettleReservationTx
<1>6. settlement' = settlement \cup {[reservation |-> t, key |-> k, actual |-> actual,
                                     delta |-> actual - n]}
  BY DEF SettleReservationTx
<1>7. \E s \in settlement' : s.reservation = t /\ s.actual = actual
  <2> DEFINE s == [reservation |-> t, key |-> k, actual |-> actual, delta |-> actual - n]
  <2>1. s \in settlement'
    BY <1>6
  <2>2. s.reservation = t /\ s.actual = actual
    OBVIOUS
  <2> QED
    BY <2>1, <2>2, Zenon
<1>8. settlement \subseteq settlement'
  BY <1>6
<1>9. /\ reservation'[t].status = "settled"
      /\ \A j \in Keys \ {t} : reservation'[j] = reservation[j]
  BY <1>5, ClosedRow
<1> HIDE DEF n
<1> QED
  BY <1>1, <1>4, <1>7, <1>8, <1>9 DEF n

-----------------------------------------------------------------------------
(* What a step of a request changes *)

\* The other requests and their reservations, and all that only grows.
Frame(r) ==
    /\ \A q \in Requests \ {r} : session'[q] = session[q] /\ Row(q)' = Row(q)
    /\ settlement \subseteq settlement'
    /\ EventsKept
    /\ snapshot'[Wallet].granted = snapshot[Wallet].granted
    /\ faults \subseteq faults'
    /\ crashes' = 0 => crashes = 0

\* The request itself stays in agreement with its reservation.
Agrees(r) == SessionSound(session'[r]) /\ RowAgrees(r)'

\* What separates the two balances is the share of the request, before and after.
LegacyLevel(r) ==
    LegacyRepaired' =>
        quota' - snapshot'[Wallet].available - Drift(session'[r])
            = quota - snapshot[Wallet].available - Drift(session[r])

\* The same for the token.
TokenLevel(r) ==
    TokenRepaired' =>
        token' - snapshot'[Wallet].consumed - snapshot'[Wallet].reserved - TokenDrift(session'[r])
            = token - snapshot[Wallet].consumed - snapshot[Wallet].reserved - TokenDrift(session[r])

\* What one step of a request owes to the three books.
Moves(r) == Frame(r) /\ Agrees(r) /\ LegacyLevel(r) /\ TokenLevel(r)

\* No other request takes part in it.
OthersKept(r) == \A q \in Requests \ {r} : session'[q] = session[q]

\* The session of the request moves on, with its usage and what it took and holds.
Becomes(r, place, outcome, usage, pre, held) ==
    /\ session'[r].at = place /\ session'[r].outcome = outcome
    /\ session'[r].usage = usage /\ session'[r].pre = pre /\ session'[r].held = held
    /\ session'[r].estimate = session[r].estimate
    /\ session'[r].trusted = session[r].trusted

\* ... or only its place and outcome change.
Kept(r, place, outcome) ==
    Becomes(r, place, outcome, session[r].usage, session[r].pre, session[r].held)

\* Nothing happens in the tables that matter to a request.
LedgerQuiet == UNCHANGED <<snapshot, reservation, settlement, outbox>>

\* The session that a step writes.
LEMMA Updated ==
    ASSUME RelayInv, NEW r \in Requests, NEW row, Update(r, row)
    PROVE  session'[r] = row /\ OthersKept(r)
BY DEF RelayInv, RelayTypeOK, Update, OthersKept

\* A session that goes elsewhere keeps its outcome and its amounts.
LEMMA GoToKeeps ==
    ASSUME RelayInv, NEW r \in Requests, NEW place, GoTo(r, place)
    PROVE  Kept(r, place, session[r].outcome) /\ OthersKept(r)
<1>1. session'[r] = [session[r] EXCEPT !.at = place] /\ OthersKept(r)
  BY Updated DEF GoTo
<1> QED
  BY <1>1, AmountsTyped DEF RelayInv, Session, Kept, Becomes

\* A session that ends keeps its amounts.
LEMMA EndKeeps ==
    ASSUME RelayInv, NEW r \in Requests, NEW outcome, End(r, outcome)
    PROVE  Kept(r, "ended", outcome) /\ OthersKept(r)
<1>1. /\ session'[r] = [session[r] EXCEPT !.at = "ended", !.outcome = outcome]
      /\ OthersKept(r)
  BY Updated DEF End
<1> QED
  BY <1>1, AmountsTyped DEF RelayInv, Session, Kept, Becomes

\* The shares of a session by its place.
LEMMA DriftByPlace ==
    ASSUME NEW s
    PROVE  /\ s.at \in {"project", "undo"} => Drift(s) = Amount(s) /\ TokenDrift(s) = s.pre - Amount(s)
           /\ s.at \in {"release", "reproject"} => Drift(s) = s.held /\ TokenDrift(s) = s.pre - s.held
           /\ s.at \in {"settle", "settleUndo"} => Drift(s) = -Delta(s) /\ TokenDrift(s) = 0
           /\ s.at \in {"reserve", "untoken", "refundToken"} => Drift(s) = 0 /\ TokenDrift(s) = s.pre
           /\ s.at \in {"token", "refundProject"} => Drift(s) = 0 /\ TokenDrift(s) = s.pre - s.held
           /\ s.at = "settleToken" => Drift(s) = 0 /\ TokenDrift(s) = -Delta(s)
           /\ s.at \in {"idle", "serving", "settleProject", "ended"} => Drift(s) = 0 /\ TokenDrift(s) = 0
BY DEF Drift, TokenDrift

\* The key of a reservation belongs to one request.
LEMMA KeysApart ==
    ASSUME NEW r \in Requests
    PROVE  /\ Key(r, "reserve") \in Keys
           /\ \A q \in Requests \ {r} : /\ Key(q, "reserve") \in Keys
                                        /\ Key(q, "reserve") # Key(r, "reserve")
BY RequestsAssumption DEF Key, Operations

\* When the ledger is quiet nothing but the request changes.
LEMMA QuietFrame ==
    ASSUME LedgerQuiet, NEW r, OthersKept(r), faults \subseteq faults', crashes' = 0 => crashes = 0
    PROVE  /\ Frame(r)
           /\ Row(r)' = Row(r)
           /\ snapshot' = snapshot /\ settlement' = settlement
BY DEF LedgerQuiet, OthersKept, Frame, Row, EventsKept

\* Failed calls are not forgotten.
LEMMA FaultsGrow == \A r : Fault(r) \/ Intact => faults \subseteq faults'
BY DEF Fault, Intact

\* What is known of a request before a step.
LEMMA RequestKnown ==
    ASSUME RelayInv, TypeOK, RowsInv, NEW r \in Requests
    PROVE  /\ SessionSound(session[r]) /\ RowAgrees(r)
           /\ session[r].usage \in Int /\ session[r].pre \in Int /\ session[r].held \in Int
           /\ session[r].estimate \in Int /\ session[r].usage >= 0 /\ session[r].held >= 0
           /\ session[r].trusted \in BOOLEAN
           /\ Amount(session[r]) \in Int
           /\ quota \in Int /\ token \in Int
           /\ snapshot[Wallet].available \in Int
           /\ snapshot[Wallet].consumed \in Int /\ snapshot[Wallet].reserved \in Int
BY AmountsTyped, CountersTyped, WalletTyped DEF RowsInv, RelayInv

\* A step that ends a request, or moves it on, and does nothing else.
LEMMA PlainMove ==
    ASSUME RelayInv, TypeOK, RowsInv, NEW r \in Requests, OthersKept(r), LedgerQuiet,
           faults \subseteq faults', crashes' = 0 => crashes = 0,
           quota' = quota, token' = token,
           Agrees(r),
           LegacyRepaired' => Drift(session'[r]) = Drift(session[r]),
           TokenRepaired' => TokenDrift(session'[r]) = TokenDrift(session[r])
    PROVE  Moves(r)
<1>1. Frame(r) /\ snapshot' = snapshot
  BY QuietFrame
<1> QED
  BY <1>1, RequestKnown DEF Moves, LegacyLevel, TokenLevel

\* The shares of a session are integers.
LEMMA SharesTyped ==
    ASSUME NEW s \in Session
    PROVE  Drift(s) \in Int /\ TokenDrift(s) \in Int
<1>1. s.at \in Places /\ s.pre \in Int /\ s.held \in Int /\ s.usage \in Int /\ Amount(s) \in Int
  BY MaxAmountAssumption DEF Session, Amount
<1> QED
  BY <1>1, DriftByPlace DEF Places, Delta

\* A request's share of a difference is an integer.
LEMMA DriftTyped ==
    ASSUME RelayInv, NEW r \in Requests
    PROVE  Drift(session[r]) \in Int /\ TokenDrift(session[r]) \in Int
BY AmountsTyped, SharesTyped DEF RelayInv

\* A step that also changes the legacy column or the quota of the token.
LEMMA CounterMove ==
    ASSUME RelayInv, TypeOK, RowsInv, NEW r \in Requests, OthersKept(r), LedgerQuiet,
           faults \subseteq faults', crashes' = 0 => crashes = 0,
           quota' \in Int, token' \in Int,
           Agrees(r),
           LegacyRepaired' => Drift(session'[r]) = Drift(session[r]) + (quota' - quota),
           TokenRepaired' => TokenDrift(session'[r]) = TokenDrift(session[r]) + (token' - token)
    PROVE  Moves(r)
<1>1. Frame(r) /\ snapshot' = snapshot
  BY QuietFrame
<1>2. LegacyLevel(r)
  BY <1>1, RequestKnown, DriftTyped DEF LegacyLevel
<1>3. TokenLevel(r)
  BY <1>1, RequestKnown, DriftTyped DEF TokenLevel
<1> QED
  BY <1>1, <1>2, <1>3 DEF Moves

\* tryWallet refuses the request.
LEMMA RefuseMoves ==
    ASSUME RelayInv, TypeOK, RowsInv, NEW r \in Requests, NEW estimate, RefuseSession(r, estimate)
    PROVE  Moves(r)
<1>1. /\ Kept(r, "ended", "refused") /\ OthersKept(r)
      /\ LedgerQuiet /\ quota' = quota /\ token' = token /\ faults' = faults /\ crashes' = crashes
  BY EndKeeps DEF RefuseSession, vars, ledger, LedgerQuiet
<1>2. session[r].at = "idle"
  BY DEF RefuseSession, At
<1>3. Row(r)' = Row(r) /\ settlement' = settlement
  BY <1>1 DEF LedgerQuiet, Row
<1>4. SessionSound(session'[r])
  BY <1>1 DEF Kept, Becomes, SessionSound
<1>5. RowAgrees(r)'
  BY <1>1, <1>2, <1>3, RequestKnown DEF Kept, Becomes, RowAgrees, Unreserved, Holds
<1>6. Drift(session'[r]) = Drift(session[r]) /\ TokenDrift(session'[r]) = TokenDrift(session[r])
  BY <1>1, <1>2, DriftByPlace DEF Kept, Becomes
<1> QED
  BY <1>1, <1>4, <1>5, <1>6, PlainMove DEF Agrees

\* The token refuses to pay.
LEMMA TokenRefusedMoves ==
    ASSUME RelayInv, TypeOK, RowsInv, NEW r \in Requests, TokenRefused(r)
    PROVE  Moves(r)
<1>1. \/ session[r].trusted /\ Kept(r, "refundProject", session[r].outcome)
      \/ ~session[r].trusted /\ Kept(r, "ended", "refused")
  BY GoToKeeps, EndKeeps DEF TokenRefused
<1>2. /\ OthersKept(r) /\ LedgerQuiet /\ quota' = quota /\ token' = token
      /\ crashes' = crashes /\ faults' = faults
  BY GoToKeeps, EndKeeps, FaultsGrow DEF TokenRefused, RollbackTx, vars, ledger, LedgerQuiet, At, Fault
<1>3. session[r].at = "token"
  BY DEF TokenRefused, At
<1>4. Row(r)' = Row(r) /\ settlement' = settlement
  BY <1>2 DEF LedgerQuiet, Row
<1>5. SessionSound(session'[r])
  BY <1>1, <1>3, RequestKnown DEF Kept, Becomes, SessionSound
<1>6. RowAgrees(r)'
  BY <1>1, <1>2, <1>3, <1>4, RequestKnown
     DEF Kept, Becomes, SessionSound, RowAgrees, Unreserved, Holds, HeldBy, SettledFor, Amount
<1>7. /\ LegacyRepaired' => Drift(session'[r]) = Drift(session[r])
      /\ TokenRepaired' => TokenDrift(session'[r]) = TokenDrift(session[r])
  BY <1>1, <1>2, <1>3, RequestKnown, DriftByPlace
     DEF Kept, Becomes, SessionSound, Amount, Delta, LegacyRepaired, TokenRepaired
<1> QED
  BY <1>1, <1>2, <1>5, <1>6, <1>7, PlainMove DEF Agrees

\* The ledger refuses the reservation, or its call fails.
LEMMA ReserveRefusedMoves ==
    ASSUME RelayInv, TypeOK, RowsInv, NEW r \in Requests, ReserveRefused(r)
    PROVE  Moves(r)
<1>1. \/ session[r].trusted /\ Kept(r, "ended", "unsettled")
      \/ ~session[r].trusted /\ Kept(r, "untoken", session[r].outcome)
  BY GoToKeeps, EndKeeps DEF ReserveRefused, FundingRefused
<1>2. /\ OthersKept(r) /\ LedgerQuiet /\ quota' = quota /\ token' = token
      /\ crashes' = crashes /\ faults \subseteq faults'
  BY GoToKeeps, EndKeeps, FaultsGrow DEF ReserveRefused, FundingRefused, RollbackTx, vars, ledger, LedgerQuiet, At, Fault
<1>3. session[r].at = "reserve"
  BY DEF ReserveRefused, At
<1>4. Row(r)' = Row(r) /\ settlement' = settlement
  BY <1>2 DEF LedgerQuiet, Row
<1>5. SessionSound(session'[r])
  BY <1>1, <1>3, RequestKnown DEF Kept, Becomes, SessionSound
<1>6. RowAgrees(r)'
  BY <1>1, <1>2, <1>3, <1>4, RequestKnown
     DEF Kept, Becomes, SessionSound, RowAgrees, Unreserved, Holds, HeldBy, SettledFor, Amount
<1>7. /\ LegacyRepaired' => Drift(session'[r]) = Drift(session[r])
      /\ TokenRepaired' => TokenDrift(session'[r]) = TokenDrift(session[r])
  BY <1>1, <1>2, <1>3, RequestKnown, DriftByPlace
     DEF Kept, Becomes, SessionSound, Amount, Delta, LegacyRepaired, TokenRepaired
<1> QED
  BY <1>1, <1>2, <1>5, <1>6, <1>7, PlainMove DEF Agrees

\* The legacy column cannot be changed.
LEMMA ProjectFailsMoves ==
    ASSUME RelayInv, TypeOK, RowsInv, NEW r \in Requests, ProjectFails(r)
    PROVE  Moves(r)
<1>1. Kept(r, "undo", session[r].outcome)
  BY GoToKeeps, EndKeeps DEF ProjectFails
<1>2. /\ OthersKept(r) /\ LedgerQuiet /\ quota' = quota /\ token' = token
      /\ crashes' = crashes /\ faults \subseteq faults'
  BY GoToKeeps, EndKeeps, FaultsGrow DEF ProjectFails, RollbackTx, vars, ledger, LedgerQuiet, At, Fault
<1>3. session[r].at = "project"
  BY DEF ProjectFails, At
<1>4. Row(r)' = Row(r) /\ settlement' = settlement
  BY <1>2 DEF LedgerQuiet, Row
<1>5. SessionSound(session'[r])
  BY <1>1, <1>3, RequestKnown DEF Kept, Becomes, SessionSound
<1>6. RowAgrees(r)'
  BY <1>1, <1>2, <1>3, <1>4, RequestKnown
     DEF Kept, Becomes, SessionSound, RowAgrees, Unreserved, Holds, HeldBy, SettledFor, Amount
<1>7. /\ LegacyRepaired' => Drift(session'[r]) = Drift(session[r])
      /\ TokenRepaired' => TokenDrift(session'[r]) = TokenDrift(session[r])
  BY <1>1, <1>2, <1>3, RequestKnown, DriftByPlace
     DEF Kept, Becomes, SessionSound, Amount, Delta, LegacyRepaired, TokenRepaired
<1> QED
  BY <1>1, <1>2, <1>5, <1>6, <1>7, PlainMove DEF Agrees

\* Every channel failed.
LEMMA UpstreamFailsMoves ==
    ASSUME RelayInv, TypeOK, RowsInv, NEW r \in Requests, UpstreamFails(r)
    PROVE  Moves(r)
<1>1. \/ session[r].pre > 0 /\ Kept(r, "refundProject", session[r].outcome)
      \/ ~(session[r].pre > 0) /\ Kept(r, "ended", "refunded")
  BY GoToKeeps, EndKeeps DEF UpstreamFails, NeedsRefund
<1>2. /\ OthersKept(r) /\ LedgerQuiet /\ quota' = quota /\ token' = token
      /\ crashes' = crashes /\ faults' = faults
  BY GoToKeeps, EndKeeps, FaultsGrow DEF UpstreamFails, NeedsRefund, RollbackTx, vars, ledger, LedgerQuiet, At, Fault
<1>3. session[r].at = "serving"
  BY DEF UpstreamFails, At
<1>4. Row(r)' = Row(r) /\ settlement' = settlement
  BY <1>2 DEF LedgerQuiet, Row
<1>5. SessionSound(session'[r])
  BY <1>1, <1>3, RequestKnown DEF Kept, Becomes, SessionSound
<1>6. RowAgrees(r)'
  BY <1>1, <1>2, <1>3, <1>4, RequestKnown
     DEF Kept, Becomes, SessionSound, RowAgrees, Unreserved, Holds, HeldBy, SettledFor, Amount
<1>7. /\ LegacyRepaired' => Drift(session'[r]) = Drift(session[r])
      /\ TokenRepaired' => TokenDrift(session'[r]) = TokenDrift(session[r])
  BY <1>1, <1>2, <1>3, RequestKnown, DriftByPlace
     DEF Kept, Becomes, SessionSound, Amount, Delta, LegacyRepaired, TokenRepaired
<1> QED
  BY <1>1, <1>2, <1>5, <1>6, <1>7, PlainMove DEF Agrees

\* The ledger refuses the settlement, or its call fails.
LEMMA SettleRefusedMoves ==
    ASSUME RelayInv, TypeOK, RowsInv, NEW r \in Requests, SettleRefused(r)
    PROVE  Moves(r)
<1>1. \/ Delta(session[r]) # 0 /\ Kept(r, "settleUndo", session[r].outcome)
      \/ Delta(session[r]) = 0 /\ Kept(r, "ended", "unsettled")
  BY GoToKeeps, EndKeeps DEF SettleRefused
<1>2. /\ OthersKept(r) /\ LedgerQuiet /\ quota' = quota /\ token' = token
      /\ crashes' = crashes /\ faults \subseteq faults'
  BY GoToKeeps, EndKeeps, FaultsGrow DEF SettleRefused, RollbackTx, vars, ledger, LedgerQuiet, At, Fault
<1>3. session[r].at = "settle"
  BY DEF SettleRefused, At
<1>4. Row(r)' = Row(r) /\ settlement' = settlement
  BY <1>2 DEF LedgerQuiet, Row
<1>5. SessionSound(session'[r])
  BY <1>1, <1>3, RequestKnown DEF Kept, Becomes, SessionSound, Delta
<1>6. RowAgrees(r)'
  BY <1>1, <1>2, <1>3, <1>4, RequestKnown
     DEF Kept, Becomes, SessionSound, RowAgrees, Unreserved, Holds, HeldBy, SettledFor, Amount, Delta
<1>7. /\ LegacyRepaired' => Drift(session'[r]) = Drift(session[r])
      /\ TokenRepaired' => TokenDrift(session'[r]) = TokenDrift(session[r])
  BY <1>1, <1>2, <1>3, RequestKnown, DriftByPlace
     DEF Kept, Becomes, SessionSound, Amount, Delta, LegacyRepaired, TokenRepaired
<1> QED
  BY <1>1, <1>2, <1>5, <1>6, <1>7, PlainMove DEF Agrees

\* preConsume gives the token its quota back, or fails to.
LEMMA UntokenMoves ==
    ASSUME RelayInv, TypeOK, RowsInv, NEW r \in Requests, Untoken(r)
    PROVE  Moves(r)
<1>1. session[r].at = "untoken"
  BY DEF Untoken, At
<1>2. \/ Kept(r, "ended", "refused") /\ token' = token - session[r].pre
      \/ Kept(r, "ended", "refused") /\ token' = token /\ "untoken" \in faults'
  BY <1>1, GoToKeeps, EndKeeps DEF Untoken, Fault, Intact, ProjectLegacyDelta, AdjustToken
<1>3. /\ OthersKept(r) /\ LedgerQuiet /\ crashes' = crashes /\ faults \subseteq faults' /\ quota' = quota
  BY GoToKeeps, EndKeeps, FaultsGrow DEF Untoken, vars, ledger, LedgerQuiet
<1>4. Row(r)' = Row(r) /\ settlement' = settlement
  BY <1>3 DEF LedgerQuiet, Row
<1>5. SessionSound(session'[r])
  BY <1>1, <1>2, RequestKnown DEF Kept, Becomes, SessionSound
<1>6. RowAgrees(r)'
  BY <1>1, <1>2, <1>3, <1>4, RequestKnown
     DEF Kept, Becomes, SessionSound, RowAgrees, Unreserved, Holds, HeldBy, SettledFor, Amount
<1>7. quota' \in Int /\ token' \in Int
  BY <1>2, <1>3, RequestKnown DEF Delta
<1>8. LegacyRepaired' => Drift(session'[r]) = Drift(session[r]) + (quota' - quota)
  BY <1>1, <1>2, <1>3, RequestKnown, DriftByPlace
     DEF Kept, Becomes, SessionSound, Amount, Delta, LegacyRepaired
<1>9. TokenRepaired' => TokenDrift(session'[r]) = TokenDrift(session[r]) + (token' - token)
  BY <1>1, <1>2, <1>3, RequestKnown, DriftByPlace
     DEF Kept, Becomes, SessionSound, RowAgrees, Amount, Delta, TokenRepaired, Short
<1> QED
  BY <1>3, <1>5, <1>6, <1>7, <1>8, <1>9, CounterMove DEF Agrees

\* Settle changes the legacy column first.
LEMMA SettleProjectMoves ==
    ASSUME RelayInv, TypeOK, RowsInv, NEW r \in Requests, SettleProject(r)
    PROVE  Moves(r)
<1>1. session[r].at = "settleProject"
  BY DEF SettleProject, At
<1>2. \/ Kept(r, "settle", session[r].outcome) /\ quota' = quota - Delta(session[r])
      \/ Kept(r, "ended", "unsettled") /\ quota' = quota
  BY <1>1, GoToKeeps, EndKeeps DEF SettleProject, Fault, Intact, ProjectLegacyDelta, AdjustToken
<1>3. /\ OthersKept(r) /\ LedgerQuiet /\ crashes' = crashes /\ faults \subseteq faults' /\ token' = token
  BY GoToKeeps, EndKeeps, FaultsGrow DEF SettleProject, vars, ledger, LedgerQuiet
<1>4. Row(r)' = Row(r) /\ settlement' = settlement
  BY <1>3 DEF LedgerQuiet, Row
<1>5. SessionSound(session'[r])
  BY <1>1, <1>2, RequestKnown DEF Kept, Becomes, SessionSound
<1>6. RowAgrees(r)'
  BY <1>1, <1>2, <1>3, <1>4, RequestKnown
     DEF Kept, Becomes, SessionSound, RowAgrees, Unreserved, Holds, HeldBy, SettledFor, Amount
<1>7. quota' \in Int /\ token' \in Int
  BY <1>2, <1>3, RequestKnown DEF Delta
<1>8. LegacyRepaired' => Drift(session'[r]) = Drift(session[r]) + (quota' - quota)
  BY <1>1, <1>2, <1>3, RequestKnown, DriftByPlace
     DEF Kept, Becomes, SessionSound, Amount, Delta, LegacyRepaired
<1>9. TokenRepaired' => TokenDrift(session'[r]) = TokenDrift(session[r]) + (token' - token)
  BY <1>1, <1>2, <1>3, RequestKnown, DriftByPlace
     DEF Kept, Becomes, SessionSound, RowAgrees, Amount, Delta, TokenRepaired, Short
<1> QED
  BY <1>3, <1>5, <1>6, <1>7, <1>8, <1>9, CounterMove DEF Agrees

\* ... and restores it when the ledger refused.
LEMMA SettleUndoMoves ==
    ASSUME RelayInv, TypeOK, RowsInv, NEW r \in Requests, SettleUndo(r)
    PROVE  Moves(r)
<1>1. session[r].at = "settleUndo"
  BY DEF SettleUndo, At
<1>2. \/ Kept(r, "ended", "unsettled") /\ quota' = quota - (-Delta(session[r]))
      \/ Kept(r, "ended", "unsettled") /\ quota' = quota /\ "settleUndo" \in faults'
  BY <1>1, GoToKeeps, EndKeeps DEF SettleUndo, Fault, Intact, ProjectLegacyDelta, AdjustToken
<1>3. /\ OthersKept(r) /\ LedgerQuiet /\ crashes' = crashes /\ faults \subseteq faults' /\ token' = token
  BY GoToKeeps, EndKeeps, FaultsGrow DEF SettleUndo, vars, ledger, LedgerQuiet
<1>4. Row(r)' = Row(r) /\ settlement' = settlement
  BY <1>3 DEF LedgerQuiet, Row
<1>5. SessionSound(session'[r])
  BY <1>1, <1>2, RequestKnown DEF Kept, Becomes, SessionSound
<1>6. RowAgrees(r)'
  BY <1>1, <1>2, <1>3, <1>4, RequestKnown
     DEF Kept, Becomes, SessionSound, RowAgrees, Unreserved, Holds, HeldBy, SettledFor, Amount
<1>7. quota' \in Int /\ token' \in Int
  BY <1>2, <1>3, RequestKnown DEF Delta
<1>8. LegacyRepaired' => Drift(session'[r]) = Drift(session[r]) + (quota' - quota)
  BY <1>1, <1>2, <1>3, RequestKnown, DriftByPlace
     DEF Kept, Becomes, SessionSound, Amount, Delta, LegacyRepaired
<1>9. TokenRepaired' => TokenDrift(session'[r]) = TokenDrift(session[r]) + (token' - token)
  BY <1>1, <1>2, <1>3, RequestKnown, DriftByPlace
     DEF Kept, Becomes, SessionSound, RowAgrees, Amount, Delta, TokenRepaired, Short
<1> QED
  BY <1>3, <1>5, <1>6, <1>7, <1>8, <1>9, CounterMove DEF Agrees

\* The token pays the rest of the usage, or is left short.
LEMMA SettleTokenMoves ==
    ASSUME RelayInv, TypeOK, RowsInv, NEW r \in Requests, SettleToken(r)
    PROVE  Moves(r)
<1>1. session[r].at = "settleToken"
  BY DEF SettleToken, At
<1>2. \/ Kept(r, "ended", "settled") /\ token' = token + Delta(session[r])
      \/ Kept(r, "ended", "short") /\ token' = token
  BY <1>1, GoToKeeps, EndKeeps DEF SettleToken, Fault, Intact, ProjectLegacyDelta, AdjustToken
<1>3. /\ OthersKept(r) /\ LedgerQuiet /\ crashes' = crashes /\ faults \subseteq faults' /\ quota' = quota
  BY GoToKeeps, EndKeeps, FaultsGrow DEF SettleToken, vars, ledger, LedgerQuiet
<1>4. Row(r)' = Row(r) /\ settlement' = settlement
  BY <1>3 DEF LedgerQuiet, Row
<1>5. SessionSound(session'[r])
  BY <1>1, <1>2, RequestKnown DEF Kept, Becomes, SessionSound
<1>6. RowAgrees(r)'
  BY <1>1, <1>2, <1>3, <1>4, RequestKnown
     DEF Kept, Becomes, SessionSound, RowAgrees, Unreserved, Holds, HeldBy, SettledFor, Amount
<1>7. quota' \in Int /\ token' \in Int
  BY <1>2, <1>3, RequestKnown DEF Delta
<1>8. LegacyRepaired' => Drift(session'[r]) = Drift(session[r]) + (quota' - quota)
  BY <1>1, <1>2, <1>3, RequestKnown, DriftByPlace
     DEF Kept, Becomes, SessionSound, Amount, Delta, LegacyRepaired
<1>9. TokenRepaired' => TokenDrift(session'[r]) = TokenDrift(session[r]) + (token' - token)
  BY <1>1, <1>2, <1>3, RequestKnown, DriftByPlace
     DEF Kept, Becomes, SessionSound, RowAgrees, Amount, Delta, TokenRepaired, Short
<1> QED
  BY <1>3, <1>5, <1>6, <1>7, <1>8, <1>9, CounterMove DEF Agrees

\* Refund restores the legacy column first.
LEMMA RefundProjectMoves ==
    ASSUME RelayInv, TypeOK, RowsInv, NEW r \in Requests, RefundProject(r)
    PROVE  Moves(r)
<1>1. session[r].at = "refundProject"
  BY DEF RefundProject, At
<1>2. \/ Kept(r, "release", session[r].outcome) /\ quota' = quota - (-session[r].held)
      \/ /\ quota' = quota /\ "refundProject" \in faults'
         /\ \/ session[r].trusted /\ Kept(r, "ended", "unsettled")
            \/ ~session[r].trusted /\ Kept(r, "refundToken", session[r].outcome)
  BY <1>1, GoToKeeps, EndKeeps DEF RefundProject, FundingRefunded, Fault, Intact, ProjectLegacyDelta, AdjustToken
<1>3. /\ OthersKept(r) /\ LedgerQuiet /\ crashes' = crashes /\ faults \subseteq faults' /\ token' = token
  BY GoToKeeps, EndKeeps, FaultsGrow DEF RefundProject, FundingRefunded, vars, ledger, LedgerQuiet
<1>4. Row(r)' = Row(r) /\ settlement' = settlement
  BY <1>3 DEF LedgerQuiet, Row
<1>5. SessionSound(session'[r])
  BY <1>1, <1>2, RequestKnown DEF Kept, Becomes, SessionSound
<1>6. RowAgrees(r)'
  BY <1>1, <1>2, <1>3, <1>4, RequestKnown
     DEF Kept, Becomes, SessionSound, RowAgrees, Unreserved, Holds, HeldBy, SettledFor, Amount
<1>7. quota' \in Int /\ token' \in Int
  BY <1>2, <1>3, RequestKnown DEF Delta
<1>8. LegacyRepaired' => Drift(session'[r]) = Drift(session[r]) + (quota' - quota)
  BY <1>1, <1>2, <1>3, RequestKnown, DriftByPlace
     DEF Kept, Becomes, SessionSound, Amount, Delta, LegacyRepaired
<1>9. TokenRepaired' => TokenDrift(session'[r]) = TokenDrift(session[r]) + (token' - token)
  BY <1>1, <1>2, <1>3, RequestKnown, DriftByPlace
     DEF Kept, Becomes, SessionSound, RowAgrees, Amount, Delta, TokenRepaired, Short
<1> QED
  BY <1>3, <1>5, <1>6, <1>7, <1>8, <1>9, CounterMove DEF Agrees

\* The legacy column is changed back when the release failed.
LEMMA ReprojectMoves ==
    ASSUME RelayInv, TypeOK, RowsInv, NEW r \in Requests, Reproject(r)
    PROVE  Moves(r)
<1>1. session[r].at = "reproject"
  BY DEF Reproject, At
<1>2. \/ /\ quota' = quota - session[r].held \/ (quota' = quota /\ "reproject" \in faults')
         /\ session[r].trusted
         /\ Kept(r, "ended", "unsettled")
      \/ /\ quota' = quota - session[r].held \/ (quota' = quota /\ "reproject" \in faults')
         /\ ~session[r].trusted
         /\ Kept(r, "refundToken", session[r].outcome)
  BY <1>1, GoToKeeps, EndKeeps DEF Reproject, FundingRefunded, Fault, Intact, ProjectLegacyDelta, AdjustToken
<1>3. /\ OthersKept(r) /\ LedgerQuiet /\ crashes' = crashes /\ faults \subseteq faults' /\ token' = token
  BY GoToKeeps, EndKeeps, FaultsGrow DEF Reproject, FundingRefunded, vars, ledger, LedgerQuiet
<1>4. Row(r)' = Row(r) /\ settlement' = settlement
  BY <1>3 DEF LedgerQuiet, Row
<1>5. SessionSound(session'[r])
  BY <1>1, <1>2, RequestKnown DEF Kept, Becomes, SessionSound
<1>6. RowAgrees(r)'
  BY <1>1, <1>2, <1>3, <1>4, RequestKnown
     DEF Kept, Becomes, SessionSound, RowAgrees, Unreserved, Holds, HeldBy, SettledFor, Amount
<1>7. quota' \in Int /\ token' \in Int
  BY <1>2, <1>3, RequestKnown DEF Delta
<1>8. LegacyRepaired' => Drift(session'[r]) = Drift(session[r]) + (quota' - quota)
  BY <1>1, <1>2, <1>3, RequestKnown, DriftByPlace
     DEF Kept, Becomes, SessionSound, Amount, Delta, LegacyRepaired
<1>9. TokenRepaired' => TokenDrift(session'[r]) = TokenDrift(session[r]) + (token' - token)
  BY <1>1, <1>2, <1>3, RequestKnown, DriftByPlace
     DEF Kept, Becomes, SessionSound, RowAgrees, Amount, Delta, TokenRepaired, Short
<1> QED
  BY <1>3, <1>5, <1>6, <1>7, <1>8, <1>9, CounterMove DEF Agrees

\* Refund gives the token its quota back last.
LEMMA RefundTokenMoves ==
    ASSUME RelayInv, TypeOK, RowsInv, NEW r \in Requests, RefundToken(r)
    PROVE  Moves(r)
<1>1. session[r].at = "refundToken"
  BY DEF RefundToken, At
<1>2. \/ Kept(r, "ended", "refunded") /\ token' = token - session[r].pre
      \/ Kept(r, "ended", "refunded") /\ token' = token /\ "refundToken" \in faults'
  BY <1>1, GoToKeeps, EndKeeps DEF RefundToken, Fault, Intact, ProjectLegacyDelta, AdjustToken
<1>3. /\ OthersKept(r) /\ LedgerQuiet /\ crashes' = crashes /\ faults \subseteq faults' /\ quota' = quota
  BY GoToKeeps, EndKeeps, FaultsGrow DEF RefundToken, vars, ledger, LedgerQuiet
<1>4. Row(r)' = Row(r) /\ settlement' = settlement
  BY <1>3 DEF LedgerQuiet, Row
<1>5. SessionSound(session'[r])
  BY <1>1, <1>2, RequestKnown DEF Kept, Becomes, SessionSound
<1>6. RowAgrees(r)'
  BY <1>1, <1>2, <1>3, <1>4, RequestKnown
     DEF Kept, Becomes, SessionSound, RowAgrees, Unreserved, Holds, HeldBy, SettledFor, Amount
<1>7. quota' \in Int /\ token' \in Int
  BY <1>2, <1>3, RequestKnown DEF Delta
<1>8. LegacyRepaired' => Drift(session'[r]) = Drift(session[r]) + (quota' - quota)
  BY <1>1, <1>2, <1>3, RequestKnown, DriftByPlace
     DEF Kept, Becomes, SessionSound, Amount, Delta, LegacyRepaired
<1>9. TokenRepaired' => TokenDrift(session'[r]) = TokenDrift(session[r]) + (token' - token)
  BY <1>1, <1>2, <1>3, RequestKnown, DriftByPlace
     DEF Kept, Becomes, SessionSound, RowAgrees, Amount, Delta, TokenRepaired, Short
<1> QED
  BY <1>3, <1>5, <1>6, <1>7, <1>8, <1>9, CounterMove DEF Agrees

\* PreConsumeTokenQuota takes what the session is to hold, or holds already.
LEMMA TakeTokenMoves ==
    ASSUME RelayInv, TypeOK, RowsInv, NEW r \in Requests, TakeToken(r)
    PROVE  Moves(r)
<1> DEFINE s == session[r]
           place == IF s.trusted THEN "settle" ELSE "reserve"
           taken == Amount(s)
<1>1. s.at = "token"
  BY DEF TakeToken, At
<1>2. /\ token' = token + taken /\ quota' = quota /\ OthersKept(r) /\ LedgerQuiet
      /\ faults' = faults /\ crashes' = crashes
      /\ session'[r] = [s EXCEPT !.pre = taken, !.at = place]
  BY Updated DEF TakeToken, AdjustToken, vars, ledger, LedgerQuiet
<1>3. \/ s.trusted /\ place = "settle" /\ taken = s.usage
      \/ ~s.trusted /\ place = "reserve" /\ taken = s.estimate
  BY DEF Amount
<1> HIDE DEF place, taken
<1>4. Becomes(r, place, s.outcome, s.usage, taken, s.held)
  BY <1>2, AmountsTyped DEF RelayInv, Session, Becomes
<1>5. Row(r)' = Row(r) /\ settlement' = settlement
  BY <1>2 DEF LedgerQuiet, Row
<1>6. SessionSound(session'[r])
  BY <1>1, <1>3, <1>4, RequestKnown DEF Becomes, SessionSound
<1>7. RowAgrees(r)'
  BY <1>1, <1>2, <1>3, <1>4, <1>5, RequestKnown
     DEF Becomes, SessionSound, RowAgrees, Unreserved, Holds, HeldBy
<1>8. quota' \in Int /\ token' \in Int
  BY <1>2, <1>3, RequestKnown
<1>9. Drift(session'[r]) = Drift(s)
  BY <1>1, <1>3, <1>4, RequestKnown, DriftByPlace DEF Becomes, Delta, SessionSound
<1>10. TokenDrift(session'[r]) = TokenDrift(s) + (token' - token)
  <2>1. TokenDrift(s) = s.pre - s.held
    BY <1>1, DriftByPlace
  <2>2. s.pre = 0 /\ s.held = IF s.trusted THEN s.usage ELSE 0
    BY <1>1, RequestKnown DEF SessionSound
  <2>3. TokenDrift(session'[r]) = IF s.trusted THEN 0 ELSE taken
    BY <1>3, <1>4, DriftByPlace DEF Becomes
  <2> QED
    BY <1>2, <1>3, <2>1, <2>2, <2>3, RequestKnown
<1>11. LegacyRepaired' => Drift(session'[r]) = Drift(session[r]) + (quota' - quota)
  BY <1>2, <1>9, RequestKnown, DriftTyped
<1> QED
  BY <1>2, <1>6, <1>7, <1>8, <1>10, <1>11, CounterMove DEF Agrees

\* The reservation is taken from the legacy column.
LEMMA ProjectMoves ==
    ASSUME RelayInv, TypeOK, RowsInv, NEW r \in Requests, Project(r)
    PROVE  Moves(r)
<1> DEFINE s == session[r]
           place == IF s.trusted THEN "token" ELSE "serving"
           held == Amount(s)
<1>1. s.at = "project"
  BY DEF Project, At
<1>2. /\ quota' = quota - held /\ token' = token /\ OthersKept(r) /\ LedgerQuiet
      /\ faults' = faults /\ crashes' = crashes
      /\ session'[r] = [s EXCEPT !.held = held, !.at = place]
  BY Updated DEF Project, ProjectLegacyDelta, vars, ledger, LedgerQuiet
<1>3. /\ \/ s.trusted /\ place = "token" /\ held = s.usage
         \/ ~s.trusted /\ place = "serving" /\ held = s.estimate
      /\ held > 0
  BY <1>1 DEF Amount, RelayInv, HoldsSome
<1>4. Drift(s) = held /\ TokenDrift(s) = s.pre - held
  BY <1>1, DriftByPlace
<1>5. Row(r)' = Row(r) /\ settlement' = settlement
  BY <1>2 DEF LedgerQuiet, Row
<1>6. Row(r).status = "open" /\ Row(r).account = Wallet /\ Row(r).amount = held
  BY <1>1, RequestKnown DEF RowAgrees, Holds, HeldBy
<1> HIDE DEF place, held
<1>7. Becomes(r, place, s.outcome, s.usage, s.pre, held)
  BY <1>2, AmountsTyped DEF RelayInv, Session, Becomes
<1>8. SessionSound(session'[r])
  BY <1>1, <1>3, <1>7, RequestKnown DEF Becomes, SessionSound
<1>9. RowAgrees(r)'
  BY <1>1, <1>2, <1>3, <1>5, <1>6, <1>7, RequestKnown
     DEF Becomes, SessionSound, RowAgrees, Unreserved, Holds, HeldBy
<1>10. quota' \in Int /\ token' \in Int
  BY <1>2, <1>3, RequestKnown
<1>11. Drift(session'[r]) = 0 /\ TokenDrift(session'[r]) = s.pre - held
  BY <1>1, <1>3, <1>7, RequestKnown, DriftByPlace DEF Becomes, SessionSound
<1>12. Drift(session'[r]) = Drift(s) + (quota' - quota)
  BY <1>2, <1>3, <1>4, <1>11, RequestKnown
<1>13. TokenDrift(session'[r]) = TokenDrift(s) + (token' - token)
  BY <1>2, <1>3, <1>4, <1>11, RequestKnown
<1> QED
  BY <1>2, <1>8, <1>9, <1>10, <1>12, <1>13, CounterMove DEF Agrees

\* NewBillingSession accepts the request.
LEMMA OpenMoves ==
    ASSUME RelayInv, TypeOK, RowsInv, NEW r \in Requests, NEW estimate, NEW trusted \in BOOLEAN,
           OpenSession(r, estimate, trusted)
    PROVE  Moves(r)
<1> DEFINE s == session[r]
           t == session'[r]
           place == IF trusted \/ estimate = 0 THEN "serving" ELSE "token"
<1>1. s.at = "idle"
  BY DEF OpenSession, At
<1>2. /\ quota' = quota /\ token' = token /\ OthersKept(r) /\ LedgerQuiet
      /\ faults' = faults /\ crashes' = crashes
      /\ t = [s EXCEPT !.estimate = estimate, !.trusted = trusted, !.at = place]
  BY Updated DEF OpenSession, vars, ledger, LedgerQuiet
<1>3. place = "serving" \/ (place = "token" /\ ~trusted)
  OBVIOUS
<1> HIDE DEF place
<1>4. t.at = place /\ t.outcome = s.outcome /\ t.pre = s.pre /\ t.held = s.held /\ t.trusted = trusted
  BY <1>2, AmountsTyped DEF RelayInv, Session
<1> HIDE DEF t
<1>5. s.outcome = "none" /\ s.pre = 0 /\ s.held = 0 /\ Row(r).status = "absent"
  BY <1>1, RequestKnown DEF SessionSound, RowAgrees, Unreserved
<1>6. Row(r)' = Row(r) /\ settlement' = settlement
  BY <1>2 DEF LedgerQuiet, Row
<1>7. SessionSound(t)
  BY <1>3, <1>4, <1>5 DEF SessionSound
<1>8. RowAgrees(r)'
  BY <1>3, <1>4, <1>5, <1>6 DEF RowAgrees, Unreserved, Holds, HeldBy, t
<1>9. Drift(t) = Drift(s) /\ TokenDrift(t) = TokenDrift(s)
  BY <1>1, <1>3, <1>4, <1>5, DriftByPlace
<1> QED
  BY <1>2, <1>7, <1>8, <1>9, PlainMove DEF Agrees, t

\* The request is served, and Settle starts.
LEMMA ServeMoves ==
    ASSUME RelayInv, TypeOK, RowsInv, NEW r \in Requests, NEW usage \in 0 .. MaxAmount,
           UpstreamServes(r, usage)
    PROVE  Moves(r)
<1> DEFINE s == session[r]
           place == CASE s.trusted /\ usage > 0 -> "reserve"
                      [] ~s.trusted /\ s.held > 0 /\ usage # s.pre -> "settleProject"
                      [] ~s.trusted /\ s.held > 0 /\ usage = s.pre -> "settle"
                      [] OTHER -> "ended"
           outcome == IF place = "ended" THEN "unsettled" ELSE "none"
<1>1. s.at = "serving"
  BY DEF UpstreamServes, At
<1>2. /\ quota' = quota /\ token' = token /\ OthersKept(r) /\ LedgerQuiet
      /\ faults' = faults /\ crashes' = crashes
      /\ session'[r] = [s EXCEPT !.usage = usage, !.at = place, !.outcome = outcome]
  BY Updated DEF UpstreamServes, vars, ledger, LedgerQuiet
<1>3. \/ place = "reserve" /\ s.trusted
      \/ place = "settleProject" /\ ~s.trusted /\ s.held > 0
      \/ place = "settle" /\ ~s.trusted /\ s.held > 0 /\ usage = s.pre
      \/ place = "ended"
  OBVIOUS
<1> HIDE DEF place
<1>4. outcome = IF place = "ended" THEN "unsettled" ELSE "none"
  OBVIOUS
<1> HIDE DEF outcome
<1>5. Becomes(r, place, outcome, usage, s.pre, s.held)
  BY <1>2, AmountsTyped DEF RelayInv, Session, Becomes
<1>6. Row(r)' = Row(r) /\ settlement' = settlement
  BY <1>2 DEF LedgerQuiet, Row
<1>7. SessionSound(session'[r])
  BY <1>1, <1>3, <1>4, <1>5, RequestKnown DEF Becomes, SessionSound
<1>8. RowAgrees(r)'
  BY <1>1, <1>2, <1>3, <1>4, <1>5, <1>6, RequestKnown
     DEF Becomes, SessionSound, RowAgrees, Unreserved, Holds, HeldBy
<1>9. Drift(session'[r]) = Drift(s) /\ TokenDrift(session'[r]) = TokenDrift(s)
  BY <1>1, <1>3, <1>5, RequestKnown, DriftByPlace DEF Becomes, SessionSound, Delta
<1> QED
  BY <1>2, <1>7, <1>8, <1>9, PlainMove DEF Agrees

\* The process dies.
LEMMA CrashMoves ==
    ASSUME RelayInv, TypeOK, RowsInv, NEW r \in Requests, Crash(r)
    PROVE  Moves(r)
<1>1. Kept(r, "ended", "crashed") /\ OthersKept(r)
  BY EndKeeps DEF Crash
<1>2. LedgerQuiet /\ quota' = quota /\ token' = token /\ faults' = faults
  BY DEF Crash, LedgerQuiet, RollbackTx, vars, ledger
<1>3. crashes' # 0
  BY CountersTyped DEF Crash
<1>4. SessionSound(session'[r])
  BY <1>1 DEF Kept, Becomes, SessionSound
<1>5. RowAgrees(r)'
  BY <1>1 DEF Kept, Becomes, RowAgrees, Unreserved, Holds
<1> QED
  BY <1>1, <1>2, <1>3, <1>4, <1>5, PlainMove DEF Agrees, LegacyRepaired, TokenRepaired

\* A transaction of the ledger that closes or opens the reservation of the request
\* and moves the balance of the wallet.
LEMMA LedgerMove ==
    ASSUME RelayInv, TypeOK, RowsInv, NEW r \in Requests,
           NEW available \in Int, NEW reserved \in Int, NEW consumed \in Int,
           OthersKept(r), WalletMoves(available, reserved, consumed, 0),
           \A j \in Keys \ {Key(r, "reserve")} : reservation'[j] = reservation[j],
           settlement \subseteq settlement', EventsKept,
           faults' = faults, crashes' = crashes, quota' = quota, token' = token,
           Agrees(r),
           Drift(session'[r]) = Drift(session[r]) - available,
           TokenDrift(session'[r]) = TokenDrift(session[r]) - consumed - reserved
    PROVE  Moves(r)
<1>1. Frame(r)
  BY KeysApart, WalletTyped DEF Frame, OthersKept, Row, WalletMoves
<1>2. LegacyLevel(r)
  BY RequestKnown, DriftTyped DEF LegacyLevel, WalletMoves
<1>3. TokenLevel(r)
  BY RequestKnown, DriftTyped DEF TokenLevel, WalletMoves
<1> QED
  BY <1>1, <1>2, <1>3 DEF Moves

\* PreConsume reserves in the ledger.
LEMMA ReserveMoves ==
    ASSUME RelayInv, TypeOK, RowsInv, NEW r \in Requests, Reserve(r)
    PROVE  Moves(r)
<1> DEFINE n == Amount(session[r])
<1>1. session[r].at = "reserve"
  BY DEF Reserve, At
<1>2. Kept(r, "project", session[r].outcome) /\ OthersKept(r)
  BY GoToKeeps DEF Reserve
<1>3. quota' = quota /\ token' = token /\ faults' = faults /\ crashes' = crashes
  BY DEF Reserve
<1>4. n \in 1 .. MaxAmount /\ Key(r, "reserve") \in Keys
  BY <1>1, CallsTyped, KeysApart
<1>5. CreateReservationTx(r, Key(r, "reserve"), Wallet, n)
  BY DEF Reserve
<1>6. n \in Int /\ -n \in Int /\ 0 \in Int
  BY <1>4
<1>7. Amount(session'[r]) = n
  BY <1>2 DEF Kept, Becomes, Amount
<1>8. Drift(session'[r]) = Drift(session[r]) - (-n)
  BY <1>1, <1>2, <1>6, <1>7, DriftByPlace DEF Kept, Becomes
<1>9. TokenDrift(session'[r]) = TokenDrift(session[r]) - 0 - n
  BY <1>1, <1>2, <1>6, <1>7, RequestKnown, DriftByPlace DEF Kept, Becomes
<1> HIDE DEF n
<1>10. /\ Row(r)'.status = "open" /\ Row(r)'.account = Wallet /\ Row(r)'.amount = n
       /\ \A j \in Keys \ {Key(r, "reserve")} : reservation'[j] = reservation[j]
       /\ settlement' = settlement /\ EventsKept /\ WalletMoves(-n, n, 0, 0)
  BY <1>4, <1>5, ReserveEffect DEF Row
<1>11. SessionSound(session'[r])
  BY <1>1, <1>2, RequestKnown DEF Kept, Becomes, SessionSound
<1>12. RowAgrees(r)'
  BY <1>2, <1>7, <1>10, <1>11 DEF Kept, Becomes, RowAgrees, Unreserved, Holds, HeldBy, SessionSound
<1>13. Agrees(r)
  BY <1>11, <1>12 DEF Agrees
<1> QED
  BY <1>2, <1>3, <1>6, <1>8, <1>9, <1>10, <1>13, LedgerMove

\* The open reservation of a request, its amount and its account.
LEMMA HeldRow ==
    ASSUME RelayInv, TypeOK, RowsInv, NEW r \in Requests, Holds(session[r])
    PROVE  /\ reservation[Key(r, "reserve")].account = Wallet
           /\ reservation[Key(r, "reserve")].amount = HeldBy(session[r])
           /\ HeldBy(session[r]) \in Int /\ -HeldBy(session[r]) \in Int
BY RequestKnown DEF RowAgrees, Row, HeldBy

\* What a release gives back is the share of the request in both differences.
LEMMA ReleasedMoves ==
    ASSUME RelayInv, TypeOK, RowsInv, NEW r \in Requests, NEW operation \in {"undo", "release"},
           session[r].at = operation,
           ReleaseReservationTx(r, Key(r, operation), Key(r, "reserve")),
           OthersKept(r), faults' = faults, crashes' = crashes, quota' = quota, token' = token,
           \/ session[r].trusted /\ Kept(r, "ended", "unsettled")
           \/ /\ ~session[r].trusted
              /\ Kept(r, IF operation = "undo" THEN "untoken" ELSE "refundToken", session[r].outcome)
    PROVE  Moves(r)
<1> DEFINE n == HeldBy(session[r])
<1>1. Holds(session[r])
  BY DEF Holds
<1>2. /\ reservation[Key(r, "reserve")].account = Wallet
      /\ reservation[Key(r, "reserve")].amount = n
      /\ n \in Int /\ -n \in Int /\ 0 \in Int
  BY <1>1, HeldRow
<1>3. Key(r, operation) \in Keys /\ Key(r, "reserve") \in Keys
  BY CallsTyped DEF Operations
<1>4. Drift(session[r]) = n /\ TokenDrift(session[r]) = session[r].pre - n
  BY DriftByPlace DEF HeldBy
<1>5. /\ session[r].trusted => session[r].pre = 0
      /\ session[r].pre \in Int
  BY RequestKnown DEF SessionSound
<1> HIDE DEF n
<1>6. /\ Row(r)'.status = "released"
      /\ \A j \in Keys \ {Key(r, "reserve")} : reservation'[j] = reservation[j]
      /\ settlement' = settlement /\ EventsKept /\ WalletMoves(n, -n, 0, 0)
  BY <1>2, <1>3, ReleaseEffect DEF Row
<1>7. SessionSound(session'[r])
  BY RequestKnown DEF Kept, Becomes, SessionSound
<1>8. RowAgrees(r)'
  BY <1>6, <1>7, RequestKnown DEF Kept, Becomes, RowAgrees, Unreserved, Holds, SessionSound
<1>9. Drift(session'[r]) = 0 /\ TokenDrift(session'[r]) = session[r].pre
  BY <1>5, DriftByPlace DEF Kept, Becomes
<1>10. Drift(session'[r]) = Drift(session[r]) - n
  BY <1>2, <1>4, <1>9
<1>11. TokenDrift(session'[r]) = TokenDrift(session[r]) - 0 - (-n)
  BY <1>2, <1>4, <1>5, <1>9
<1>12. Agrees(r)
  BY <1>7, <1>8 DEF Agrees
<1> QED
  BY <1>2, <1>6, <1>10, <1>11, <1>12, LedgerMove

\* A release that fails is repaired, or is not.
LEMMA UndoMoves ==
    ASSUME RelayInv, TypeOK, RowsInv, NEW r \in Requests, Undo(r)
    PROVE  Moves(r)
<1>1. session[r].at = "undo"
  BY DEF Undo, At
<1>2. /\ OthersKept(r) /\ quota' = quota /\ token' = token /\ crashes' = crashes
      /\ \/ session[r].trusted /\ Kept(r, "ended", "unsettled")
         \/ ~session[r].trusted /\ Kept(r, "untoken", session[r].outcome)
  BY GoToKeeps, EndKeeps DEF Undo, FundingRefused
<1>3. CASE ReleaseReservationTx(r, Key(r, "undo"), Key(r, "reserve")) /\ Intact
  BY <1>1, <1>2, <1>3, ReleasedMoves DEF Intact
<1>4. CASE RollbackTx(r) /\ Fault(r)
  <2>1. LedgerQuiet /\ "undo" \in faults' /\ faults \subseteq faults'
    BY <1>1, <1>4 DEF RollbackTx, ledger, LedgerQuiet, Fault
  <2>2. ~LegacyRepaired' /\ ~TokenRepaired'
    BY <2>1 DEF LegacyRepaired, TokenRepaired
  <2>3. SessionSound(session'[r])
    BY <1>1, <1>2, RequestKnown DEF Kept, Becomes, SessionSound
  <2>4. RowAgrees(r)'
    BY <1>1, <1>2, <2>1, RequestKnown DEF Kept, Becomes, RowAgrees, Unreserved, Holds, SessionSound
  <2> QED
    BY <1>2, <2>1, <2>2, <2>3, <2>4, PlainMove DEF Agrees
<1> QED
  BY <1>3, <1>4 DEF Undo

\* A release, done or failed, shifts the request's share from held to drift.
LEMMA ReleaseMoves ==
    ASSUME RelayInv, TypeOK, RowsInv, NEW r \in Requests, Release(r)
    PROVE  Moves(r)
<1>1. session[r].at = "release"
  BY DEF Release, At
<1>2. quota' = quota /\ token' = token /\ crashes' = crashes
  BY DEF Release
<1>3. CASE /\ ReleaseReservationTx(r, Key(r, "release"), Key(r, "reserve"))
           /\ FundingRefunded(r) /\ Intact
  <2>1. /\ OthersKept(r)
        /\ \/ session[r].trusted /\ Kept(r, "ended", "unsettled")
           \/ ~session[r].trusted /\ Kept(r, "refundToken", session[r].outcome)
    BY <1>3, GoToKeeps, EndKeeps DEF FundingRefunded
  <2> QED
    BY <1>1, <1>2, <1>3, <2>1, ReleasedMoves DEF Intact
<1>4. CASE RollbackTx(r) /\ Fault(r) /\ GoTo(r, "reproject")
  <2>1. Kept(r, "reproject", session[r].outcome) /\ OthersKept(r)
    BY <1>4, GoToKeeps
  <2>2. LedgerQuiet /\ "release" \in faults' /\ faults \subseteq faults'
    BY <1>1, <1>4 DEF RollbackTx, ledger, LedgerQuiet, Fault
  <2>3. Row(r)' = Row(r) /\ settlement' = settlement
    BY <2>2 DEF LedgerQuiet, Row
  <2>4. SessionSound(session'[r])
    BY <1>1, <2>1, RequestKnown DEF Kept, Becomes, SessionSound
  <2>5. RowAgrees(r)'
    BY <1>1, <2>1, <2>2, <2>3, RequestKnown
       DEF Kept, Becomes, RowAgrees, Unreserved, Holds, HeldBy, SessionSound
  <2>6. Drift(session'[r]) = Drift(session[r]) /\ TokenDrift(session'[r]) = TokenDrift(session[r])
    BY <1>1, <2>1, DriftByPlace DEF Kept, Becomes
  <2> QED
    BY <1>2, <2>1, <2>2, <2>4, <2>5, <2>6, PlainMove DEF Agrees
<1> QED
  BY <1>3, <1>4 DEF Release

\* Settle charges the wallet for the usage.
LEMMA SettleMoves ==
    ASSUME RelayInv, TypeOK, RowsInv, NEW r \in Requests, Settle(r)
    PROVE  Moves(r)
<1> DEFINE n == session[r].held
           used == session[r].usage
<1>1. session[r].at = "settle"
  BY DEF Settle, At
<1>2. quota' = quota /\ token' = token /\ faults' = faults /\ crashes' = crashes
  BY DEF Settle
<1>3. /\ OthersKept(r)
      /\ \/ Delta(session[r]) # 0 /\ Kept(r, "settleToken", session[r].outcome)
         \/ Delta(session[r]) = 0 /\ Kept(r, "ended", "settled")
  BY GoToKeeps, EndKeeps DEF Settle
<1>4. /\ reservation[Key(r, "reserve")].account = Wallet
      /\ reservation[Key(r, "reserve")].amount = n
  BY <1>1, HeldRow DEF Holds, HeldBy
<1>5. n \in Int /\ used \in Int /\ n - used \in Int /\ -n \in Int
  BY RequestKnown
<1>6. Key(r, "settle") \in Keys /\ Key(r, "reserve") \in Keys /\ used \in 0 .. MaxAmount
  BY CallsTyped DEF Operations
<1>7. SettleReservationTx(r, Key(r, "settle"), Key(r, "reserve"), used)
  BY DEF Settle
<1>8. session[r].pre = n /\ Delta(session[r]) = used - n
  BY <1>1, RequestKnown DEF SessionSound, Delta
<1>9. Drift(session[r]) = n - used /\ TokenDrift(session[r]) = 0
  BY <1>1, <1>5, <1>8, DriftByPlace
<1>10. SessionSound(session'[r])
  BY <1>1, <1>3, RequestKnown DEF Kept, Becomes, SessionSound, Delta
<1>11. Drift(session'[r]) = 0 /\ TokenDrift(session'[r]) = n - used
  BY <1>3, <1>5, <1>8, DriftByPlace DEF Kept, Becomes, Delta
<1>12. session'[r].usage = used
  BY <1>3 DEF Kept, Becomes
<1> HIDE DEF n, used
<1>13. /\ Row(r)'.status = "settled"
       /\ \A j \in Keys \ {Key(r, "reserve")} : reservation'[j] = reservation[j]
       /\ settlement \subseteq settlement' /\ EventsKept
       /\ \E s \in settlement' : s.reservation = Key(r, "reserve") /\ s.actual = used
       /\ WalletMoves(n - used, -n, used, 0)
  BY <1>4, <1>6, <1>7, SettleEffect DEF Row
<1>14. SettledFor(r)'
  BY <1>12, <1>13 DEF SettledFor
<1>15. RowAgrees(r)'
  BY <1>3, <1>10, <1>14 DEF Kept, Becomes, RowAgrees, Unreserved, Holds, SessionSound
<1>16. /\ Drift(session'[r]) = Drift(session[r]) - (n - used)
       /\ TokenDrift(session'[r]) = TokenDrift(session[r]) - used - (-n)
  BY <1>5, <1>9, <1>11
<1>17. Agrees(r)
  BY <1>10, <1>15 DEF Agrees
<1> QED
  BY <1>2, <1>3, <1>5, <1>13, <1>16, <1>17, LedgerMove

-----------------------------------------------------------------------------
(* The invariant of the balances *)

\* There are finitely many requests: each has a key of its own.
LEMMA RequestsFinite == IsFiniteSet(Requests)
<1> DEFINE f == [r \in Requests |-> Key(r, "reserve")]
<1>1. f \in [Requests -> Keys]
  BY KeysApart
<1>2. \A q, r \in Requests : f[q] = f[r] => q = r
  BY DEF Key
<1> HIDE DEF f
<1>3. f \in Injection(Requests, Keys)
  BY <1>1, <1>2 DEF Injection, IsInjective
<1> QED
  BY <1>3, KeysAssumption, FS_Injection

\* The shares of all requests add up to an integer.
LEMMA DriftsTyped ==
    ASSUME RelayInv
    PROVE  SumFunction(Drifts) \in Int /\ SumFunction(TokenDrifts) \in Int
<1>1. \A r \in Requests : Drifts[r] \in Int /\ TokenDrifts[r] \in Int
  BY DriftTyped DEF Drifts, TokenDrifts
<1>2. DOMAIN Drifts = Requests /\ DOMAIN TokenDrifts = Requests
  BY DEF Drifts, TokenDrifts
<1>3. SumFunctionOnSet(Drifts, Requests) \in Int
  BY <1>1, RequestsFinite, SumInt
<1>4. SumFunctionOnSet(TokenDrifts, Requests) \in Int
  BY <1>1, RequestsFinite, SumInt
<1> QED
  BY <1>2, <1>3, <1>4 DEF SumFunction

\* A step of one request changes the sum by the difference of its share.
LEMMA DriftsMove ==
    ASSUME RelayInv, RelayInv', NEW r \in Requests, OthersKept(r)
    PROVE  /\ SumFunction(Drifts)' = SumFunction(Drifts) + Drift(session'[r]) - Drift(session[r])
           /\ SumFunction(TokenDrifts)'
                = SumFunction(TokenDrifts) + TokenDrift(session'[r]) - TokenDrift(session[r])
<1> DEFINE f == Drifts
           g == Drifts'
           ft == TokenDrifts
           gt == TokenDrifts'
<1>1. \A q \in Requests : f[q] \in Int /\ ft[q] \in Int
  BY DriftTyped DEF Drifts, TokenDrifts
<1>2. \A q \in Requests : Drift(session'[q]) \in Int /\ TokenDrift(session'[q]) \in Int
  BY SharesTyped DEF RelayInv, RelayTypeOK
<1>3. g[r] \in Int /\ gt[r] \in Int
  BY <1>2 DEF Drifts, TokenDrifts
<1>4. \A q \in Requests \ {r} : g[q] = f[q] /\ gt[q] = ft[q]
  BY DEF OthersKept, Drifts, TokenDrifts
<1>5. /\ f[r] = Drift(session[r]) /\ g[r] = Drift(session'[r])
      /\ ft[r] = TokenDrift(session[r]) /\ gt[r] = TokenDrift(session'[r])
  BY DEF Drifts, TokenDrifts
<1>6. DOMAIN f = Requests /\ DOMAIN g = Requests /\ DOMAIN ft = Requests /\ DOMAIN gt = Requests
  BY DEF Drifts, TokenDrifts
<1> HIDE DEF f, g, ft, gt
<1>7. SumFunctionOnSet(g, Requests) = SumFunctionOnSet(f, Requests) + g[r] - f[r]
  BY <1>1, <1>3, <1>4, RequestsFinite, SumUpdate
<1>8. SumFunctionOnSet(gt, Requests) = SumFunctionOnSet(ft, Requests) + gt[r] - ft[r]
  BY <1>1, <1>3, <1>4, RequestsFinite, SumUpdate
<1> QED
  BY <1>5, <1>6, <1>7, <1>8 DEF SumFunction, f, g, ft, gt

\* At rest no request has a share.
LEMMA NoDrift ==
    ASSUME RelayInv, \A r \in Requests : session[r].at \in {"idle", "ended"}
    PROVE  SumFunction(Drifts) = 0 /\ SumFunction(TokenDrifts) = 0
<1>1. \A r \in Requests : Drifts[r] = 0 /\ TokenDrifts[r] = 0
  BY DriftByPlace DEF Drifts, TokenDrifts
<1>2. DOMAIN Drifts = Requests /\ DOMAIN TokenDrifts = Requests
  BY DEF Drifts, TokenDrifts
<1>3. SumFunctionOnSet(Drifts, Requests) = 0
  BY <1>1, RequestsFinite, SumZero
<1>4. SumFunctionOnSet(TokenDrifts, Requests) = 0
  BY <1>1, RequestsFinite, SumZero
<1> QED
  BY <1>2, <1>3, <1>4 DEF SumFunction

\* A request that moves keeps every request in agreement with its reservation ...
LEMMA RowsKept ==
    ASSUME RowsInv, NEW r \in Requests, Moves(r)
    PROVE  RowsInv'
<1>1. ASSUME NEW q \in Requests \ {r} PROVE (SessionSound(session[q]) /\ RowAgrees(q))'
  <2>1. /\ session'[q] = session[q] /\ Row(q)' = Row(q) /\ settlement \subseteq settlement'
        /\ faults \subseteq faults'
    BY DEF Moves, Frame
  <2>2. SessionSound(session[q]) /\ RowAgrees(q)
    BY DEF RowsInv
  <2>3. SettledFor(q) => SettledFor(q)'
    BY <2>1 DEF SettledFor
  <2>4. faults' = {} => faults = {}
    BY <2>1
  <2>5. SessionSound(session'[q])
    BY <2>1, <2>2
  <2>6. RowAgrees(q)'
    BY <2>1, <2>2, <2>3, <2>4 DEF RowAgrees
  <2> QED
    BY <2>5, <2>6
<1>2. (SessionSound(session[r]) /\ RowAgrees(r))'
  BY DEF Moves, Agrees
<1> QED
  BY <1>1, <1>2 DEF RowsInv

\* ... and the balances as far apart as the requests under way account for.
LEMMA MirrorKept ==
    ASSUME RelayInv, RelayInv', TypeOK, TypeOK', MirrorInv, Bootstrapped,
           NEW r \in Requests, session[r].at # "ended", Moves(r)
    PROVE  MirrorInv'
<1>1. RowsInv'
  BY RowsKept DEF MirrorInv
<1>2. Frame(r) /\ OthersKept(r)
  BY DEF Moves, Frame, OthersKept
<1>3. BootInv'
  <2>1. outbox[Key(Sync, "bootstrap")].type # "none" /\ Key(Sync, "bootstrap") \in Keys
    BY RequestsAssumption DEF MirrorInv, BootInv, Bootstrapped, EmptySnapshot
  <2> QED
    BY <1>2, <2>1 DEF BootInv, Frame, EventsKept, Bootstrapped
<1>4. /\ Drift(session[r]) \in Int /\ TokenDrift(session[r]) \in Int
      /\ Drift(session'[r]) \in Int /\ TokenDrift(session'[r]) \in Int
  BY SharesTyped DEF RelayInv, RelayTypeOK
<1>5. /\ quota \in Int /\ token \in Int /\ quota' \in Int /\ token' \in Int
      /\ SumFunction(Drifts) \in Int /\ SumFunction(TokenDrifts) \in Int
  BY CountersTyped, DriftsTyped DEF RelayInv, RelayTypeOK
<1>6. /\ snapshot[Wallet].available \in Int /\ snapshot[Wallet].reserved \in Int
      /\ snapshot[Wallet].consumed \in Int
      /\ snapshot'[Wallet].available \in Int /\ snapshot'[Wallet].reserved \in Int
      /\ snapshot'[Wallet].consumed \in Int
  BY RequestsAssumption DEF TypeOK, Snapshot
<1>7. /\ SumFunction(Drifts)' = SumFunction(Drifts) + Drift(session'[r]) - Drift(session[r])
      /\ SumFunction(TokenDrifts)'
           = SumFunction(TokenDrifts) + TokenDrift(session'[r]) - TokenDrift(session[r])
  BY <1>2, DriftsMove
<1>8. LegacyInv'
  <2>1. SUFFICES ASSUME LegacyRepaired'
                 PROVE  quota' = snapshot'[Wallet].available + SumFunction(Drifts)'
    BY DEF LegacyInv
  <2>2. LegacyRepaired
    BY <1>2, <2>1 DEF LegacyRepaired, Frame
  <2>3. quota = snapshot[Wallet].available + SumFunction(Drifts)
    BY <2>2 DEF MirrorInv, LegacyInv
  <2>4. quota' - snapshot'[Wallet].available - Drift(session'[r])
            = quota - snapshot[Wallet].available - Drift(session[r])
    BY <2>1 DEF Moves, LegacyLevel
  <2> QED
    BY <1>4, <1>5, <1>6, <1>7, <2>3, <2>4
<1>9. TokenWalletInv'
  <2>1. SUFFICES ASSUME TokenRepaired'
                 PROVE  token' = snapshot'[Wallet].consumed + snapshot'[Wallet].reserved
                                   + SumFunction(TokenDrifts)'
    BY DEF TokenWalletInv
  <2>2. TokenRepaired
    <3>1. ~Short
      <4>1. SUFFICES ASSUME NEW q \in Requests, session[q].outcome = "short" PROVE FALSE
        BY DEF Short
      <4>2. CASE q = r
        <5>1. session[r].at = "ended"
          BY <4>1, <4>2 DEF MirrorInv, RowsInv, SessionSound
        <5> QED
          BY <5>1
      <4> QED
        BY <1>2, <2>1, <4>1, <4>2 DEF OthersKept, TokenRepaired, Short
    <3> QED
      BY <1>2, <2>1, <3>1 DEF TokenRepaired, Frame
  <2>3. token = snapshot[Wallet].consumed + snapshot[Wallet].reserved + SumFunction(TokenDrifts)
    BY <2>2 DEF MirrorInv, TokenWalletInv
  <2>4. token' - snapshot'[Wallet].consumed - snapshot'[Wallet].reserved - TokenDrift(session'[r])
            = token - snapshot[Wallet].consumed - snapshot[Wallet].reserved - TokenDrift(session[r])
    BY <2>1 DEF Moves, TokenLevel
  <2> DEFINE before == TokenDrift(session[r])
             after  == TokenDrift(session'[r])
             sum    == SumFunction(TokenDrifts)
             sum1   == SumFunction(TokenDrifts)'
  <2>5. sum1 = sum + after - before /\ before \in Int /\ after \in Int /\ sum \in Int
    BY <1>4, <1>5, <1>7
  <2> HIDE DEF before, after, sum, sum1
  <2>6. /\ token' - snapshot'[Wallet].consumed - snapshot'[Wallet].reserved - after
               = token - snapshot[Wallet].consumed - snapshot[Wallet].reserved - before
        /\ token = snapshot[Wallet].consumed + snapshot[Wallet].reserved + sum
    BY <2>3, <2>4 DEF before, after, sum
  <2>7. token' - snapshot'[Wallet].consumed - snapshot'[Wallet].reserved - after = sum - before
    BY <1>5, <1>6, <2>5, <2>6
  <2>8. token' = snapshot'[Wallet].consumed + snapshot'[Wallet].reserved + (sum + after - before)
    <3> DEFINE t == token'
               c == snapshot'[Wallet].consumed
               v == snapshot'[Wallet].reserved
    <3>1. t \in Int /\ c \in Int /\ v \in Int /\ sum \in Int /\ after \in Int /\ before \in Int
      BY <1>5, <1>6, <2>5
    <3>2. t - c - v - after = sum - before
      BY <2>7
    <3> HIDE DEF t, c, v
    <3>3. t = c + v + (sum + after - before)
      BY <3>1, <3>2
    <3> QED
      BY <3>3 DEF t, c, v
  <2>9. token' = snapshot'[Wallet].consumed + snapshot'[Wallet].reserved + sum1
    BY <2>5, <2>8
  <2> QED
    BY <2>9 DEF sum1
<1> QED
  BY <1>1, <1>3, <1>8, <1>9 DEF MirrorInv

\* Nothing that the invariant is about changes.
LEMMA MirrorStutter ==
    ASSUME MirrorInv, UNCHANGED relay, LedgerQuiet
    PROVE  MirrorInv'
<1>1. /\ session' = session /\ quota' = quota /\ token' = token /\ faults' = faults
      /\ crashes' = crashes /\ snapshot' = snapshot /\ reservation' = reservation
      /\ settlement' = settlement /\ outbox' = outbox
  BY DEF relay, LedgerQuiet
<1>2. RowsInv'
  BY <1>1 DEF MirrorInv, RowsInv, RowAgrees, Row, SettledFor
<1>3. BootInv'
  BY <1>1 DEF MirrorInv, BootInv
<1>4. Drifts' = Drifts /\ TokenDrifts' = TokenDrifts
  BY <1>1 DEF Drifts, TokenDrifts
<1>5. LegacyInv'
  BY <1>1, <1>4 DEF MirrorInv, LegacyInv, Bootstrapped, LegacyRepaired, SumFunction
<1>6. TokenWalletInv'
  BY <1>1, <1>4 DEF MirrorInv, TokenWalletInv, Bootstrapped, TokenRepaired, Short, SumFunction
<1> QED
  BY <1>2, <1>3, <1>5, <1>6 DEF MirrorInv

\* The first use of the wallet credits its legacy balance, once.
LEMMA MirrorBootstrap ==
    ASSUME RelayInv, TypeOK, MirrorInv, Bootstrap
    PROVE  MirrorInv'
<1>1. CASE BeginCall(Sync, CreditCall(Key(Sync, "bootstrap"), Wallet, InitialQuota))
  BY <1>1, MirrorStutter DEF Bootstrap, BeginCall, ledger, LedgerQuiet
<1>2. CASE CreditAccountTx(Sync, Key(Sync, "bootstrap"), Wallet, InitialQuota)
  <2> DEFINE k == Key(Sync, "bootstrap")
  <2>1. /\ session' = session /\ quota' = quota /\ token' = token /\ faults' = faults
        /\ crashes' = crashes
    BY DEF Bootstrap, relay
  <2>2. /\ reservation' = reservation /\ settlement' = settlement
        /\ snapshot' = [snapshot EXCEPT ![Wallet] = Credited(snapshot[Wallet], InitialQuota)]
        /\ Record(k, "credit_granted", Wallet)
    BY <1>2 DEF CreditAccountTx
  <2>3. k \in Keys /\ InitialQuota \in Int /\ InitialQuota > 0 /\ 0 \in Int
    BY RequestsAssumption, QuotaAssumption
  <2>4. /\ snapshot[Wallet] = EmptySnapshot /\ session = [r \in Requests |-> NewSession]
        /\ quota = InitialQuota /\ token = 0
    BY <2>2 DEF MirrorInv, BootInv, Record, OutboxFree
  <2>5. outbox'[k].type # "none"
    BY <2>2, <2>3, RecordKeeps DEF EventTypes
  <2>6. WalletMoves(InitialQuota, 0, 0, InitialQuota)
    BY <2>2, <2>3, WalletWritten, Zenon DEF Credited
  <2>7. /\ snapshot'[Wallet].available = InitialQuota /\ snapshot'[Wallet].reserved = 0
        /\ snapshot'[Wallet].consumed = 0 /\ snapshot'[Wallet].granted = InitialQuota
    BY <2>3, <2>4, <2>6 DEF WalletMoves, EmptySnapshot
  <2>8. \A r \in Requests : session[r].at \in {"idle", "ended"}
    BY <2>4 DEF NewSession
  <2>9. SumFunction(Drifts)' = 0 /\ SumFunction(TokenDrifts)' = 0
    <3>1. Drifts' = Drifts /\ TokenDrifts' = TokenDrifts
      BY <2>1 DEF Drifts, TokenDrifts
    <3> QED
      BY <2>8, <3>1, NoDrift DEF SumFunction
  <2>10. RowsInv'
    BY <2>1, <2>2 DEF MirrorInv, RowsInv, RowAgrees, Row, SettledFor
  <2>11. BootInv'
    BY <2>3, <2>5, <2>7 DEF BootInv
  <2>12. LegacyInv'
    BY <2>1, <2>3, <2>4, <2>7, <2>9 DEF LegacyInv
  <2>13. TokenWalletInv'
    BY <2>1, <2>4, <2>7, <2>9 DEF TokenWalletInv
  <2> QED
    BY <2>10, <2>11, <2>12, <2>13 DEF MirrorInv
<1> QED
  BY <1>1, <1>2 DEF Bootstrap

\* Every step of a request but the opening of a transaction moves it.
RequestStep(r) ==
    \/ \E estimate \in 0 .. MaxAmount :
          RefuseSession(r, estimate) \/ \E trusted \in BOOLEAN : OpenSession(r, estimate, trusted)
    \/ TakeToken(r) \/ TokenRefused(r) \/ Reserve(r) \/ ReserveRefused(r)
    \/ Project(r) \/ ProjectFails(r) \/ Undo(r) \/ Untoken(r)
    \/ UpstreamFails(r) \/ \E usage \in 0 .. MaxAmount : UpstreamServes(r, usage)
    \/ SettleProject(r) \/ Settle(r) \/ SettleRefused(r) \/ SettleUndo(r) \/ SettleToken(r)
    \/ RefundProject(r) \/ Release(r) \/ Reproject(r) \/ RefundToken(r) \/ Crash(r)

\* Every call of a request shifts its share by what it does to the books.
LEMMA RequestMoves ==
    ASSUME RelayInv, TypeOK, RowsInv, NEW r \in Requests, RequestStep(r)
    PROVE  Moves(r)
BY RefuseMoves, OpenMoves, TakeTokenMoves, TokenRefusedMoves, ReserveMoves, ReserveRefusedMoves,
   ProjectMoves, ProjectFailsMoves, UndoMoves, UntokenMoves, UpstreamFailsMoves, ServeMoves,
   SettleProjectMoves, SettleMoves, SettleRefusedMoves, SettleUndoMoves, SettleTokenMoves,
   RefundProjectMoves, ReleaseMoves, ReprojectMoves, RefundTokenMoves, CrashMoves
   DEF RequestStep

\* A request that has ended takes no step, and none starts before the first credit.
LEMMA RequestGuard ==
    ASSUME NEW r \in Requests, RequestStep(r)
    PROVE  session[r].at # "ended" /\ (session[r].at # "idle" \/ Bootstrapped)
<1>1. ASSUME NEW estimate, NEW trusted,
             RefuseSession(r, estimate) \/ OpenSession(r, estimate, trusted)
      PROVE  session[r].at = "idle" /\ Bootstrapped
  BY <1>1 DEF RefuseSession, OpenSession, At
<1>2. ASSUME TakeToken(r) \/ TokenRefused(r) \/ Reserve(r) \/ ReserveRefused(r) \/ Crash(r)
      PROVE  session[r].at \notin {"idle", "ended"}
  BY <1>2 DEF TakeToken, TokenRefused, Reserve, ReserveRefused, Crash, At
<1>3. ASSUME Project(r) \/ ProjectFails(r) \/ Undo(r) \/ Untoken(r) \/ UpstreamFails(r)
      PROVE  session[r].at \notin {"idle", "ended"}
  BY <1>3 DEF Project, ProjectFails, Undo, Untoken, UpstreamFails, At
<1>4. ASSUME NEW usage, UpstreamServes(r, usage)
      PROVE  session[r].at \notin {"idle", "ended"}
  BY <1>4 DEF UpstreamServes, At
<1>5. ASSUME SettleProject(r) \/ Settle(r) \/ SettleRefused(r) \/ SettleUndo(r) \/ SettleToken(r)
      PROVE  session[r].at \notin {"idle", "ended"}
  BY <1>5 DEF SettleProject, Settle, SettleRefused, SettleUndo, SettleToken, At
<1>6. ASSUME RefundProject(r) \/ Release(r) \/ Reproject(r) \/ RefundToken(r)
      PROVE  session[r].at \notin {"idle", "ended"}
  BY <1>6 DEF RefundProject, Release, Reproject, RefundToken, At
<1> QED
  BY <1>1, <1>2, <1>3, <1>4, <1>5, <1>6 DEF RequestStep

\* What the balances differ by is what the requests under way account for.
LEMMA MirrorStep ==
    RelayInv /\ RelayInv' /\ TypeOK /\ TypeOK' /\ MirrorInv /\ [RelayNext]_relayVars => MirrorInv'
<1> SUFFICES ASSUME RelayInv, RelayInv', TypeOK, TypeOK', MirrorInv, [RelayNext]_relayVars
             PROVE  MirrorInv'
  OBVIOUS
<1>1. CASE UNCHANGED relayVars
  BY <1>1, MirrorStutter DEF relayVars, vars, ledger, LedgerQuiet
<1>2. CASE Bootstrap
  BY <1>2, MirrorBootstrap
<1>3. ASSUME NEW r \in Requests, BeginReserve(r) \/ BeginUndo(r) \/ BeginSettle(r) \/ BeginRelease(r)
      PROVE  MirrorInv'
  BY <1>3, MirrorStutter
     DEF BeginReserve, BeginUndo, BeginSettle, BeginRelease, BeginCall, ledger, LedgerQuiet
<1>4. ASSUME NEW r \in Requests, RequestStep(r) PROVE MirrorInv'
  <2>1. Moves(r)
    BY <1>4, RequestMoves DEF MirrorInv
  <2>2. session[r].at # "ended" /\ (session[r].at # "idle" \/ Bootstrapped)
    BY <1>4, RequestGuard
  <2>3. Bootstrapped
    BY <2>2 DEF MirrorInv, BootInv, NewSession, Bootstrapped
  <2> QED
    BY <2>1, <2>2, <2>3, MirrorKept
<1> QED
  BY <1>1, <1>2, <1>3, <1>4 DEF RelayNext, Proceed, RequestStep

\* Before the first request, no book has moved.
LEMMA MirrorInit == RelayInit => MirrorInv
<1> SUFFICES ASSUME RelayInit PROVE MirrorInv
  OBVIOUS
<1>1. /\ session = [r \in Requests |-> NewSession] /\ quota = InitialQuota /\ token = 0
      /\ snapshot[Wallet] = EmptySnapshot
      /\ \A r \in Requests : Row(r) = NoReservation
  BY RequestsAssumption, KeysApart DEF RelayInit, Init, Row
<1>2. RowsInv
  BY <1>1 DEF RowsInv, SessionSound, RowAgrees, NewSession, NoReservation, Unreserved, Holds
<1>3. ~Bootstrapped
  BY <1>1 DEF Bootstrapped, EmptySnapshot
<1> QED
  BY <1>1, <1>2, <1>3 DEF MirrorInv, BootInv, LegacyInv, TokenWalletInv

\* The balances are as far apart as the requests under way account for.
LEMMA MirrorInvariant == RelaySpec => [](RelayInv /\ TypeOK /\ MirrorInv)
<1>1. RelayInit => RelayInv /\ TypeOK /\ MirrorInv
  BY RelayInvInit, TypeInit, MirrorInit DEF RelayInit
<1>2. RelayInv /\ TypeOK /\ MirrorInv /\ [RelayNext]_relayVars => (RelayInv /\ TypeOK /\ MirrorInv)'
  BY RelayInvStep, RelayStepIsLedgerStep, TypeStep, MirrorStep
<1> QED
  BY <1>1, <1>2, PTL DEF RelaySpec

\* A request ends as its reservation does: the session that reports a settlement
\* was settled for what it used, and a refused or refunded one, when no call
\* failed, left nothing held.
THEOREM OutcomesMatchLedger == RelaySpec => []OutcomeMatchesLedger
<1>1. MirrorInv => OutcomeMatchesLedger
  BY DEF MirrorInv, RowsInv, RowAgrees, Row, SettledFor, OutcomeMatchesLedger
<1> QED
  BY MirrorInvariant, <1>1, PTL

\* The legacy column equals the ledger balance at rest, however many requests
\* interleaved, failed and were repaired.
THEOREM LegacyMirrored == RelaySpec => []LegacyMirrorsLedger
<1>1. RelayInv /\ TypeOK /\ MirrorInv => LegacyMirrorsLedger
  <2> SUFFICES ASSUME RelayInv, TypeOK, MirrorInv, AtRest,
                      faults \cap {"undo", "settleUndo", "reproject"} = {}
               PROVE  quota = snapshot[Wallet].available
    BY DEF LegacyMirrorsLedger
  <2>1. SumFunction(Drifts) = 0
    BY NoDrift DEF AtRest
  <2>2. quota = snapshot[Wallet].available + 0
    BY <2>1 DEF MirrorInv, LegacyInv, AtRest, LegacyRepaired
  <2> QED
    BY <2>2, WalletTyped
<1> QED
  BY MirrorInvariant, <1>1, PTL

\* What the token was charged is what the wallet paid or still holds, at rest.
THEOREM TokenMirrorsWallet == RelaySpec => []TokenMatchesWallet
<1>1. RelayInv /\ TypeOK /\ MirrorInv => TokenMatchesWallet
  <2> SUFFICES ASSUME RelayInv, TypeOK, MirrorInv, AtRest, ~Short,
                      faults \cap {"undo", "untoken", "refundProject", "release", "refundToken"} = {}
               PROVE  token = snapshot[Wallet].consumed + snapshot[Wallet].reserved
    BY DEF TokenMatchesWallet
  <2>1. SumFunction(TokenDrifts) = 0
    BY NoDrift DEF AtRest
  <2>2. token = snapshot[Wallet].consumed + snapshot[Wallet].reserved + 0
    BY <2>1 DEF MirrorInv, TokenWalletInv, AtRest, TokenRepaired
  <2> QED
    BY <2>2, WalletTyped
<1> QED
  BY MirrorInvariant, <1>1, PTL
=============================================================================
