---------------------------- MODULE ClientSession ----------------------------
(***************************************************************************)
(* Who is signed in, as the web client sees it: the session cookie and the *)
(* local storage that all tabs of a browser share, and for each tab the    *)
(* auth store, the flag that the session has been verified, the page and   *)
(* the requests in flight.                                                 *)
(*                                                                         *)
(* The session is in the cookie and the user it is said to be for is in a  *)
(* header taken from local storage (uid); the server accepts a request if  *)
(* the two agree.  Both are those of the moment the request is sent.       *)
(***************************************************************************)
EXTENDS Integers, FiniteSets

CONSTANTS
    Tabs,           \* the tabs of the browser
    Users,          \* the accounts its user signs in to
    Nobody,         \* no user
    Queries,        \* queries of a page that may be in flight at once
    MaxLogins,      \* bound: sign-ins
    MaxMishaps      \* bound: sessions that expire and requests that fail

ASSUME UsersAssumption == Nobody \notin Users

ASSUME SessionBounds ==
    MaxLogins \in Nat /\ MaxMishaps \in Nat

VARIABLES
    cookie,     \* the user of the session, or Nobody
    pending,    \* the user of a session that waits for the second factor
    savedUser,  \* local storage: user
    uid,        \* local storage: uid, the header of every request
    user,       \* tab -> the user in the auth store
    verified,   \* tab -> sessionVerified, in memory
    page,       \* tab -> where it is
    self,       \* tab -> its GET /api/user/self in flight
    queries,    \* tab -> query -> none, or the answer on its way
    logins, troubles,
    overlapped  \* (history) a sign-in, a sign-out or a 401 came while another
                \* tab had a user or a request was in flight, or a sign-in while
                \* its own tab had a user

browser == <<cookie, pending, savedUser, uid>>

tabs == <<user, verified, page, self, queries>>

tally == <<logins, troubles>>

sessionVars == <<browser, tabs, tally, overlapped>>

Somebody == Users \cup {Nobody}

Pages == {"public", "sign-in", "otp", "provider", "app", "desktop"}

\* Who waits for the answer: the route guard, a sign-in, the callback of an
\* OAuth provider, the guard of the desktop page, or a page that shows the user:
\* the wallet, which also renews the store, or the profile, which does not.
Waiters == {"guard", "login", "oauth", "desktop", "wallet", "profile"}

Shown == {"wallet", "profile"}

NoRequest == [waiters |-> {}]

\* The state is well typed; a request in flight always has somebody waiting
\* for it.
SessionTypeOK ==
    /\ cookie \in Somebody
    /\ pending \in Somebody
    /\ savedUser \in Somebody
    /\ uid \in Somebody
    /\ user \in [Tabs -> Somebody]
    /\ verified \in [Tabs -> BOOLEAN]
    /\ page \in [Tabs -> Pages]
    /\ self \in [Tabs -> {NoRequest} \cup
                    [answer : Somebody, loud : BOOLEAN,
                     waiters : (SUBSET Waiters) \ {{}}]]
    /\ queries \in [Tabs -> [Queries -> {"none", "accepted", "refused"}]]
    /\ logins \in 0..MaxLogins
    /\ troubles \in 0..MaxMishaps
    /\ overlapped \in BOOLEAN

NoQueries == [q \in Queries |-> "none"]

SessionInit ==
    /\ cookie = Nobody
    /\ pending = Nobody
    /\ savedUser = Nobody
    /\ uid = Nobody
    /\ user = [t \in Tabs |-> Nobody]
    /\ verified = [t \in Tabs |-> FALSE]
    /\ page = [t \in Tabs |-> "public"]
    /\ self = [t \in Tabs |-> NoRequest]
    /\ queries = [t \in Tabs |-> NoQueries]
    /\ logins = 0 /\ troubles = 0
    /\ overlapped = FALSE

-----------------------------------------------------------------------------
(* Requests *)

\* authHelper: a session, and a header that names its user.
Accepted(session, header) == session # Nobody /\ header = session

\* getSelf for waiter w: joins the request in flight, if there is one, whoever
\* sent it and whenever.
Asked(request, w, loud, session, header) ==
    IF request = NoRequest
    THEN [answer |-> IF Accepted(session, header) THEN session ELSE Nobody,
          loud |-> loud, waiters |-> {w}]
    ELSE [request EXCEPT !.waiters = @ \cup {w}]

InFlight(t) == self[t] # NoRequest \/ queries[t] # NoQueries

\* A sign-in or sign-out in tab t that something else can see.
Overlaps(t) ==
    \/ \E o \in Tabs : InFlight(o)
    \/ \E o \in Tabs \ {t} : user[o] # Nobody

-----------------------------------------------------------------------------
(* Routes *)

\* Entering the signed-in part of the site, /_authenticated: without a user
\* it redirects to the sign-in page, and the first time the session is
\* verified.
Enter(t, who, trusted, request, session, header) ==
    IF who = Nobody THEN [page |-> "sign-in", self |-> request]
    ELSE IF trusted THEN [page |-> "app", self |-> request]
    ELSE [page |-> page[t], self |-> Asked(request, "guard", FALSE, session, header)]

Goes(t, there) ==
    /\ page' = [page EXCEPT ![t] = there.page]
    /\ self' = [self EXCEPT ![t] = there.self]

\* A tab is opened or loaded again: memory is lost, storage is not.
Load(t) ==
    /\ user' = [user EXCEPT ![t] = savedUser]
    /\ verified' = [verified EXCEPT ![t] = FALSE]
    /\ page' = [page EXCEPT ![t] = "public"]
    /\ self' = [self EXCEPT ![t] = NoRequest]
    /\ queries' = [queries EXCEPT ![t] = NoQueries]
    /\ UNCHANGED <<browser, tally, overlapped>>

\* The user follows a link, unless a guard is still deciding.  The guard runs
\* for links within the signed-in part as well: a tab that lost its user there
\* is sent to the sign-in page.
Free(t) == self[t].waiters \cap {"guard", "login", "oauth", "desktop"} = {}
           /\ page[t] # "provider"

Visit(t) ==
    /\ Free(t)
    /\ Goes(t, Enter(t, user[t], verified[t], self[t], cookie, uid))
    /\ UNCHANGED <<browser, user, verified, queries, tally, overlapped>>

\* The page where a desktop client is approved verifies every time.
VisitDesktop(t) ==
    /\ Free(t) /\ page[t] # "desktop"
    /\ Goes(t, IF user[t] = Nobody
               THEN [page |-> "sign-in", self |-> self[t]]
               ELSE [page |-> page[t],
                     self |-> Asked(self[t], "desktop", FALSE, cookie, uid)])
    /\ UNCHANGED <<browser, user, verified, queries, tally, overlapped>>

-----------------------------------------------------------------------------
(* Signing in *)

\* The sign-in page may still be open when the late answer to a page that was
\* left has put a user into the store.
Counted(t) ==
    /\ logins < MaxLogins
    /\ logins' = logins + 1
    /\ overlapped' = (overlapped \/ Overlaps(t) \/ user[t] # Nobody)
    /\ troubles' = troubles

\* Mutant of Login: the uid is not saved before the user is asked for.
LoginIdLater(t, u) ==
    /\ page[t] = "sign-in" /\ Free(t)
    /\ Counted(t)
    /\ cookie' = u
    /\ uid' = uid
    /\ self' = [self EXCEPT ![t] = Asked(self[t], "login", FALSE, u, uid)]
    /\ UNCHANGED <<pending, savedUser, user, verified, page, queries>>

\* Password, passkey or WeChat code accepted: handleLoginSuccess saves the uid
\* before it asks who this is.
Login(t, u) ==
    /\ page[t] = "sign-in" /\ Free(t)
    /\ Counted(t)
    /\ cookie' = u
    /\ uid' = u
    /\ self' = [self EXCEPT ![t] = Asked(self[t], "login", FALSE, u, u)]
    /\ UNCHANGED <<pending, savedUser, user, verified, page, queries>>

\* The password is accepted but a second factor is wanted.
LoginNeeds2FA(t, u) ==
    /\ page[t] = "sign-in" /\ Free(t)
    /\ logins < MaxLogins
    /\ pending' = u
    /\ page' = [page EXCEPT ![t] = "otp"]
    /\ UNCHANGED <<cookie, savedUser, uid, user, verified, self, queries, tally,
                   overlapped>>

\* Mutant of Login2FA: the uid is left to other code.
Login2FAKeepingId(t) ==
    /\ page[t] = "otp" /\ pending # Nobody
    /\ Counted(t)
    /\ cookie' = pending
    /\ pending' = Nobody
    /\ savedUser' = pending
    /\ uid' = uid
    /\ user' = [user EXCEPT ![t] = pending]
    /\ Goes(t, Enter(t, pending, verified[t], self[t], pending, uid))
    /\ UNCHANGED <<verified, queries>>

\* The code is accepted: its answer holds the user; the sign-in page then
\* redirects, as there is one.
Login2FA(t) ==
    /\ page[t] = "otp" /\ pending # Nobody
    /\ Counted(t)
    /\ cookie' = pending
    /\ pending' = Nobody
    /\ savedUser' = pending
    /\ uid' = pending
    /\ user' = [user EXCEPT ![t] = pending]
    /\ Goes(t, Enter(t, pending, verified[t], self[t], pending, pending))
    /\ UNCHANGED <<verified, queries>>

\* resetSession, then off to the provider: the page is unloaded.  The logout
\* may fail, which is ignored.
StartOAuth(t) ==
    /\ page[t] = "sign-in" /\ Free(t)
    /\ cookie' \in {Nobody, cookie}
    /\ savedUser' = Nobody
    /\ user' = [user EXCEPT ![t] = Nobody]
    /\ verified' = [verified EXCEPT ![t] = FALSE]
    /\ page' = [page EXCEPT ![t] = "provider"]
    /\ self' = [self EXCEPT ![t] = NoRequest]
    /\ queries' = [queries EXCEPT ![t] = NoQueries]
    /\ overlapped' = (overlapped \/ Overlaps(t))
    /\ UNCHANGED <<pending, uid, tally>>

\* Back at /oauth/$provider, and the code is accepted.
OAuthCallback(t, u) ==
    /\ page[t] = "provider" /\ self[t] = NoRequest
    /\ Counted(t)
    /\ cookie' = u
    /\ savedUser' = u
    /\ uid' = u
    /\ user' = [user EXCEPT ![t] = u]
    /\ Goes(t, Enter(t, u, FALSE, NoRequest, u, u))
    /\ UNCHANGED <<pending, verified, queries>>

\* The code is refused: perhaps there is a session all the same.
OAuthFails(t) ==
    /\ page[t] = "provider" /\ self[t] = NoRequest
    /\ self' = [self EXCEPT ![t] = Asked(NoRequest, "oauth", FALSE, cookie, uid)]
    /\ UNCHANGED <<browser, user, verified, page, queries, tally, overlapped>>

-----------------------------------------------------------------------------
(* Answers *)

\* The user is known: all but the profile set the store and local storage.
SelfKnown(t) ==
    LET who == self[t].answer
        waiters == self[t].waiters
    IN  /\ who # Nobody
        /\ user' = IF waiters = {"profile"} THEN user ELSE [user EXCEPT ![t] = who]
        /\ savedUser' = IF waiters = {"profile"} THEN savedUser ELSE who
        /\ uid' = IF waiters \cap {"login", "oauth"} # {} THEN who ELSE uid
        /\ verified' = [verified EXCEPT ![t] = @ \/ "guard" \in waiters]
        /\ Goes(t, IF waiters \subseteq Shown THEN [page |-> page[t], self |-> NoRequest]
                   ELSE IF "desktop" \in waiters
                   THEN [page |-> "desktop", self |-> NoRequest]
                   ELSE Enter(t, who, verified'[t], NoRequest, cookie, uid'))
        /\ UNCHANGED <<cookie, pending, queries, tally, overlapped>>

\* Refused or failed: guards clear the store; a sign-in goes on without a user
\* and is turned back by the guard.  A refusal of a request that did not ask
\* for silence clears the store as well.
NotKnown(t, refused) ==
    LET waiters == self[t].waiters
        clears == \/ waiters \cap {"guard", "desktop"} # {}
                  \/ refused /\ self[t].loud
        who == IF clears THEN Nobody ELSE user[t]
    IN  /\ user' = [user EXCEPT ![t] = who]
        /\ savedUser' = IF clears THEN Nobody ELSE savedUser
        /\ Goes(t, CASE waiters \subseteq Shown -> [page |-> page[t], self |-> NoRequest]
                     [] "login" \in waiters ->
                            Enter(t, who, verified[t], NoRequest, cookie, uid)
                     [] OTHER -> [page |-> "sign-in", self |-> NoRequest])
        /\ UNCHANGED <<cookie, pending, uid, verified, queries, overlapped>>

SelfRefused(t) ==
    /\ self[t] # NoRequest /\ self[t].answer = Nobody
    /\ NotKnown(t, TRUE)
    /\ UNCHANGED tally

SelfFails(t) ==
    /\ self[t] # NoRequest
    /\ troubles < MaxMishaps
    /\ troubles' = troubles + 1
    /\ NotKnown(t, FALSE)
    /\ logins' = logins

SelfAnswered(t) ==
    self[t] # NoRequest /\ (SelfKnown(t) \/ SelfRefused(t))

\* A page shows the user: the wallet asks with getSelf, the profile with a
\* request of its own to the same address that does not ask for silence.
FetchUser(t, w) ==
    /\ page[t] = "app"
    /\ w \notin self[t].waiters
    /\ self' = [self EXCEPT ![t] = Asked(self[t], w, w = "profile", cookie, uid)]
    /\ UNCHANGED <<browser, user, verified, page, queries, tally, overlapped>>

\* A page queries something else.
Query(t, q) ==
    /\ page[t] = "app" /\ queries[t][q] = "none"
    /\ queries' = [queries EXCEPT ![t][q] =
                      IF Accepted(cookie, uid) THEN "accepted" ELSE "refused"]
    /\ UNCHANGED <<browser, user, verified, page, self, tally, overlapped>>

\* Mutant of QueryAnswered: any answer ends the session.
QueryAnsweredAny(t, q) ==
    /\ queries[t][q] # "none"
    /\ queries' = [queries EXCEPT ![t][q] = "none"]
    /\ user' = [user EXCEPT ![t] = Nobody]
    /\ savedUser' = Nobody
    /\ page' = [page EXCEPT ![t] = "sign-in"]
    /\ overlapped' = (overlapped \/ self[t] # NoRequest)
    /\ UNCHANGED <<cookie, pending, uid, verified, self, tally>>

\* Its answer: the query cache's onError ends the session of the tab on a 401.
QueryAnswered(t, q) ==
    /\ queries[t][q] # "none"
    /\ queries' = [queries EXCEPT ![t][q] = "none"]
    /\ IF queries[t][q] = "refused"
       THEN /\ user' = [user EXCEPT ![t] = Nobody]
            /\ savedUser' = Nobody
            /\ page' = [page EXCEPT ![t] = "sign-in"]
            /\ overlapped' = (overlapped \/ self[t] # NoRequest)
       ELSE UNCHANGED <<user, savedUser, page, overlapped>>
    /\ UNCHANGED <<cookie, pending, uid, verified, self, tally>>

-----------------------------------------------------------------------------
(* Signing out *)

\* The logout may fail, which is ignored; storage is cleared and the page
\* loaded again, where the guard finds no user.
SignOut(t) ==
    /\ page[t] = "app" /\ Free(t)
    /\ cookie' \in {Nobody, cookie}
    /\ savedUser' = Nobody
    /\ uid' = Nobody
    /\ user' = [user EXCEPT ![t] = Nobody]
    /\ verified' = [verified EXCEPT ![t] = FALSE]
    /\ page' = [page EXCEPT ![t] = "sign-in"]
    /\ self' = [self EXCEPT ![t] = NoRequest]
    /\ queries' = [queries EXCEPT ![t] = NoQueries]
    /\ overlapped' = (overlapped \/ Overlaps(t))
    /\ UNCHANGED <<pending, tally>>

Expire ==
    /\ cookie # Nobody
    /\ troubles < MaxMishaps
    /\ troubles' = troubles + 1
    /\ cookie' = Nobody
    /\ UNCHANGED <<pending, savedUser, uid, tabs, logins, overlapped>>

-----------------------------------------------------------------------------
Arrives(t) == SelfAnswered(t) \/ \E q \in Queries : QueryAnswered(t, q)

SessionNext ==
    \/ \E t \in Tabs :
        \/ Load(t)
        \/ Visit(t)
        \/ VisitDesktop(t)
        \/ \E u \in Users : Login(t, u) \/ LoginNeeds2FA(t, u) \/ OAuthCallback(t, u)
        \/ Login2FA(t)
        \/ StartOAuth(t)
        \/ OAuthFails(t)
        \/ SelfFails(t)
        \/ \E w \in Shown : FetchUser(t, w)
        \/ \E q \in Queries : Query(t, q)
        \/ SignOut(t)
        \/ Arrives(t)
    \/ Expire

\* Requests are answered in the end; nobody has to do anything.
SessionSpec == SessionInit /\ [][SessionNext]_sessionVars /\ \A t \in Tabs : WF_sessionVars(Arrives(t))

-----------------------------------------------------------------------------
(* Properties *)

\* What a tab shows, what its requests claim and what the session is agree: the
\* user in the store is the user of the session and the header names it, while
\* there is a session.
IdentityAgrees ==
    \A t \in Tabs :
        ~overlapped /\ user[t] # Nobody /\ cookie # Nobody
        => user[t] = cookie /\ uid = cookie

\* Two entries of local storage, written by different code, agree: the user a
\* tab will start with is the one its requests will claim to be.
StorageAgrees ==
    ~overlapped => savedUser \in {Nobody, uid}

\* Cookie, storage, header and every tab name one user, through each of the ways
\* to sign in and out.
SessionInv == SessionTypeOK /\ IdentityAgrees /\ StorageAgrees

\* "Only a failed session validation proves that the browser session expired"
\* (lib/api.ts): an answer that makes a tab forget its user, to a validation by
\* the route guard or the desktop page, to the profile or to a query, means that
\* there is no session or that it is not that user's, while sign-ins and
\* requests do not overlap.  (The refusal of a query sent before a new sign-in
\* may come after it, and ends the new session.)  Only a validation that fails
\* without an answer, signing out and loading the tab again may forget a user
\* whose session goes on.
ForgottenOnlyIfExpiredAlone ==
    [][ \A t \in Tabs :
          Arrives(t) /\ user[t] # Nobody /\ user'[t] = Nobody /\ ~overlapped
          => ~Accepted(cookie, uid) ]_sessionVars

Undisturbed == troubles = 0 /\ ~overlapped

\* An accepted sign-in arrives: the user gets to the signed-in part of the
\* site, through the guard's verification, unless something fails, expires or
\* overlaps, or the tab is loaded again.
LoginArrives ==
    \A t \in Tabs :
        "login" \in self[t].waiters
            ~> page[t] = "app" \/ page[t] = "public" \/ ~Undisturbed
=============================================================================
