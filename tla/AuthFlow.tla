------------------------------- MODULE AuthFlow -------------------------------
(***************************************************************************)
(* Signing in and out of the web interface: the authentication provider    *)
(* (useAuth), the loading screen and the guard re-run of App, the guards   *)
(* of the router, the Login and Setup forms and the menu of the layout.    *)
(*                                                                         *)
(* Several browser tabs share one cookie jar and one local storage.  An    *)
(* operation of a tab is a sequence of requests; each is sent with the     *)
(* cookie of that moment, handled by the server, and its answer (which may *)
(* set or clear the cookie) reaches the tab later, or is lost.  While an   *)
(* operation runs the tab shows the loading screen instead of its page.    *)
(* A user is named by its role.                                            *)
(***************************************************************************)
EXTENDS Naturals, Sequences

CONSTANTS
    Tabs,        \* browser tabs
    None,
    Visits,      \* addresses the user types
    Boot,        \* accounts that may exist when the first tab opens
    MaxLoads,    \* page loads
    MaxOps,      \* submissions and sign-outs
    MaxFaults    \* refused or lost requests, ended sessions

VARIABLES
    accounts,    \* users of the server
    sessions,    \* live sessions
    cookie,      \* session identifier in the cookie jar, or 0
    storage,     \* dmanager_user and dmanager_token
    page,        \* the state of each tab
    op,          \* the operation each tab runs
    trusted,     \* history: nothing happened behind the tab's back
    left         \* what is left of the bounds

vars == <<accounts, sessions, cookie, storage, page, op, trusted, left>>

server == <<accounts, sessions>>

-----------------------------------------------------------------------------
Users == {"admin", "viewer"}

\* An operation that signs in is given the identifier of its session up front.
SessionIds == 1..MaxOps

Paths == {"/", "/login", "/setup", "/logs", "/audit-logs",
          "/administration", "/administration/images", "/administration/other",
          "/settings", "/settings/general", "/settings/other"}

ASSUME AuthAssumption ==
    /\ Visits \subseteq Paths
    /\ Boot \subseteq SUBSET Users
    /\ MaxLoads \in Nat /\ MaxOps \in Nat /\ MaxFaults \in Nat

\* The requests of each operation, in order.
Steps == [check   |-> <<"status", "me">>,
          login   |-> <<"login">>,
          passkey |-> <<"begin", "finish">>,
          setup   |-> <<"setup", "login">>,
          logout  |-> <<"logout", "status">>]

ASSUME NoneAssumption == None \notin Users \cup DOMAIN Steps

Answers == {"none", "ok", "unauthenticated", "error"}

Op == UNION {[kind: {k}, step: 1..Len(Steps[k]), sent: SessionIds \cup {0},
              answer: Answers, user: Users \cup {None}, setup: BOOLEAN,
              sid: SessionIds \cup {0}]: k \in DOMAIN Steps}

\* A tab: its user and flags, its route, whether the guards are due, and what
\* became of the form the user submitted (is it still mounted, its banner).
Page == [user: Users \cup {None}, auth: BOOLEAN, setup: BOOLEAN, loading: BOOLEAN,
         route: Paths, due: BOOLEAN, same: BOOLEAN, banner: BOOLEAN, failed: BOOLEAN]

Idle == [kind |-> None, step |-> 1, sent |-> 0, answer |-> "none",
         user |-> None, setup |-> FALSE, sid |-> 0]

Bound == [loads |-> MaxLoads, ops |-> MaxOps, faults |-> MaxFaults]

Spend(kind) == left[kind] > 0 /\ left' = [left EXCEPT ![kind] = @ - 1]

TypeOK ==
    /\ accounts \subseteq Users
    /\ sessions \subseteq [id: SessionIds, user: Users]
    /\ cookie \in SessionIds \cup {0}
    /\ storage \in [user: Users \cup {None}, token: BOOLEAN]
    /\ page \in [Tabs -> Page]
    /\ op \in [Tabs -> Op \cup {Idle}]
    /\ trusted \in [Tabs -> BOOLEAN]
    /\ left \in [DOMAIN Bound -> Nat]

-----------------------------------------------------------------------------
(* The guards of the router. *)

SetupGuard(p) == IF p.setup THEN "/setup" ELSE IF p.auth THEN "/" ELSE "/login"

LoginGuard(p) == IF p.setup THEN "/setup" ELSE IF p.auth THEN "/" ELSE "/login"

\* What every protected page asks for before its own condition.
SignedIn(p, path) == IF p.setup THEN "/setup" ELSE IF p.auth THEN path ELSE "/login"

AuditGuard(p) == SignedIn(p, IF p.user = "admin" THEN "/audit-logs" ELSE "/")

AdministrationGuard(p) == SignedIn(p, "/administration/images")

SettingsGuard(p) == SignedIn(p, "/settings/general")

\* Where the guard of a route sends the user: to the route itself, or away.
Guard(path, p) ==
    CASE path = "/setup"      -> SetupGuard(p)
      [] path = "/login"      -> LoginGuard(p)
      [] path = "/audit-logs" -> AuditGuard(p)
      [] path \in {"/administration", "/administration/images", "/administration/other"}
                              -> AdministrationGuard(p)
      [] path \in {"/settings", "/settings/general", "/settings/other"}
                              -> SettingsGuard(p)
      [] OTHER                -> SignedIn(p, path)

\* The router follows redirects until a guard lets it pass.
Lands(path, p) == Guard(Guard(Guard(path, p), p), p)

\* The menu of the layout.
Links(p) ==
    {"/", "/logs", "/administration/images", "/settings/general"}
        \cup (IF p.user = "admin" THEN {"/audit-logs"} ELSE {})

InLayout(p) == ~p.loading /\ p.route \notin {"/login", "/setup"}

FollowLink(t) ==
    /\ InLayout(page[t])
    /\ \E path \in Links(page[t]):
          /\ path \in Visits
          /\ page' = [page EXCEPT ![t].route = Lands(path, page[t])]
    /\ UNCHANGED <<server, cookie, storage, op, trusted, left>>

\* router.invalidate() asked for the guards; they run on the current state.
RunGuards(t) ==
    /\ ~page[t].loading /\ page[t].due
    /\ page' = [page EXCEPT ![t].route = Lands(@, page[t]), ![t].due = FALSE]
    /\ UNCHANGED <<server, cookie, storage, op, trusted, left>>

-----------------------------------------------------------------------------
(* The provider: what an operation does to the tab and to the storage. *)

SignedInAs(p, user) == [p EXCEPT !.user = user, !.auth = TRUE, !.setup = FALSE]

Cleared(p) == [p EXCEPT !.user = None, !.auth = FALSE]

Stored(user) == [user |-> user, token |-> TRUE]

Erased == [user |-> None, token |-> FALSE]

\* The loading screen replaces the page: the form that was on it is unmounted.
Loading(p) ==
    [p EXCEPT !.loading = TRUE, !.same = FALSE, !.banner = FALSE, !.failed = FALSE]

\* Mutant: the guards run again only when isAuthenticated changed.
SettledOnFlip(p, was) ==
    [p EXCEPT !.loading = FALSE,
              !.due = was.auth # p.auth \/ was.setup # p.setup]

\* Loading ends: the page is mounted again and the guards are asked for.
Settled(p, was) == [p EXCEPT !.loading = FALSE, !.due = TRUE]

Start(kind, sid) ==
    [Idle EXCEPT !.kind = kind, !.sent = cookie, !.sid = sid]

\* The next request of an operation, sent with the cookie of now.
Advance(o, now) ==
    [o EXCEPT !.step = @ + 1, !.sent = now, !.answer = "none", !.user = None,
              !.setup = FALSE]

\* A page load: the provider starts from the storage and checks the session.
Load(t) ==
    /\ Spend("loads")
    /\ \E path \in Visits:
          page' = [page EXCEPT ![t] =
              [user |-> storage.user, auth |-> storage.token, setup |-> FALSE,
               loading |-> TRUE, route |-> path, due |-> FALSE,
               same |-> FALSE, banner |-> FALSE, failed |-> FALSE]]
    /\ op' = [op EXCEPT ![t] = Start("check", 0)]
    /\ trusted' = [trusted EXCEPT ![t] = FALSE]
    /\ UNCHANGED <<server, cookie, storage>>

\* The operations the user starts, each from the page that offers it.
Begin(t, kind) ==
    /\ Spend("ops")
    /\ page' = [page EXCEPT ![t] = Loading([@ EXCEPT !.same = TRUE])]
    /\ op' = [op EXCEPT ![t] = Start(kind, MaxOps + 1 - left.ops)]
    /\ UNCHANGED <<server, cookie, storage, trusted>>

\* The form is submitted and passes its own validation.
SubmitLogin(t) ==
    /\ ~page[t].loading /\ page[t].route = "/login"
    /\ Begin(t, "login") \/ Begin(t, "passkey")

SubmitSetup(t) ==
    /\ ~page[t].loading /\ page[t].route = "/setup"
    /\ Begin(t, "setup")

SignOut(t) == InLayout(page[t]) /\ Begin(t, "logout")

-----------------------------------------------------------------------------
(* The server. *)

Pending(t, steps) ==
    /\ op[t] # Idle /\ op[t].answer = "none"
    /\ Steps[op[t].kind][op[t].step] \in steps

Live(sid) == {s \in sessions: s.id = sid}

\* Whatever changes a session or the cookie happens behind the other tabs' back.
Alone(t, value) == [u \in Tabs |-> IF u = t THEN value ELSE FALSE]

ServeStatus(t) ==
    /\ Pending(t, {"status", "begin"})
    /\ op' = [op EXCEPT ![t].answer = "ok", ![t].setup = (accounts = {})]
    /\ UNCHANGED <<server, cookie, storage, page, trusted, left>>

ServeMe(t) ==
    /\ Pending(t, {"me"})
    /\ IF Live(op[t].sent) = {}
       THEN op' = [op EXCEPT ![t].answer = "unauthenticated"]
       ELSE \E s \in Live(op[t].sent):
               op' = [op EXCEPT ![t].answer = "ok", ![t].user = s.user]
    /\ trusted' = [trusted EXCEPT ![t] = (op[t].sent = cookie)]
    /\ UNCHANGED <<server, cookie, storage, page, left>>

ServeSetup(t) ==
    /\ Pending(t, {"setup"})
    /\ IF accounts = {}
       THEN accounts' = {"admin"} /\ op' = [op EXCEPT ![t].answer = "ok"]
       ELSE UNCHANGED accounts /\ op' = [op EXCEPT ![t].answer = "error"]
    /\ UNCHANGED <<sessions, cookie, storage, page, trusted, left>>

ServeLogin(t) ==
    /\ Pending(t, {"login", "finish"})
    /\ \E u \in IF op[t].kind = "setup" THEN {"admin"} ELSE accounts:
          /\ sessions' = sessions \cup {[id |-> op[t].sid, user |-> u]}
          /\ op' = [op EXCEPT ![t].answer = "ok", ![t].user = u]
    /\ UNCHANGED <<accounts, cookie, storage, page, trusted, left>>

\* Wrong credentials, a rate limit, a passkey prompt the user dismisses; before
\* setup there is nobody to sign in.
RefuseLogin(t) ==
    /\ Pending(t, {"login", "finish"})
    /\ IF accounts = {} THEN UNCHANGED left ELSE Spend("faults")
    /\ op' = [op EXCEPT ![t].answer = "unauthenticated"]
    /\ UNCHANGED <<server, cookie, storage, page, trusted>>

\* Signing out needs a live session; the session ends.
ServeLogout(t) ==
    /\ Pending(t, {"logout"})
    /\ sessions' = sessions \ Live(op[t].sent)
    /\ op' = [op EXCEPT ![t].answer = IF Live(op[t].sent) = {} THEN "unauthenticated"
                                                              ELSE "ok"]
    /\ trusted' = Alone(t, op[t].sent = cookie)
    /\ UNCHANGED <<accounts, cookie, storage, page, left>>

\* The request or its answer is lost.
Lose(t) ==
    /\ op[t] # Idle /\ op[t].answer \in {"none", "ok"}
    /\ Spend("faults")
    /\ op' = [op EXCEPT ![t].answer = "error"]
    /\ trusted' = [trusted EXCEPT ![t] = FALSE]
    /\ UNCHANGED <<server, cookie, storage, page>>

\* A session expires or is revoked elsewhere.
EndSession ==
    /\ Spend("faults")
    /\ \E s \in sessions: sessions' = sessions \ {s}
    /\ trusted' = [t \in Tabs |-> FALSE]
    /\ UNCHANGED <<accounts, cookie, storage, page, op>>

-----------------------------------------------------------------------------
(* The answers, as the provider handles them. *)

Answered(t, steps) ==
    /\ op[t] # Idle /\ op[t].answer # "none"
    /\ Steps[op[t].kind][op[t].step] \in steps

Ends(t, p) ==
    /\ page' = [page EXCEPT ![t] = Settled(p, page[t])]
    /\ op' = [op EXCEPT ![t] = Idle]

\* Mutant: a failed status request at the end of a sign-out is not caught.
LandStatusForgets(t) ==
    /\ Answered(t, {"status"})
    /\ op[t].kind = "check" \/ op[t].answer = "ok"
    /\ LET p == IF op[t].answer = "ok" THEN [page[t] EXCEPT !.setup = op[t].setup]
                                       ELSE page[t]
       IN  IF op[t].kind = "logout"
           THEN Ends(t, p)
           ELSE /\ page' = [page EXCEPT ![t] = p]
                /\ op' = [op EXCEPT ![t] = Advance(@, cookie)]
    /\ UNCHANGED <<server, cookie, storage, trusted, left>>

\* The status tells whether setup is due; a failure is ignored.  checkAuth
\* goes on to ask who is signed in, logout is done.
LandStatus(t) ==
    /\ Answered(t, {"status"})
    /\ LET p == IF op[t].answer = "ok" THEN [page[t] EXCEPT !.setup = op[t].setup]
                                       ELSE page[t]
       IN  IF op[t].kind = "logout"
           THEN Ends(t, p)
           ELSE /\ page' = [page EXCEPT ![t] = p]
                /\ op' = [op EXCEPT ![t] = Advance(@, cookie)]
    /\ UNCHANGED <<server, cookie, storage, trusted, left>>

\* Mutant: a refused session keeps the user.
LandMeKeeps(t) ==
    /\ Answered(t, {"me"})
    /\ IF op[t].answer = "ok"
       THEN Ends(t, SignedInAs(page[t], op[t].user)) /\ storage' = Stored(op[t].user)
       ELSE Ends(t, page[t]) /\ UNCHANGED storage
    /\ UNCHANGED <<server, cookie, trusted, left>>

\* A session: signed in.  None: signed out.  Any other failure changes nothing.
LandMe(t) ==
    /\ Answered(t, {"me"})
    /\ CASE op[t].answer = "ok" ->
              Ends(t, SignedInAs(page[t], op[t].user)) /\ storage' = Stored(op[t].user)
         [] op[t].answer = "unauthenticated" ->
              Ends(t, Cleared(page[t])) /\ storage' = Erased
         [] OTHER -> Ends(t, page[t]) /\ UNCHANGED storage
    /\ UNCHANGED <<server, cookie, trusted, left>>

\* The form's handler writes the error to the form it was called from.
Reported(p) == [p EXCEPT !.banner = p.same, !.failed = TRUE]

\* A sign-in submitted before the guards replaced the form, and refused, clears
\* the tab but not the session it already had.
FailOperation(t) ==
    /\ Answered(t, {"login", "begin", "finish", "setup"})
    /\ op[t].answer # "ok"
    /\ Ends(t, Reported(Cleared(page[t])))
    /\ storage' = Erased
    /\ trusted' = [trusted EXCEPT ![t] = @ /\ ~page[t].auth]
    /\ UNCHANGED <<server, cookie, left>>

LandLogin(t) ==
    /\ Answered(t, {"login", "finish"})
    /\ op[t].answer = "ok"
    /\ cookie' = op[t].sid
    /\ Ends(t, SignedInAs(page[t], op[t].user))
    /\ storage' = Stored(op[t].user)
    /\ trusted' = Alone(t, Live(op[t].sid) # {})
    /\ UNCHANGED <<server, left>>

\* setupAdmin signs in once the account exists; a passkey login asks the
\* authenticator and finishes.
LandFirstStep(t) ==
    /\ Answered(t, {"setup", "begin"})
    /\ op[t].answer = "ok"
    /\ page' = [page EXCEPT ![t].setup = @ /\ op[t].kind # "setup"]
    /\ op' = [op EXCEPT ![t] = Advance(@, cookie)]
    /\ UNCHANGED <<server, cookie, storage, trusted, left>>

\* Whatever the server said, the tab is signed out; then the status is asked.
LandLogout(t) ==
    /\ Answered(t, {"logout"})
    /\ cookie' = IF op[t].answer = "ok" THEN 0 ELSE cookie
    /\ page' = [page EXCEPT ![t] = Cleared(@)]
    /\ storage' = Erased
    /\ op' = [op EXCEPT ![t] = Advance(@, cookie')]
    /\ trusted' = IF op[t].answer = "ok" THEN Alone(t, TRUE) ELSE trusted
    /\ UNCHANGED <<server, left>>

-----------------------------------------------------------------------------
Init ==
    /\ accounts \in Boot
    /\ sessions = {} /\ cookie = 0
    /\ storage = Erased
    /\ page = [t \in Tabs |->
           [user |-> None, auth |-> FALSE, setup |-> FALSE, loading |-> TRUE,
            route |-> "/", due |-> FALSE, same |-> FALSE, banner |-> FALSE,
            failed |-> FALSE]]
    /\ op = [t \in Tabs |-> Start("check", 0)]
    /\ trusted = [t \in Tabs |-> FALSE]
    /\ left = Bound

UserStep(t) == Load(t) \/ SubmitLogin(t) \/ SubmitSetup(t) \/ SignOut(t) \/ FollowLink(t)

ServerStep(t) ==
    ServeStatus(t) \/ ServeMe(t) \/ ServeSetup(t) \/ ServeLogin(t) \/ ServeLogout(t)

TabStep(t) ==
    \/ LandStatus(t) \/ LandMe(t) \/ FailOperation(t) \/ LandLogin(t)
    \/ LandFirstStep(t) \/ LandLogout(t) \/ RunGuards(t)

Next ==
    \/ EndSession
    \/ \E t \in Tabs: UserStep(t) \/ ServerStep(t) \/ RefuseLogin(t) \/ Lose(t) \/ TabStep(t)

\* Every request is handled, every answer is processed, the guards run.
Fairness == \A t \in Tabs: WF_vars(ServerStep(t) \/ RefuseLogin(t)) /\ WF_vars(TabStep(t))

Spec == Init /\ [][Next]_vars /\ Fairness

-----------------------------------------------------------------------------
(* Properties. *)

\* A tab that has settled shows a page its guards allow: whatever an operation
\* did to the user, its flags or its role, App asked for the guards afterwards
\* (App.tsx:13-30).
RouteAllowed ==
    \A t \in Tabs: ~page[t].loading /\ ~page[t].due => Guard(page[t].route, page[t]) = page[t].route

\* Unless something happened behind the tab's back, an answer was lost or a
\* sign-in was refused while signed in, a settled tab shows the user whose session the browser's cookie names.
ShowsSessionUser ==
    \A t \in Tabs: trusted[t] /\ ~page[t].loading =>
        /\ page[t].auth <=> Live(cookie) # {}
        /\ \A s \in Live(cookie): page[t].user = s.user

\* No tab stays on the loading screen or on a page whose guards are due.
Settles ==
    \A t \in Tabs: (page[t].loading \/ page[t].due) ~> (~page[t].loading /\ ~page[t].due)

\* Login.test.tsx:112 "displays API error banner if login fails": a form that
\* is on screen after its submission failed shows the error.
LoginErrorShown ==
    \A t \in Tabs: page[t].failed /\ ~page[t].loading /\ page[t].route = "/login"
                      => page[t].banner
=============================================================================
