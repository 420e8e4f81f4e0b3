--------------------------- MODULE AuthFlow_proofs ---------------------------
(***************************************************************************)
(* Proofs about signing in and out: a tab that has settled shows a page    *)
(* its guards allow, and the user whose session the browser's cookie       *)
(* names.  They hold for any number of tabs, operations, page loads and    *)
(* lost requests, in any interleaving.                                     *)
(***************************************************************************)
EXTENDS AuthFlow, TLAPS

\* Zenon proves the steps that do not name another prover.
USE Zenon

\* An operation, without the relation between its kind and its step.
OpShape == [kind: DOMAIN Steps \cup {None}, step: {1, 2}, sent: Nat, answer: Answers,
            user: Users \cup {None}, setup: BOOLEAN, sid: Nat]

Shapes ==
    /\ accounts \subseteq Users
    /\ sessions \subseteq [id: Nat, user: Users]
    /\ cookie \in Nat
    /\ storage \in [user: Users \cup {None}, token: BOOLEAN]
    /\ page \in [Tabs -> Page]
    /\ op \in [Tabs -> OpShape]
    /\ \A t \in Tabs : /\ op[t].kind = "login" => op[t].step = 1
                       /\ op[t].kind = None => op[t] = Idle
    /\ trusted \in [Tabs -> BOOLEAN]
    /\ left \in [DOMAIN Bound -> Nat] /\ left.ops <= MaxOps

\* A tab with an operation shows the loading screen.
Guarded ==
    /\ \A t \in Tabs : op[t] # Idle => page[t].loading
    /\ RouteAllowed

-----------------------------------------------------------------------------
Signing == {"login", "passkey", "setup"}

\* The session of an operation that signs in is still to be created, or was.
FirstOfTwo(o) == o.step = 1 /\ o.kind # "login"
MaySign(o) == o.kind \in Signing /\ (o.answer = "none" \/ FirstOfTwo(o))
HasSigned(o) == o.kind \in Signing /\ o.answer = "ok" /\ ~FirstOfTwo(o)

Used == MaxOps - left.ops

\* Identifiers of sessions are given out once.
OneSessionEach ==
    /\ \A s \in sessions : s.id \in 1..Used
    /\ \A s, u \in sessions : s.id = u.id => s = u
    /\ cookie \in 0..Used
    /\ \A t \in Tabs : op[t].sid \in 0..Used
    /\ \A t, u \in Tabs : op[t].sid = op[u].sid /\ op[t].sid # 0 => t = u
    /\ \A t \in Tabs : MaySign(op[t]) =>
          op[t].sid # 0 /\ op[t].sid # cookie /\ \A s \in sessions : s.id # op[t].sid
    /\ \A t \in Tabs : HasSigned(op[t]) =>
          op[t].sid # 0 /\ \A s \in sessions : s.id = op[t].sid => s.user = op[t].user

\* The user of a tab is the one of the live session of the cookie, if any.
Agrees(p, live) == (p.auth <=> live # {}) /\ \A s \in live : p.user = s.user

\* What a trusted tab knows of the cookie's session while its operation runs.
Knows(o, p, live) ==
    /\ o.kind \in Signing \cup {None} => Agrees(p, live)
    /\ o.kind = "check" =>
          /\ o.step = 2 /\ o.answer \in {"ok", "unauthenticated"}
          /\ o.answer = "ok" => \E s \in live : s.user = o.user
          /\ o.answer = "unauthenticated" => live = {}
    /\ o.kind = "logout" /\ o.step = 1 /\ o.answer # "none" =>
          o.answer = "ok" \/ (o.answer = "unauthenticated" /\ live = {})
    /\ o.kind = "logout" /\ o.step = 2 => ~p.auth /\ live = {}

Trusting == \A t \in Tabs : trusted[t] => Knows(op[t], page[t], Live(cookie))

IInv == Shapes /\ Guarded /\ OneSessionEach /\ Trusting

-----------------------------------------------------------------------------
(* The guards.                                                             *)

\* A guard sends nobody to a route that sends them on.
LEMMA GuardIdempotent ==
    ASSUME NEW path, NEW p
    PROVE  Guard(Guard(path, p), p) = Guard(path, p)
<1> USE DEF Guard, SignedIn, SetupGuard, LoginGuard, AuditGuard, AdministrationGuard, SettingsGuard
<1>1. CASE p.setup
  <2>1. \A x : Guard(x, p) = "/setup"
    BY <1>1
  <2> QED BY <2>1
<1>2. CASE ~p.setup /\ ~p.auth
  <2>1. \A x : Guard(x, p) = "/login"
    BY <1>2
  <2> QED BY <2>1
<1>3. CASE ~p.setup /\ p.auth
  BY <1>3
<1> QED BY <1>1, <1>2, <1>3

LEMMA GuardTyped ==
    ASSUME NEW path \in Paths, NEW p
    PROVE  Guard(path, p) \in Paths
BY DEF Guard, SignedIn, SetupGuard, LoginGuard, AuditGuard, AdministrationGuard, SettingsGuard, Paths

\* Where the redirects end, the guard lets the user pass.
LEMMA LandsAllowed ==
    ASSUME NEW path \in Paths, NEW p
    PROVE  Lands(path, p) \in Paths /\ Guard(Lands(path, p), p) = Lands(path, p)
BY GuardIdempotent, GuardTyped DEF Lands

\* A guard looks at the user and the flags only.
LEMMA GuardLooksAt ==
    ASSUME NEW path, NEW p, NEW q, p.setup = q.setup, p.auth = q.auth, p.user = q.user
    PROVE  Guard(path, p) = Guard(path, q)
BY DEF Guard, SignedIn, SetupGuard, LoginGuard, AuditGuard, AdministrationGuard, SettingsGuard

-----------------------------------------------------------------------------
(* Steps of one tab.                                                       *)

\* The request an operation waits for, by its kind and its step.
LEMMA StepNames ==
    ASSUME NEW o \in OpShape, o.kind # None, o.kind = "login" => o.step = 1
    PROVE  LET what == Steps[o.kind][o.step]
           IN  /\ what = "status" <=> (o.kind = "check" /\ o.step = 1)
                                         \/ (o.kind = "logout" /\ o.step = 2)
               /\ what = "me" <=> o.kind = "check" /\ o.step = 2
               /\ what = "login" <=> o.kind = "login" \/ (o.kind = "setup" /\ o.step = 2)
               /\ what = "begin" <=> o.kind = "passkey" /\ o.step = 1
               /\ what = "finish" <=> o.kind = "passkey" /\ o.step = 2
               /\ what = "setup" <=> o.kind = "setup" /\ o.step = 1
               /\ what = "logout" <=> o.kind = "logout" /\ o.step = 1
<1>1. o.kind \in {"check", "login", "passkey", "setup", "logout"} /\ o.step \in {1, 2}
  BY DEF OpShape, Steps
<1>2. CASE o.kind = "check"
  BY <1>1, <1>2, SMT DEF Steps
<1>3. CASE o.kind = "login"
  BY <1>1, <1>3, SMT DEF Steps
<1>4. CASE o.kind = "passkey"
  BY <1>1, <1>4, SMT DEF Steps
<1>5. CASE o.kind = "setup"
  BY <1>1, <1>5, SMT DEF Steps
<1>6. CASE o.kind = "logout"
  BY <1>1, <1>6, SMT DEF Steps
<1> QED BY <1>1, <1>2, <1>3, <1>4, <1>5, <1>6

\* The other tabs stay where they are.
Others(t) ==
    /\ op' \in [Tabs -> OpShape] /\ page' \in [Tabs -> Page]
    /\ \A u \in Tabs \ {t} : op'[u] = op[u] /\ page'[u] = page[u]

\* One tab steps and keeps what the guards promise.
LEMMA GuardedStep ==
    ASSUME IInv, NEW t \in Tabs, Others(t),
           op'[t] # Idle => page'[t].loading,
           ~page'[t].loading /\ ~page'[t].due => Guard(page'[t].route, page'[t]) = page'[t].route
    PROVE  Guarded'
<1>1. \A u \in Tabs : op'[u] # Idle => page'[u].loading
  BY DEF IInv, Guarded, Others
<1>2. ASSUME NEW u \in Tabs, ~page'[u].loading, ~page'[u].due
      PROVE  Guard(page'[u].route, page'[u]) = page'[u].route
  <2>1. CASE u = t
    BY <1>2, <2>1
  <2>2. CASE u # t
    <3>1. page'[u] = page[u]
      BY <2>2 DEF Others
    <3> QED BY <1>2, <3>1 DEF IInv, Guarded, RouteAllowed
  <2> QED BY <2>1, <2>2
<1>3. RouteAllowed'
  BY <1>2 DEF RouteAllowed, Guard, SignedIn, SetupGuard, LoginGuard, AuditGuard,
              AdministrationGuard, SettingsGuard
<1> QED BY <1>1, <1>3 DEF Guarded

\* One tab steps, no session starts, and it knows no more about its own.
LEMMA SessionsStep ==
    ASSUME IInv, NEW t \in Tabs, Others(t),
           sessions' \subseteq sessions, cookie' \in {cookie, 0}, left'.ops = left.ops,
           op'[t].sid \in {op[t].sid, 0},
           MaySign(op'[t]) => MaySign(op[t]) /\ op'[t].sid = op[t].sid,
           HasSigned(op'[t]) =>
              HasSigned(op[t]) /\ op'[t].sid = op[t].sid /\ op'[t].user = op[t].user
    PROVE  OneSessionEach'
<1>1. Used' = Used /\ Used \in Nat
  BY AuthAssumption, SMT DEF Used, IInv, Shapes, Bound
<1>2. \A u \in Tabs : op'[u].sid \in {op[u].sid, 0}
  BY DEF Others
<1>3. \A u \in Tabs : MaySign(op'[u]) => MaySign(op[u]) /\ op'[u].sid = op[u].sid
  BY DEF Others
<1>4. \A u \in Tabs : HasSigned(op'[u]) =>
         HasSigned(op[u]) /\ op'[u].sid = op[u].sid /\ op'[u].user = op[u].user
  BY DEF Others
<1> DEFINE U == Used
<1>5. \A s \in sessions' : s.id \in 1..U
  BY DEF IInv, OneSessionEach
<1>6. cookie' \in 0..U /\ \A u \in Tabs : op'[u].sid \in 0..U
  BY <1>1, <1>2, SMT DEF IInv, OneSessionEach
<1>7. \A s, u \in sessions' : s.id = u.id => s = u
  BY DEF IInv, OneSessionEach
<1>8. \A u, v \in Tabs : op'[u].sid = op'[v].sid /\ op'[u].sid # 0 => u = v
  BY <1>2, ZenonT(30) DEF IInv, OneSessionEach
<1>9. \A u \in Tabs : MaySign(op'[u]) =>
          op'[u].sid # 0 /\ op'[u].sid # cookie' /\ \A s \in sessions' : s.id # op'[u].sid
  BY <1>3, SMT DEF IInv, OneSessionEach
<1>10. \A u \in Tabs : HasSigned(op'[u]) =>
          op'[u].sid # 0 /\ \A s \in sessions' : s.id = op'[u].sid => s.user = op'[u].user
  BY <1>4, SMT DEF IInv, OneSessionEach
<1> HIDE DEF U
<1>11. U = Used'
  BY <1>1 DEF U
<1> QED BY <1>5, <1>6, <1>7, <1>8, <1>9, <1>10, <1>11
        DEF OneSessionEach, MaySign, HasSigned, FirstOfTwo

\* One tab steps, and the others are trusted only if nothing changed for them.
LEMMA TrustingStep ==
    ASSUME IInv, NEW t \in Tabs, Others(t), trusted' \in [Tabs -> BOOLEAN],
           \A u \in Tabs \ {t} : trusted'[u] =>
              trusted[u] /\ {s \in sessions' : s.id = cookie'} = Live(cookie),
           trusted'[t] => Knows(op'[t], page'[t], {s \in sessions' : s.id = cookie'})
    PROVE  Trusting'
<1> SUFFICES ASSUME NEW u \in Tabs, trusted'[u]
             PROVE  Knows(op'[u], page'[u], {s \in sessions' : s.id = cookie'})
  BY DEF Trusting, Live, Knows, Agrees, Signing
<1>1. CASE u = t
  BY <1>1
<1>2. CASE u # t
  <2>1. op'[u] = op[u] /\ page'[u] = page[u]
    BY <1>2 DEF Others
  <2>2. trusted[u] /\ {s \in sessions' : s.id = cookie'} = Live(cookie)
    BY <1>2
  <2>3. Knows(op[u], page[u], Live(cookie))
    BY <2>2 DEF IInv, Trusting
  <2> QED BY <2>1, <2>2, <2>3
<1> QED BY <1>1, <1>2

\* The bounds.
LEMMA SpendTyped ==
    ASSUME Shapes, NEW kind \in {"loads", "ops", "faults"}, Spend(kind)
    PROVE  /\ left' \in [DOMAIN Bound -> Nat] /\ left'.ops <= MaxOps
           /\ kind # "ops" => left'.ops = left.ops
           /\ kind = "ops" => left'.ops = left.ops - 1 /\ left.ops > 0
BY AuthAssumption, SMT DEF Shapes, Spend, Bound

\* What is left to show of the types when one tab steps.
LEMMA ShapesStep ==
    ASSUME IInv, NEW t \in Tabs, Others(t),
           accounts' \subseteq Users, sessions' \subseteq [id: Nat, user: Users], cookie' \in Nat,
           storage' \in [user: Users \cup {None}, token: BOOLEAN],
           op'[t].kind = "login" => op'[t].step = 1, op'[t].kind = None => op'[t] = Idle,
           trusted' \in [Tabs -> BOOLEAN],
           left' \in [DOMAIN Bound -> Nat], left'.ops <= MaxOps
    PROVE  Shapes'
<1>1. \A u \in Tabs : /\ op'[u].kind = "login" => op'[u].step = 1
                      /\ op'[u].kind = None => op'[u] = Idle
  BY DEF IInv, Shapes, Others
<1> QED BY <1>1 DEF Shapes, Others, Idle, Bound

\* A tab is given a new operation and a new page.
LEMMA OneTab ==
    ASSUME Shapes, NEW t \in Tabs, NEW o \in OpShape, NEW q \in Page,
           op' = [op EXCEPT ![t] = o], page' = [page EXCEPT ![t] = q]
    PROVE  Others(t) /\ op'[t] = o /\ page'[t] = q
BY DEF Shapes, Others

LEMMA SameOp ==
    ASSUME Shapes, NEW t \in Tabs
    PROVE  /\ op[t] \in OpShape /\ op = [op EXCEPT ![t] = op[t]]
           /\ page[t] \in Page /\ page = [page EXCEPT ![t] = page[t]]
           /\ op[t].kind = "login" => op[t].step = 1
           /\ op[t].kind = None => op[t] = Idle
BY DEF Shapes

\* Nothing is None but None, and Idle is no operation.
LEMMA IdleFacts ==
    /\ Idle \in OpShape /\ Idle.kind = None /\ Idle.sid = 0 /\ Idle.step = 1
    /\ Idle.answer = "none"
    /\ None \notin Signing \cup {"check", "logout"} /\ Signing \subseteq DOMAIN Steps
    /\ {"check", "logout"} \subseteq DOMAIN Steps
BY NoneAssumption DEF Idle, OpShape, Signing, Steps, Answers

\* Which operation waits for a request of the given names.
LEMMA Waiting ==
    ASSUME Shapes, NEW t \in Tabs, NEW names, op[t] # Idle,
           Steps[op[t].kind][op[t].step] \in names
    PROVE  LET o == op[t]
               what == Steps[o.kind][o.step]
           IN  /\ what \in names /\ o.kind \in DOMAIN Steps /\ o.kind # None
               /\ what = "status" => (o.kind = "check" /\ o.step = 1)
                                         \/ (o.kind = "logout" /\ o.step = 2)
               /\ what = "me" => o.kind = "check" /\ o.step = 2
               /\ what = "login" => o.kind = "login" \/ (o.kind = "setup" /\ o.step = 2)
               /\ what = "begin" => o.kind = "passkey" /\ o.step = 1
               /\ what = "finish" => o.kind = "passkey" /\ o.step = 2
               /\ what = "setup" => o.kind = "setup" /\ o.step = 1
               /\ what = "logout" => o.kind = "logout" /\ o.step = 1
<1>1. op[t] \in OpShape /\ op[t].kind # None /\ (op[t].kind = "login" => op[t].step = 1)
  BY SameOp
<1>2. op[t].kind \in DOMAIN Steps
  BY <1>1 DEF OpShape
<1> QED BY <1>1, <1>2, StepNames

-----------------------------------------------------------------------------
(* The steps.                                                              *)

LEMMA StepServeStatus ==
    ASSUME IInv, NEW t \in Tabs, ServeStatus(t)
    PROVE  IInv'
<1> DEFINE b == (accounts = {})
           o == [op[t] EXCEPT !.answer = "ok", !.setup = b]
<1>1. Shapes /\ op[t] \in OpShape /\ page[t] \in Page
  BY SameOp DEF IInv
<1>2. o \in OpShape /\ op' = [op EXCEPT ![t] = o] /\ page' = [page EXCEPT ![t] = page[t]]
  <2>1. b \in BOOLEAN
    OBVIOUS
  <2> HIDE DEF b
  <2>2. o \in OpShape
    BY <1>1, <2>1 DEF OpShape, Answers
  <2>3. op' = [op EXCEPT ![t].answer = "ok", ![t].setup = b] /\ page' = page
    BY DEF ServeStatus, b
  <2>4. op' = [op EXCEPT ![t] = o]
    BY <1>1, <2>3 DEF Shapes
  <2> QED BY <1>1, <2>2, <2>3, <2>4, SameOp
<1>3. o.kind = op[t].kind /\ o.step = op[t].step /\ o.sid = op[t].sid /\ o.answer = "ok"
  BY <1>1 DEF OpShape
<1> HIDE DEF o
<1>4. Others(t) /\ op'[t] = o /\ page'[t] = page[t]
  BY <1>1, <1>2, OneTab
<1>5. op[t] # Idle /\ Steps[op[t].kind][op[t].step] \in {"status", "begin"}
  BY DEF ServeStatus, Pending
<1>6. \/ op[t].kind = "check" /\ op[t].step = 1
      \/ op[t].kind = "logout" /\ op[t].step = 2
      \/ op[t].kind = "passkey" /\ op[t].step = 1
  BY <1>1, <1>5, Waiting
<1>7. UNCHANGED <<accounts, sessions, cookie, storage, trusted, left>>
  BY DEF ServeStatus, server
<1>8. Shapes'
  <2>1. o.kind = "login" => o.step = 1
    BY <1>3, <1>6
  <2>2. o.kind = None => o = Idle
    BY <1>3, <1>6, IdleFacts DEF Signing
  <2> QED BY <1>1, <1>4, <1>7, <2>1, <2>2, ShapesStep DEF Shapes
<1>9. Guarded'
  BY <1>4, <1>5, GuardedStep DEF IInv, Guarded
<1>10. OneSessionEach'
  BY <1>3, <1>4, <1>6, <1>7, SessionsStep DEF MaySign, HasSigned, FirstOfTwo, Signing
<1>11. Trusting'
  <2>1. {s \in sessions' : s.id = cookie'} = Live(cookie)
    BY <1>7 DEF Live
  <2>2. trusted[t] => Knows(op[t], page[t], Live(cookie))
    BY DEF IInv, Trusting
  <2>3. trusted[t] => Knows(o, page[t], Live(cookie))
    BY <1>3, <1>6, <2>2, SMT DEF Knows, Signing
  <2> QED BY <1>1, <1>4, <1>7, <2>1, <2>3, TrustingStep DEF Shapes
<1> QED BY <1>8, <1>9, <1>10, <1>11 DEF IInv

LEMMA StepServeMe ==
    ASSUME IInv, NEW t \in Tabs, ServeMe(t)
    PROVE  IInv'
<1>1. Shapes /\ op[t] \in OpShape /\ page[t] \in Page
  BY SameOp DEF IInv
<1>2. PICK o \in OpShape :
        /\ op' = [op EXCEPT ![t] = o]
        /\ o.kind = op[t].kind /\ o.step = op[t].step /\ o.sid = op[t].sid
        /\ \/ Live(op[t].sent) = {} /\ o.answer = "unauthenticated"
           \/ \E s \in Live(op[t].sent) : o.answer = "ok" /\ o.user = s.user
  <2>1. CASE Live(op[t].sent) = {}
    <3> DEFINE x == [op[t] EXCEPT !.answer = "unauthenticated"]
    <3>1. x \in OpShape
      BY <1>1 DEF OpShape, Answers
    <3>2. op' = [op EXCEPT ![t] = x]
      BY <1>1, <2>1 DEF ServeMe, Shapes
    <3>3. /\ x.kind = op[t].kind /\ x.step = op[t].step /\ x.sid = op[t].sid
          /\ x.answer = "unauthenticated"
      BY <1>1 DEF OpShape
    <3> HIDE DEF x
    <3> QED BY <2>1, <3>1, <3>2, <3>3
  <2>2. CASE Live(op[t].sent) # {}
    <3>1. PICK s \in Live(op[t].sent) : op' = [op EXCEPT ![t].answer = "ok", ![t].user = s.user]
      BY <2>2 DEF ServeMe
    <3>2. s.user \in Users
      BY <1>1 DEF Shapes, Live
    <3> DEFINE x == [op[t] EXCEPT !.answer = "ok", !.user = s.user]
    <3>3. x \in OpShape
      BY <1>1, <3>2 DEF OpShape, Answers
    <3>4. op' = [op EXCEPT ![t] = x]
      BY <1>1, <3>1 DEF Shapes
    <3>5. /\ x.kind = op[t].kind /\ x.step = op[t].step /\ x.sid = op[t].sid
          /\ x.answer = "ok" /\ x.user = s.user
      BY <1>1 DEF OpShape
    <3> HIDE DEF x
    <3> QED BY <3>3, <3>4, <3>5
  <2> QED BY <2>1, <2>2
<1>3. UNCHANGED <<accounts, sessions, cookie, storage, page, left>>
  BY DEF ServeMe, server
<1>4. Others(t) /\ op'[t] = o /\ page'[t] = page[t]
  BY <1>1, <1>2, <1>3, OneTab, SameOp
<1>5. op[t] # Idle /\ op[t].kind = "check" /\ op[t].step = 2
  BY <1>1, Waiting DEF ServeMe, Pending
<1>6. trusted' \in [Tabs -> BOOLEAN] /\ (\A u \in Tabs \ {t} : trusted'[u] = trusted[u])
  BY <1>1 DEF Shapes, ServeMe
<1>7. trusted'[t] => op[t].sent = cookie
  BY <1>1 DEF Shapes, ServeMe
<1>8. Shapes'
  BY <1>1, <1>2, <1>3, <1>4, <1>5, <1>6, ShapesStep, IdleFacts DEF Shapes
<1>9. Guarded'
  BY <1>3, <1>4, <1>5, GuardedStep DEF IInv, Guarded
<1>10. OneSessionEach'
  BY <1>2, <1>3, <1>4, <1>5, SessionsStep DEF MaySign, HasSigned, Signing
<1>11. Trusting'
  <2>1. {s \in sessions' : s.id = cookie'} = Live(cookie)
    BY <1>3 DEF Live
  <2>2. trusted'[t] => Knows(o, page[t], Live(cookie))
    BY <1>2, <1>5, <1>7, IdleFacts DEF Knows, Signing
  <2> QED BY <1>4, <1>6, <2>1, <2>2, TrustingStep
<1> QED BY <1>8, <1>9, <1>10, <1>11 DEF IInv

LEMMA StepServeSetup ==
    ASSUME IInv, NEW t \in Tabs, ServeSetup(t)
    PROVE  IInv'
<1>1. Shapes /\ op[t] \in OpShape /\ page[t] \in Page
  BY SameOp DEF IInv
<1>2. PICK a \in {"ok", "error"} : op' = [op EXCEPT ![t].answer = a]
  BY DEF ServeSetup
<1> DEFINE o == [op[t] EXCEPT !.answer = a]
<1>3. o \in OpShape /\ op' = [op EXCEPT ![t] = o]
  BY <1>1, <1>2 DEF OpShape, Answers, Shapes
<1>4. o.kind = op[t].kind /\ o.step = op[t].step /\ o.sid = op[t].sid
  BY <1>1 DEF OpShape
<1> HIDE DEF o
<1>5. UNCHANGED <<sessions, cookie, storage, page, trusted, left>> /\ accounts' \subseteq Users
  BY <1>1 DEF ServeSetup, Shapes, Users
<1>6. Others(t) /\ op'[t] = o /\ page'[t] = page[t]
  BY <1>1, <1>3, <1>5, OneTab, SameOp
<1>7. op[t] # Idle /\ op[t].kind = "setup" /\ op[t].step = 1
  BY <1>1, Waiting DEF ServeSetup, Pending
<1>8. Shapes'
  <2>1. o.kind # None /\ o.kind # "login"
    BY <1>4, <1>7, IdleFacts DEF Signing
  <2> QED BY <1>1, <1>5, <1>6, <2>1, ShapesStep DEF Shapes
<1>9. Guarded'
  BY <1>5, <1>6, <1>7, GuardedStep DEF IInv, Guarded
<1>10. OneSessionEach'
  BY <1>4, <1>5, <1>6, <1>7, SessionsStep DEF MaySign, HasSigned, FirstOfTwo, Signing
<1>11. Trusting'
  <2>1. {s \in sessions' : s.id = cookie'} = Live(cookie)
    BY <1>5 DEF Live
  <2>2. trusted[t] => Knows(op[t], page[t], Live(cookie))
    BY DEF IInv, Trusting
  <2>3. trusted[t] => Knows(o, page[t], Live(cookie))
    BY <1>4, <1>7, <2>2 DEF Knows, Signing
  <2> QED BY <1>1, <1>5, <1>6, <2>1, <2>3, TrustingStep DEF Shapes
<1> QED BY <1>8, <1>9, <1>10, <1>11 DEF IInv

\* The session of a sign-in is new: no tab and no cookie has its identifier.
LEMMA StepServeLogin ==
    ASSUME IInv, NEW t \in Tabs, ServeLogin(t)
    PROVE  IInv'
<1>1. Shapes /\ op[t] \in OpShape /\ page[t] \in Page
  BY SameOp DEF IInv
<1>2. PICK w \in Users : /\ sessions' = sessions \cup {[id |-> op[t].sid, user |-> w]}
                         /\ op' = [op EXCEPT ![t].answer = "ok", ![t].user = w]
  BY <1>1 DEF ServeLogin, Shapes, Users
<1> DEFINE o == [op[t] EXCEPT !.answer = "ok", !.user = w]
           new == [id |-> op[t].sid, user |-> w]
<1>3. o \in OpShape /\ op' = [op EXCEPT ![t] = o]
  BY <1>1, <1>2 DEF OpShape, Answers, Shapes
<1>4. /\ o.kind = op[t].kind /\ o.step = op[t].step /\ o.sid = op[t].sid
      /\ o.answer = "ok" /\ o.user = w
  BY <1>1 DEF OpShape
<1>5. sessions' = sessions \cup {new} /\ new.id = op[t].sid /\ new.user = w
      /\ new \in [id: Nat, user: Users]
  BY <1>1, <1>2 DEF OpShape
<1> HIDE DEF o, new
<1>6. UNCHANGED <<accounts, cookie, storage, page, trusted, left>>
  BY DEF ServeLogin
<1>7. Others(t) /\ op'[t] = o /\ page'[t] = page[t]
  BY <1>1, <1>3, <1>6, OneTab, SameOp
<1>8. /\ op[t] # Idle /\ op[t].kind \in Signing /\ op[t].answer = "none"
      /\ op[t].kind # "login" => op[t].step = 2
      /\ op[t].kind = "login" => op[t].step = 1
  BY <1>1, Waiting, SameOp DEF ServeLogin, Pending, Signing
<1>9. op[t].sid # 0 /\ op[t].sid # cookie /\ \A s \in sessions : s.id # op[t].sid
  BY <1>8 DEF IInv, OneSessionEach, MaySign
<1>10. Shapes'
  <2>1. o.kind # None /\ (o.kind = "login" => o.step = 1)
    BY <1>4, <1>8, IdleFacts
  <2> QED BY <1>1, <1>5, <1>6, <1>7, <2>1, ShapesStep DEF Shapes
<1>11. Guarded'
  BY <1>6, <1>7, <1>8, GuardedStep DEF IInv, Guarded
<1>12. OneSessionEach'
  <2>1. Used' = Used /\ Used \in Nat
    BY <1>1, <1>6, AuthAssumption, SMT DEF Used, Shapes, Bound
  <2>2. \A u \in Tabs : op'[u].sid = op[u].sid
    BY <1>4, <1>7 DEF Others
  <2>3. \A u \in Tabs : u # t => op'[u] = op[u]
    BY <1>7 DEF Others
  <2>4. ~MaySign(o)
    BY <1>4, <1>8, SMT DEF MaySign, FirstOfTwo
  <2> DEFINE U == Used
  <2>5. \A s \in sessions' : s.id \in 1..U
    BY <1>5, <1>9, <2>1, SMT DEF IInv, OneSessionEach
  <2>6. \A s, u \in sessions' : s.id = u.id => s = u
    BY <1>5, <1>9 DEF IInv, OneSessionEach
  <2>7. cookie' \in 0..U /\ \A u \in Tabs : op'[u].sid \in 0..U
    BY <1>6, <2>2 DEF IInv, OneSessionEach
  <2>8. \A u, v \in Tabs : op'[u].sid = op'[v].sid /\ op'[u].sid # 0 => u = v
    BY <2>2, ZenonT(30) DEF IInv, OneSessionEach
  <2>9. ASSUME NEW u \in Tabs, MaySign(op'[u])
        PROVE  op'[u].sid # 0 /\ op'[u].sid # cookie' /\ \A s \in sessions' : s.id # op'[u].sid
    <3>1. u # t /\ op'[u] = op[u]
      BY <1>7, <2>3, <2>4, <2>9
    <3>2. op[u].sid # 0 /\ op[u].sid # cookie /\ \A s \in sessions : s.id # op[u].sid
      BY <2>9, <3>1 DEF IInv, OneSessionEach
    <3>3. op[u].sid # op[t].sid
      BY <3>1, <3>2 DEF IInv, OneSessionEach
    <3> QED BY <1>5, <1>6, <3>1, <3>2, <3>3
  <2>10. ASSUME NEW u \in Tabs, HasSigned(op'[u])
         PROVE  op'[u].sid # 0 /\ \A s \in sessions' : s.id = op'[u].sid => s.user = op'[u].user
    <3>1. CASE u = t
      BY <1>4, <1>5, <1>7, <1>9, <3>1
    <3>2. CASE u # t
      <4>1. op'[u] = op[u]
        BY <2>3, <3>2
      <4>2. op[u].sid # 0 /\ \A s \in sessions : s.id = op[u].sid => s.user = op[u].user
        BY <2>10, <4>1 DEF IInv, OneSessionEach
      <4>3. op[u].sid # op[t].sid
        BY <3>2, <4>2 DEF IInv, OneSessionEach
      <4> QED BY <1>5, <4>1, <4>2, <4>3
    <3> QED BY <3>1, <3>2
  <2> HIDE DEF U
  <2>11. U = Used'
    BY <2>1 DEF U
  <2> QED BY <2>5, <2>6, <2>7, <2>8, <2>9, <2>10, <2>11
          DEF OneSessionEach, MaySign, HasSigned, FirstOfTwo
<1>13. Trusting'
  <2>1. {s \in sessions' : s.id = cookie'} = Live(cookie)
    BY <1>5, <1>6, <1>9 DEF Live
  <2>2. trusted[t] => Knows(op[t], page[t], Live(cookie))
    BY DEF IInv, Trusting
  <2>3. trusted[t] => Knows(o, page[t], Live(cookie))
    BY <1>4, <1>8, <2>2 DEF Knows, Signing
  <2> QED BY <1>1, <1>6, <1>7, <2>1, <2>3, TrustingStep DEF Shapes
<1> QED BY <1>10, <1>11, <1>12, <1>13 DEF IInv

LEMMA StepRefuseLogin ==
    ASSUME IInv, NEW t \in Tabs, RefuseLogin(t)
    PROVE  IInv'
<1>1. Shapes /\ op[t] \in OpShape /\ page[t] \in Page
  BY SameOp DEF IInv
<1> DEFINE o == [op[t] EXCEPT !.answer = "unauthenticated"]
<1>2. o \in OpShape /\ op' = [op EXCEPT ![t] = o]
  BY <1>1 DEF RefuseLogin, OpShape, Answers, Shapes
<1>3. /\ o.kind = op[t].kind /\ o.step = op[t].step /\ o.sid = op[t].sid
      /\ o.answer = "unauthenticated"
  BY <1>1 DEF OpShape
<1> HIDE DEF o
<1>4. UNCHANGED <<accounts, sessions, cookie, storage, page, trusted>>
  BY DEF RefuseLogin, server
<1>5. left' \in [DOMAIN Bound -> Nat] /\ left'.ops <= MaxOps /\ left'.ops = left.ops
  <2>1. CASE accounts = {}
    BY <1>1, <2>1 DEF RefuseLogin, Shapes
  <2>2. CASE accounts # {}
    BY <1>1, <2>2, SpendTyped DEF RefuseLogin
  <2> QED BY <2>1, <2>2
<1>6. Others(t) /\ op'[t] = o /\ page'[t] = page[t]
  BY <1>1, <1>2, <1>4, OneTab, SameOp
<1>7. /\ op[t] # Idle /\ op[t].kind \in Signing
      /\ op[t].kind # "login" => op[t].step = 2
      /\ op[t].kind = "login" => op[t].step = 1
  BY <1>1, Waiting, SameOp DEF RefuseLogin, Pending, Signing
<1>8. Shapes'
  <2>1. o.kind # None /\ (o.kind = "login" => o.step = 1)
    BY <1>3, <1>7, IdleFacts
  <2> QED BY <1>1, <1>4, <1>5, <1>6, <2>1, ShapesStep DEF Shapes
<1>9. Guarded'
  BY <1>4, <1>6, <1>7, GuardedStep DEF IInv, Guarded
<1>10. OneSessionEach'
  BY <1>3, <1>4, <1>5, <1>6, <1>7, SessionsStep DEF MaySign, HasSigned, FirstOfTwo
<1>11. Trusting'
  <2>1. {s \in sessions' : s.id = cookie'} = Live(cookie)
    BY <1>4 DEF Live
  <2>2. trusted[t] => Knows(op[t], page[t], Live(cookie))
    BY DEF IInv, Trusting
  <2>3. trusted[t] => Knows(o, page[t], Live(cookie))
    BY <1>3, <1>7, <2>2 DEF Knows, Signing
  <2> QED BY <1>1, <1>4, <1>6, <2>1, <2>3, TrustingStep DEF Shapes
<1> QED BY <1>8, <1>9, <1>10, <1>11 DEF IInv

LEMMA StepServeLogout ==
    ASSUME IInv, NEW t \in Tabs, ServeLogout(t)
    PROVE  IInv'
<1>1. Shapes /\ op[t] \in OpShape /\ page[t] \in Page
  BY SameOp DEF IInv
<1>2. PICK a \in {"ok", "unauthenticated"} : op' = [op EXCEPT ![t].answer = a]
  BY DEF ServeLogout
<1> DEFINE o == [op[t] EXCEPT !.answer = a]
<1>3. o \in OpShape /\ op' = [op EXCEPT ![t] = o]
  BY <1>1, <1>2 DEF OpShape, Answers, Shapes
<1>4. o.kind = op[t].kind /\ o.step = op[t].step /\ o.sid = op[t].sid /\ o.answer = a
  BY <1>1 DEF OpShape
<1> HIDE DEF o
<1>5. /\ UNCHANGED <<accounts, cookie, storage, page, left>>
      /\ sessions' = sessions \ Live(op[t].sent)
  BY DEF ServeLogout
<1>6. Others(t) /\ op'[t] = o /\ page'[t] = page[t]
  BY <1>1, <1>3, <1>5, OneTab, SameOp
<1>7. op[t] # Idle /\ op[t].kind = "logout" /\ op[t].step = 1
  BY <1>1, Waiting DEF ServeLogout, Pending
<1>8. /\ trusted' \in [Tabs -> BOOLEAN]
      /\ \A u \in Tabs \ {t} : ~trusted'[u]
      /\ trusted'[t] => op[t].sent = cookie
  BY DEF ServeLogout, Alone
<1>9. Shapes'
  <2>1. o.kind # None /\ o.kind # "login"
    BY <1>4, <1>7, IdleFacts
  <2>2. sessions' \subseteq sessions
    BY <1>5
  <2> QED BY <1>1, <1>5, <1>6, <1>8, <2>1, <2>2, ShapesStep DEF Shapes
<1>10. Guarded'
  BY <1>5, <1>6, <1>7, GuardedStep DEF IInv, Guarded
<1>11. OneSessionEach'
  BY <1>4, <1>5, <1>6, <1>7, SessionsStep DEF MaySign, HasSigned, Signing
<1>12. Trusting'
  <2>1. trusted'[t] => {s \in sessions' : s.id = cookie'} = {}
    BY <1>5, <1>8 DEF Live
  <2>2. trusted'[t] => Knows(o, page[t], {s \in sessions' : s.id = cookie'})
    BY <1>2, <1>4, <1>7, <2>1, IdleFacts, SMT DEF Knows, Signing
  <2> QED BY <1>6, <1>8, <2>2, TrustingStep
<1> QED BY <1>9, <1>10, <1>11, <1>12 DEF IInv

LEMMA StepLose ==
    ASSUME IInv, NEW t \in Tabs, Lose(t)
    PROVE  IInv'
<1>1. Shapes /\ op[t] \in OpShape /\ page[t] \in Page
  BY SameOp DEF IInv
<1> DEFINE o == [op[t] EXCEPT !.answer = "error"]
<1>2. o \in OpShape /\ op' = [op EXCEPT ![t] = o]
  BY <1>1 DEF Lose, OpShape, Answers, Shapes
<1>3. o.kind = op[t].kind /\ o.step = op[t].step /\ o.sid = op[t].sid /\ o.answer = "error"
  BY <1>1 DEF OpShape
<1> HIDE DEF o
<1>4. UNCHANGED <<accounts, sessions, cookie, storage, page>>
  BY DEF Lose, server
<1>5. left' \in [DOMAIN Bound -> Nat] /\ left'.ops <= MaxOps /\ left'.ops = left.ops
  BY <1>1, SpendTyped DEF Lose
<1>6. Others(t) /\ op'[t] = o /\ page'[t] = page[t]
  BY <1>1, <1>2, <1>4, OneTab, SameOp
<1>7. op[t] # Idle /\ op[t].kind # None /\ (op[t].kind = "login" => op[t].step = 1)
  BY <1>1, SameOp DEF Lose
<1>8. /\ trusted' \in [Tabs -> BOOLEAN] /\ ~trusted'[t]
      /\ \A u \in Tabs \ {t} : trusted'[u] = trusted[u]
  BY <1>1 DEF Lose, Shapes
<1>9. Shapes'
  BY <1>1, <1>3, <1>4, <1>5, <1>6, <1>7, <1>8, ShapesStep DEF Shapes
<1>10. Guarded'
  BY <1>4, <1>6, <1>7, GuardedStep DEF IInv, Guarded
<1>11. OneSessionEach'
  BY <1>3, <1>4, <1>5, <1>6, SessionsStep DEF MaySign, HasSigned, FirstOfTwo
<1>12. Trusting'
  <2>1. {s \in sessions' : s.id = cookie'} = Live(cookie)
    BY <1>4 DEF Live
  <2> QED BY <1>6, <1>8, <2>1, TrustingStep
<1> QED BY <1>9, <1>10, <1>11, <1>12 DEF IInv

LEMMA StepEndSession ==
    ASSUME IInv, EndSession
    PROVE  IInv'
<1>1. /\ UNCHANGED <<accounts, cookie, storage, page, op>> /\ sessions' \subseteq sessions
      /\ trusted' = [t \in Tabs |-> FALSE]
  BY DEF EndSession
<1>2. left' \in [DOMAIN Bound -> Nat] /\ left'.ops <= MaxOps /\ left'.ops = left.ops
  BY SpendTyped DEF EndSession, IInv
<1>3. Shapes'
  BY <1>1, <1>2 DEF IInv, Shapes, Idle, Bound
<1>4. Guarded'
  BY <1>1, ZenonT(30) DEF IInv, Guarded, RouteAllowed, Idle, Guard, SignedIn, SetupGuard, LoginGuard,
              AuditGuard, AdministrationGuard, SettingsGuard
<1>5. OneSessionEach'
  <2>1. Used' = Used
    BY <1>2 DEF Used
  <2> QED BY <1>1, <2>1 DEF IInv, OneSessionEach, MaySign, HasSigned, FirstOfTwo
<1>6. Trusting'
  BY <1>1 DEF Trusting
<1> QED BY <1>3, <1>4, <1>5, <1>6 DEF IInv

\* An operation ends: the tab is idle and the guards are due.
LEMMA EndsFacts ==
    ASSUME IInv, NEW t \in Tabs, NEW q \in Page, Ends(t, q)
    PROVE  /\ Others(t) /\ op'[t] = Idle
           /\ page'[t].user = q.user /\ page'[t].auth = q.auth
           /\ Guarded'
<1>1. Shapes
  BY DEF IInv
<1> DEFINE p == [q EXCEPT !.loading = FALSE, !.due = TRUE]
<1>2. p \in Page /\ p.user = q.user /\ p.auth = q.auth /\ p.due
  BY DEF Page
<1>3. op' = [op EXCEPT ![t] = Idle] /\ page' = [page EXCEPT ![t] = p]
  BY DEF Ends, Settled
<1> HIDE DEF p
<1>4. Others(t) /\ op'[t] = Idle /\ page'[t] = p
  BY <1>1, <1>2, <1>3, OneTab, IdleFacts, ZenonT(30)
<1>5. Guarded'
  BY <1>2, <1>4, GuardedStep
<1> QED BY <1>2, <1>4, <1>5

\* The next request of an operation.
LEMMA AdvanceFacts ==
    ASSUME NEW o \in OpShape, o.step = 1, NEW now \in Nat
    PROVE  /\ Advance(o, now) \in OpShape
           /\ Advance(o, now).kind = o.kind /\ Advance(o, now).step = 2
           /\ Advance(o, now).sid = o.sid /\ Advance(o, now).answer = "none"
<1>1. Advance(o, now) = [o EXCEPT !.step = 2, !.sent = now, !.answer = "none", !.user = None,
                                  !.setup = FALSE]
  BY SMT DEF OpShape, Advance
<1> QED BY <1>1, ZenonT(30) DEF OpShape, Answers

LEMMA StepLandStatus ==
    ASSUME IInv, NEW t \in Tabs, LandStatus(t)
    PROVE  IInv'
<1>1. Shapes /\ op[t] \in OpShape /\ page[t] \in Page
  BY SameOp DEF IInv
<1> DEFINE q == IF op[t].answer = "ok" THEN [page[t] EXCEPT !.setup = op[t].setup] ELSE page[t]
<1>2. q \in Page /\ q.user = page[t].user /\ q.auth = page[t].auth /\ q.loading = page[t].loading
  <2>1. CASE op[t].answer = "ok"
    BY <1>1, <2>1 DEF Page, OpShape
  <2>2. CASE op[t].answer # "ok"
    BY <1>1, <2>2
  <2> QED BY <2>1, <2>2
<1>3. IF op[t].kind = "logout" THEN Ends(t, q)
      ELSE page' = [page EXCEPT ![t] = q] /\ op' = [op EXCEPT ![t] = Advance(op[t], cookie)]
  BY <1>1 DEF LandStatus, Shapes
<1> HIDE DEF q
<1>4. UNCHANGED <<accounts, sessions, cookie, storage, trusted, left>>
  BY DEF LandStatus, server
<1>5. /\ op[t] # Idle
      /\ (op[t].kind = "check" /\ op[t].step = 1) \/ (op[t].kind = "logout" /\ op[t].step = 2)
  BY <1>1, Waiting DEF LandStatus, Answered
<1>6. {s \in sessions' : s.id = cookie'} = Live(cookie)
  BY <1>4 DEF Live
<1>7. trusted[t] => Knows(op[t], page[t], Live(cookie))
  BY DEF IInv, Trusting
<1>8. CASE op[t].kind = "logout"
  <2>1. /\ Others(t) /\ op'[t] = Idle /\ Guarded'
        /\ page'[t].user = page[t].user /\ page'[t].auth = page[t].auth
    BY <1>2, <1>3, <1>8, EndsFacts
  <2>2. Shapes'
    BY <1>1, <1>4, <2>1, IdleFacts, NoneAssumption, ShapesStep DEF Shapes, Steps
  <2>3. OneSessionEach'
    BY <1>4, <2>1, IdleFacts, SessionsStep DEF MaySign, HasSigned
  <2>4. trusted[t] => Knows(Idle, page'[t], Live(cookie))
    BY <1>5, <1>7, <1>8, <2>1, IdleFacts DEF Knows, Agrees
  <2>5. Trusting'
    BY <1>1, <1>4, <1>6, <2>1, <2>4, TrustingStep DEF Shapes
  <2> QED BY <2>1, <2>2, <2>3, <2>5 DEF IInv
<1>9. CASE op[t].kind = "check"
  <2> DEFINE o == Advance(op[t], cookie)
  <2>1. /\ o \in OpShape /\ o.kind = "check" /\ o.step = 2 /\ o.sid = op[t].sid
        /\ op' = [op EXCEPT ![t] = o] /\ page' = [page EXCEPT ![t] = q]
    BY <1>1, <1>3, <1>5, <1>9, AdvanceFacts DEF Shapes
  <2> HIDE DEF o
  <2>2. Others(t) /\ op'[t] = o /\ page'[t] = q
    BY <1>1, <1>2, <2>1, OneTab
  <2>3. Shapes'
    BY <1>1, <1>4, <2>1, <2>2, IdleFacts, ShapesStep DEF Shapes
  <2>4. page[t].loading
    BY <1>5 DEF IInv, Guarded
  <2>5. Guarded'
    BY <1>2, <2>2, <2>4, GuardedStep
  <2>6. OneSessionEach'
    BY <1>4, <2>1, <2>2, SessionsStep DEF MaySign, HasSigned, Signing
  <2>7. ~trusted[t]
    BY <1>5, <1>7, <1>9, SMT DEF Knows
  <2>8. Trusting'
    BY <1>1, <1>4, <1>6, <2>2, <2>7, TrustingStep DEF Shapes
  <2> QED BY <2>3, <2>5, <2>6, <2>8 DEF IInv
<1> QED BY <1>5, <1>8, <1>9

\* The tab and the storage after an operation that ends.
LEMMA ClearedTyped ==
    /\ Erased \in [user: Users \cup {None}, token: BOOLEAN]
    /\ \A u \in Users : Stored(u) \in [user: Users \cup {None}, token: BOOLEAN]
    /\ \A p \in Page : Cleared(p) \in Page /\ ~Cleared(p).auth /\ Cleared(p).loading = p.loading
    /\ \A p \in Page : Reported(p) \in Page /\ Reported(p).auth = p.auth
    /\ \A p \in Page, u \in Users \cup {None} :
          SignedInAs(p, u) \in Page /\ SignedInAs(p, u).auth /\ SignedInAs(p, u).user = u
BY DEF Erased, Stored, Cleared, Reported, SignedInAs, Page

LEMMA StepLandMe ==
    ASSUME IInv, NEW t \in Tabs, LandMe(t)
    PROVE  IInv'
<1>1. Shapes /\ op[t] \in OpShape /\ page[t] \in Page
  BY SameOp DEF IInv
<1>2. UNCHANGED <<accounts, sessions, cookie, trusted, left>>
  BY DEF LandMe, server
<1>3. op[t] # Idle /\ op[t].kind = "check" /\ op[t].step = 2
  BY <1>1, Waiting DEF LandMe, Answered
<1>4. {s \in sessions' : s.id = cookie'} = Live(cookie)
  BY <1>2 DEF Live
<1>5. trusted[t] => Knows(op[t], page[t], Live(cookie))
  BY DEF IInv, Trusting
<1>6. trusted[t] => /\ op[t].answer \in {"ok", "unauthenticated"}
                    /\ op[t].answer = "ok" => \E s \in Live(cookie) : s.user = op[t].user
                    /\ op[t].answer = "unauthenticated" => Live(cookie) = {}
  BY <1>3, <1>5 DEF Knows
<1>7. \A s, u \in Live(cookie) : s = u
  BY DEF IInv, OneSessionEach, Live
<1>8. PICK q \in Page :
        /\ Ends(t, q)
        /\ storage' = storage \/ storage' = Erased
              \/ (storage' = Stored(op[t].user) /\ op[t].user \in Users \cup {None})
        /\ trusted[t] => Agrees(q, Live(cookie))
  <2>1. CASE op[t].answer = "ok"
    <3>1. Ends(t, SignedInAs(page[t], op[t].user)) /\ storage' = Stored(op[t].user)
      BY <2>1 DEF LandMe
    <3>2. op[t].user \in Users \cup {None}
      BY <1>1 DEF OpShape
    <3>3. trusted[t] => Agrees(SignedInAs(page[t], op[t].user), Live(cookie))
      BY <1>1, <1>6, <1>7, <2>1, <3>2, ClearedTyped DEF Agrees
    <3> QED BY <1>1, <3>1, <3>2, <3>3, ClearedTyped
  <2>2. CASE op[t].answer = "unauthenticated"
    <3>1. Ends(t, Cleared(page[t])) /\ storage' = Erased
      BY <2>2 DEF LandMe
    <3>2. trusted[t] => Agrees(Cleared(page[t]), Live(cookie))
      BY <1>1, <1>6, <2>2, ClearedTyped DEF Agrees
    <3> QED BY <1>1, <3>1, <3>2, ClearedTyped
  <2>3. CASE op[t].answer \notin {"ok", "unauthenticated"}
    <3>1. Ends(t, page[t]) /\ storage' = storage
      BY <2>3 DEF LandMe
    <3> QED BY <1>1, <1>6, <2>3, <3>1
  <2> QED BY <2>1, <2>2, <2>3
<1>9. storage' \in [user: Users \cup {None}, token: BOOLEAN]
  <2>1. Erased \in [user: Users \cup {None}, token: BOOLEAN]
    BY ClearedTyped
  <2>2. ASSUME NEW u \in Users \cup {None}
        PROVE  Stored(u) \in [user: Users \cup {None}, token: BOOLEAN]
    BY DEF Stored
  <2> QED BY <1>1, <1>8, <2>1, <2>2, ZenonT(30) DEF Shapes
<1>10. /\ Others(t) /\ op'[t] = Idle /\ Guarded'
       /\ page'[t].user = q.user /\ page'[t].auth = q.auth
  BY <1>8, EndsFacts
<1>11. Shapes'
  BY <1>1, <1>2, <1>9, <1>10, IdleFacts, NoneAssumption, ShapesStep DEF Shapes, Steps
<1>12. OneSessionEach'
  BY <1>2, <1>10, IdleFacts, SessionsStep DEF MaySign, HasSigned
<1>13. trusted[t] => Knows(Idle, page'[t], Live(cookie))
  BY <1>8, <1>10, IdleFacts DEF Knows, Agrees
<1>14. Trusting'
  BY <1>1, <1>2, <1>4, <1>10, <1>13, TrustingStep DEF Shapes
<1> QED BY <1>10, <1>11, <1>12, <1>14 DEF IInv

LEMMA StepFailOperation ==
    ASSUME IInv, NEW t \in Tabs, FailOperation(t)
    PROVE  IInv'
<1>1. Shapes /\ op[t] \in OpShape /\ page[t] \in Page
  BY SameOp DEF IInv
<1> DEFINE q == Reported(Cleared(page[t]))
<1>2. q \in Page /\ ~q.auth /\ Ends(t, q) /\ storage' = Erased
  BY <1>1, ClearedTyped DEF FailOperation
<1> HIDE DEF q
<1>3. UNCHANGED <<accounts, sessions, cookie, left>>
  BY DEF FailOperation, server
<1>4. op[t] # Idle /\ op[t].kind \in Signing
  BY <1>1, Waiting DEF FailOperation, Answered, Signing
<1>5. /\ Others(t) /\ op'[t] = Idle /\ Guarded'
      /\ page'[t].auth = q.auth
  BY <1>2, EndsFacts
<1>6. page[t].auth \in BOOLEAN /\ trusted[t] \in BOOLEAN
  BY <1>1 DEF Shapes, Page
<1>7. /\ trusted' \in [Tabs -> BOOLEAN]
      /\ \A u \in Tabs \ {t} : trusted'[u] = trusted[u]
      /\ trusted'[t] => trusted[t] /\ ~page[t].auth
  BY <1>1, <1>6 DEF FailOperation, Shapes
<1>8. Shapes'
  BY <1>1, <1>2, <1>3, <1>5, <1>7, IdleFacts, NoneAssumption, ClearedTyped, ShapesStep
  DEF Shapes, Steps
<1>9. OneSessionEach'
  BY <1>3, <1>5, IdleFacts, SessionsStep DEF MaySign, HasSigned
<1>10. Trusting'
  <2>1. {s \in sessions' : s.id = cookie'} = Live(cookie)
    BY <1>3 DEF Live
  <2>2. trusted'[t] => Live(cookie) = {}
    BY <1>4, <1>7 DEF IInv, Trusting, Knows, Agrees
  <2>3. trusted'[t] => Knows(Idle, page'[t], Live(cookie))
    BY <1>2, <1>5, <2>2, IdleFacts DEF Knows, Agrees
  <2> QED BY <1>5, <1>7, <2>1, <2>3, TrustingStep
<1> QED BY <1>5, <1>8, <1>9, <1>10 DEF IInv

LEMMA StepLandFirstStep ==
    ASSUME IInv, NEW t \in Tabs, LandFirstStep(t)
    PROVE  IInv'
<1>1. Shapes /\ op[t] \in OpShape /\ page[t] \in Page
  BY SameOp DEF IInv
<1>2. op[t] # Idle /\ op[t].kind \in {"setup", "passkey"} /\ op[t].step = 1
  BY <1>1, Waiting DEF LandFirstStep, Answered
<1> DEFINE b == page[t].setup /\ op[t].kind # "setup"
           q == [page[t] EXCEPT !.setup = b]
           o == Advance(op[t], cookie)
<1>3. /\ o \in OpShape /\ o.kind = op[t].kind /\ o.step = 2 /\ o.sid = op[t].sid
      /\ o.answer = "none" /\ op' = [op EXCEPT ![t] = o]
  BY <1>1, <1>2, AdvanceFacts DEF LandFirstStep, Shapes
<1>4. b \in BOOLEAN /\ page' = [page EXCEPT ![t] = q]
  BY <1>1 DEF LandFirstStep, Shapes, Page
<1> HIDE DEF b, o
<1>5. q \in Page /\ q.auth = page[t].auth /\ q.user = page[t].user /\ q.loading = page[t].loading
  BY <1>1, <1>4 DEF Page
<1> HIDE DEF q
<1>6. Others(t) /\ op'[t] = o /\ page'[t] = q
  BY <1>1, <1>3, <1>4, <1>5, OneTab
<1>7. UNCHANGED <<accounts, sessions, cookie, storage, trusted, left>>
  BY DEF LandFirstStep, server
<1>8. Shapes'
  <2>1. o.kind # None /\ o.kind # "login"
    BY <1>2, <1>3, IdleFacts DEF Signing
  <2> QED BY <1>1, <1>6, <1>7, <2>1, ShapesStep DEF Shapes
<1>9. Guarded'
  BY <1>2, <1>5, <1>6, GuardedStep DEF IInv, Guarded
<1>10. OneSessionEach'
  BY <1>2, <1>3, <1>6, <1>7, SessionsStep DEF MaySign, HasSigned, FirstOfTwo, Signing
<1>11. Trusting'
  <2>1. {s \in sessions' : s.id = cookie'} = Live(cookie)
    BY <1>7 DEF Live
  <2>2. trusted[t] => Agrees(page[t], Live(cookie))
    BY <1>2 DEF IInv, Trusting, Knows, Signing
  <2>3. trusted[t] => Knows(o, q, Live(cookie))
    BY <1>2, <1>3, <1>5, <2>2 DEF Knows, Agrees, Signing
  <2> QED BY <1>1, <1>6, <1>7, <2>1, <2>3, TrustingStep DEF Shapes
<1> QED BY <1>8, <1>9, <1>10, <1>11 DEF IInv

\* The cookie becomes the one of the session that was created for this sign-in.
LEMMA StepLandLogin ==
    ASSUME IInv, NEW t \in Tabs, LandLogin(t)
    PROVE  IInv'
<1>1. Shapes /\ op[t] \in OpShape /\ page[t] \in Page
  BY SameOp DEF IInv
<1> DEFINE w == op[t].user
           q == SignedInAs(page[t], w)
<1>2. w \in Users \cup {None} /\ q \in Page /\ q.auth /\ q.user = w
  BY <1>1, ClearedTyped DEF OpShape
<1>3. Ends(t, q) /\ storage' = [user |-> w, token |-> TRUE] /\ cookie' = op[t].sid
  BY DEF LandLogin, Stored
<1>4. UNCHANGED <<accounts, sessions, left>>
  BY DEF LandLogin, server
<1>5. HasSigned(op[t])
  <2>1. op[t].kind = "login" \/ (op[t].kind \in {"setup", "passkey"} /\ op[t].step = 2)
    BY <1>1, Waiting DEF LandLogin, Answered
  <2> QED BY <2>1, SMT DEF HasSigned, FirstOfTwo, Signing, LandLogin
<1>6. op[t].sid # 0 /\ \A s \in sessions : s.id = op[t].sid => s.user = w
  BY <1>5 DEF IInv, OneSessionEach
<1> HIDE DEF q
<1>7. /\ Others(t) /\ op'[t] = Idle /\ Guarded'
      /\ page'[t].user = w /\ page'[t].auth = TRUE
  <2>1. /\ Others(t) /\ op'[t] = Idle /\ Guarded'
        /\ page'[t].user = q.user /\ page'[t].auth = q.auth
    BY <1>2, <1>3, EndsFacts
  <2>2. q.auth = TRUE
    BY <1>2 DEF Page
  <2> QED BY <1>2, <2>1, <2>2
<1>8. /\ trusted' \in [Tabs -> BOOLEAN] /\ (\A u \in Tabs \ {t} : ~trusted'[u])
      /\ trusted'[t] => Live(op[t].sid) # {}
  BY DEF LandLogin, Alone
<1>9. op[t].sid \in Nat /\ storage' \in [user: Users \cup {None}, token: BOOLEAN]
  BY <1>1, <1>2, <1>3 DEF OpShape
<1>10. Shapes'
  BY <1>1, <1>3, <1>4, <1>7, <1>8, <1>9, IdleFacts, NoneAssumption, ShapesStep DEF Shapes, Steps
<1>11. OneSessionEach'
  <2>1. Used' = Used /\ Used \in Nat
    <3>1. Used' = Used
      BY <1>4 DEF Used
    <3>2. left.ops \in Nat /\ left.ops <= MaxOps
      BY <1>1 DEF Shapes, Bound
    <3> QED BY <3>1, <3>2, AuthAssumption, SMT DEF Used
  <2>2. \A u \in Tabs : op'[u].sid \in {op[u].sid, 0}
    BY <1>7, IdleFacts DEF Others
  <2>3. ~MaySign(op'[t]) /\ ~HasSigned(op'[t])
    BY <1>7, IdleFacts DEF MaySign, HasSigned
  <2>4. \A u \in Tabs : u # t => op'[u] = op[u]
    BY <1>7 DEF Others
  <2> DEFINE U == Used
  <2>5. \A s \in sessions' : s.id \in 1..U
    BY <1>4 DEF IInv, OneSessionEach
  <2>6. \A s, u \in sessions' : s.id = u.id => s = u
    BY <1>4 DEF IInv, OneSessionEach
  <2>7. cookie' \in 0..U /\ \A u \in Tabs : op'[u].sid \in 0..U
    BY <1>3, <2>1, <2>2, SMT DEF IInv, OneSessionEach
  <2>8. \A u, v \in Tabs : op'[u].sid = op'[v].sid /\ op'[u].sid # 0 => u = v
    BY <2>2, ZenonT(30) DEF IInv, OneSessionEach
  <2>9. ASSUME NEW u \in Tabs, MaySign(op'[u])
        PROVE  op'[u].sid # 0 /\ op'[u].sid # cookie' /\ \A s \in sessions' : s.id # op'[u].sid
    <3>1. u # t /\ op'[u] = op[u]
      BY <2>3, <2>4, <2>9
    <3>2. op[u].sid # 0 /\ \A s \in sessions : s.id # op[u].sid
      BY <2>9, <3>1 DEF IInv, OneSessionEach
    <3>3. op[u].sid # op[t].sid
      BY <3>1, <3>2 DEF IInv, OneSessionEach
    <3> QED BY <1>3, <1>4, <3>1, <3>2, <3>3
  <2>10. \A u \in Tabs : HasSigned(op'[u]) =>
            op'[u].sid # 0 /\ \A s \in sessions' : s.id = op'[u].sid => s.user = op'[u].user
    BY <1>4, <2>3, <2>4, ZenonT(30) DEF IInv, OneSessionEach
  <2> HIDE DEF U
  <2>11. U = Used'
    BY <2>1 DEF U
  <2> QED BY <2>5, <2>6, <2>7, <2>8, <2>9, <2>10, <2>11
          DEF OneSessionEach, MaySign, HasSigned, FirstOfTwo
<1>12. Trusting'
  <2> DEFINE L == {s \in sessions' : s.id = cookie'}
  <2>1. L = Live(op[t].sid)
    BY <1>3, <1>4 DEF Live
  <2>2. trusted'[t] => L # {}
    BY <1>8, <2>1
  <2>3. \A s \in L : s.user = w
    BY <1>6, <2>1 DEF Live
  <2> HIDE DEF L
  <2>4. trusted'[t] => Agrees(page'[t], L)
    BY <1>7, <2>2, <2>3 DEF Agrees
  <2>5. trusted'[t] => Knows(Idle, page'[t], L)
    BY <2>4, IdleFacts DEF Knows
  <2> QED BY <1>7, <1>8, <2>5, TrustingStep DEF L
<1> QED BY <1>7, <1>10, <1>11, <1>12 DEF IInv

LEMMA StepLandLogout ==
    ASSUME IInv, NEW t \in Tabs, LandLogout(t)
    PROVE  IInv'
<1>1. Shapes /\ op[t] \in OpShape /\ page[t] \in Page
  BY SameOp DEF IInv
<1>2. op[t] # Idle /\ op[t].kind = "logout" /\ op[t].step = 1 /\ op[t].answer # "none"
  BY <1>1, Waiting DEF LandLogout, Answered
<1>3. cookie' \in {0, cookie} /\ cookie' \in Nat /\ storage' = Erased
  BY <1>1 DEF LandLogout, Shapes
<1> DEFINE q == Cleared(page[t])
           o == Advance(op[t], cookie')
<1>4. /\ q \in Page /\ ~q.auth /\ q.loading = page[t].loading
      /\ page' = [page EXCEPT ![t] = q]
  BY <1>1, ClearedTyped DEF LandLogout, Shapes
<1>5. /\ o \in OpShape /\ o.kind = "logout" /\ o.step = 2 /\ o.sid = op[t].sid
      /\ op' = [op EXCEPT ![t] = o]
  <2>1. op' = [op EXCEPT ![t] = o]
    BY <1>1 DEF LandLogout, Shapes
  <2> QED BY <1>1, <1>2, <1>3, <2>1, AdvanceFacts
<1> HIDE DEF q, o
<1>6. Others(t) /\ op'[t] = o /\ page'[t] = q
  BY <1>1, <1>4, <1>5, OneTab, ZenonT(30)
<1>7. UNCHANGED <<accounts, sessions, left>>
  BY DEF LandLogout, server
<1>8. Guarded'
  BY <1>2, <1>4, <1>6, GuardedStep DEF IInv, Guarded
<1>9. OneSessionEach'
  BY <1>3, <1>5, <1>6, <1>7, SessionsStep DEF MaySign, HasSigned, Signing
<1> DEFINE L == {s \in sessions' : s.id = cookie'}
<1>10. /\ trusted' \in [Tabs -> BOOLEAN]
       /\ \A u \in Tabs \ {t} : trusted'[u] => trusted[u] /\ L = Live(cookie)
       /\ trusted'[t] => L = {}
  <2>1. CASE op[t].answer = "ok"
    <3>1. cookie' = 0 /\ trusted' = [u \in Tabs |-> IF u = t THEN TRUE ELSE FALSE]
      BY <2>1 DEF LandLogout, Alone
    <3>2. L = {}
      BY <1>7, <3>1, SMT DEF IInv, OneSessionEach, Used
    <3> QED BY <3>1, <3>2
  <2>2. CASE op[t].answer # "ok"
    <3>1. cookie' = cookie /\ trusted' = trusted
      BY <2>2 DEF LandLogout
    <3>2. L = Live(cookie)
      BY <1>7, <3>1 DEF Live
    <3>3. trusted[t] => Live(cookie) = {}
      BY <1>2, <2>2 DEF IInv, Trusting, Knows
    <3> QED BY <1>1, <3>1, <3>2, <3>3 DEF Shapes
  <2> QED BY <2>1, <2>2
<1>11. trusted'[t] => Knows(o, q, L)
  <2>1. o.kind \notin Signing \cup {None, "check"} /\ o.step # 1
    BY <1>5, IdleFacts, SMT DEF Signing
  <2>2. trusted'[t] => ~q.auth /\ L = {}
    BY <1>4, <1>10
  <2> HIDE DEF L
  <2> QED BY <2>1, <2>2 DEF Knows
<1>12. Trusting'
  BY <1>6, <1>10, <1>11, TrustingStep
<1>13. Shapes'
  BY <1>1, <1>3, <1>5, <1>6, <1>7, <1>10, IdleFacts, ClearedTyped, ShapesStep DEF Shapes
<1> QED BY <1>8, <1>9, <1>12, <1>13 DEF IInv

\* A page moves to where the guards lead; nothing else of the tab changes.
LEMMA StepRoute ==
    ASSUME IInv, NEW t \in Tabs, ~page[t].loading, NEW path \in Paths, NEW d \in BOOLEAN,
           page' = [page EXCEPT ![t].route = Lands(path, page[t]), ![t].due = d],
           UNCHANGED <<accounts, sessions, cookie, storage, op, trusted, left>>
    PROVE  IInv'
<1>1. Shapes /\ op[t] \in OpShape /\ page[t] \in Page
  BY SameOp DEF IInv
<1> DEFINE r == Lands(path, page[t])
           q == [page[t] EXCEPT !.route = r, !.due = d]
<1>2. r \in Paths /\ Guard(r, page[t]) = r
  BY LandsAllowed
<1>3. page' = [page EXCEPT ![t] = q]
  BY <1>1 DEF Shapes
<1> HIDE DEF r
<1>4. /\ q \in Page /\ q.route = r /\ q.setup = page[t].setup /\ q.auth = page[t].auth
      /\ q.user = page[t].user
  BY <1>1, <1>2 DEF Page
<1> HIDE DEF q
<1>5. Others(t) /\ op'[t] = op[t] /\ page'[t] = q
  <2>1. op' = [op EXCEPT ![t] = op[t]]
    BY <1>1, SameOp
  <2>2. q \in Page
    BY <1>4
  <2> QED BY ONLY <1>1, <1>3, <2>1, <2>2, OneTab
<1>6. op[t] = Idle
  BY DEF IInv, Guarded
<1>7. Guard(q.route, q) = q.route
  BY <1>2, <1>4, GuardLooksAt
<1>8. Shapes'
  BY <1>1, <1>5, <1>6, IdleFacts, NoneAssumption, ShapesStep DEF Shapes, Steps
<1>9. Guarded'
  BY <1>5, <1>6, <1>7, GuardedStep
<1>10. OneSessionEach'
  BY <1>5, SessionsStep
<1>11. Trusting'
  <2>1. {s \in sessions' : s.id = cookie'} = Live(cookie)
    BY DEF Live
  <2>2. trusted[t] => Knows(op[t], page[t], Live(cookie))
    BY DEF IInv, Trusting
  <2>3. trusted[t] => Knows(Idle, q, Live(cookie))
    BY <1>4, <1>6, <2>2, IdleFacts DEF Knows, Agrees
  <2> QED BY <1>1, <1>5, <1>6, <2>1, <2>3, TrustingStep DEF Shapes
<1> QED BY <1>8, <1>9, <1>10, <1>11 DEF IInv

LEMMA StepRunGuards ==
    ASSUME IInv, NEW t \in Tabs, RunGuards(t)
    PROVE  IInv'
<1>1. page[t] \in Page /\ page \in [Tabs -> Page]
  BY SameOp DEF IInv, Shapes
<1>2. /\ page' = [page EXCEPT ![t].route = Lands(page[t].route, page[t]), ![t].due = FALSE]
      /\ ~page[t].loading /\ page[t].route \in Paths
  BY <1>1 DEF RunGuards, Page
<1> QED BY <1>2, StepRoute DEF RunGuards, server

LEMMA StepFollowLink ==
    ASSUME IInv, NEW t \in Tabs, FollowLink(t)
    PROVE  IInv'
<1>1. page[t] \in Page /\ page \in [Tabs -> Page]
  BY SameOp DEF IInv, Shapes
<1>2. PICK path \in Paths : page' = [page EXCEPT ![t].route = Lands(path, page[t])]
  BY AuthAssumption DEF FollowLink
<1> DEFINE r == Lands(path, page[t])
           d == page[t].due
<1>3. d \in BOOLEAN
  BY <1>1 DEF Page
<1> HIDE DEF r
<1>4. page' = [page EXCEPT ![t].route = r, ![t].due = d]
  BY <1>1, <1>2 DEF Page, r
<1> QED BY <1>3, <1>4, StepRoute DEF FollowLink, InLayout, server, r

LEMMA StepLoad ==
    ASSUME IInv, NEW t \in Tabs, Load(t)
    PROVE  IInv'
<1>1. Shapes /\ op[t] \in OpShape /\ page[t] \in Page
  BY SameOp DEF IInv
<1>2. PICK q \in Page : page' = [page EXCEPT ![t] = q] /\ q.loading
  <2>1. PICK path \in Visits : page' = [page EXCEPT ![t] =
              [user |-> storage.user, auth |-> storage.token, setup |-> FALSE,
               loading |-> TRUE, route |-> path, due |-> FALSE,
               same |-> FALSE, banner |-> FALSE, failed |-> FALSE]]
    BY DEF Load
  <2>2. path \in Paths /\ storage.user \in Users \cup {None} /\ storage.token \in BOOLEAN
    BY <1>1, AuthAssumption DEF Shapes
  <2>3. [user |-> storage.user, auth |-> storage.token, setup |-> FALSE,
         loading |-> TRUE, route |-> path, due |-> FALSE,
         same |-> FALSE, banner |-> FALSE, failed |-> FALSE] \in Page
    BY <2>2 DEF Page
  <2> QED BY <2>1, <2>3
<1> DEFINE o == [Idle EXCEPT !.kind = "check", !.sent = cookie, !.sid = 0]
<1>3. o \in OpShape /\ o.kind = "check" /\ o.sid = 0 /\ op' = [op EXCEPT ![t] = o]
  <2>1. op' = [op EXCEPT ![t] = o]
    BY DEF Load, Start
  <2>2. o \in OpShape /\ o.kind = "check" /\ o.sid = 0
    BY <1>1, IdleFacts DEF Shapes, OpShape
  <2> QED BY <2>1, <2>2
<1> HIDE DEF o
<1>4. Others(t) /\ op'[t] = o /\ page'[t] = q
  BY <1>1, <1>2, <1>3, OneTab
<1>5. UNCHANGED <<accounts, sessions, cookie, storage>>
  BY DEF Load, server
<1>6. left' \in [DOMAIN Bound -> Nat] /\ left'.ops <= MaxOps /\ left'.ops = left.ops
  BY <1>1, SpendTyped DEF Load
<1>7. /\ trusted' \in [Tabs -> BOOLEAN] /\ ~trusted'[t]
      /\ \A u \in Tabs \ {t} : trusted'[u] = trusted[u]
  BY <1>1 DEF Load, Shapes
<1>8. Shapes'
  BY <1>1, <1>3, <1>4, <1>5, <1>6, <1>7, IdleFacts, ShapesStep DEF Shapes
<1>9. Guarded'
  BY <1>2, <1>4, GuardedStep
<1>10. OneSessionEach'
  BY <1>3, <1>4, <1>5, <1>6, SessionsStep DEF MaySign, HasSigned, Signing
<1>11. Trusting'
  <2>1. {s \in sessions' : s.id = cookie'} = Live(cookie)
    BY <1>5 DEF Live
  <2> QED BY <1>4, <1>7, <2>1, TrustingStep
<1> QED BY <1>8, <1>9, <1>10, <1>11 DEF IInv

\* An operation of the user is given an identifier nobody has.
LEMMA StepBegin ==
    ASSUME IInv, NEW t \in Tabs, NEW kind \in Signing \cup {"logout"}, ~page[t].loading,
           Begin(t, kind)
    PROVE  IInv'
<1>1. Shapes /\ op[t] \in OpShape /\ page[t] \in Page
  BY SameOp DEF IInv
<1>2. op[t] = Idle
  BY DEF IInv, Guarded
<1>3. /\ left' \in [DOMAIN Bound -> Nat] /\ left'.ops <= MaxOps
      /\ left'.ops = left.ops - 1 /\ left.ops > 0 /\ left.ops \in Nat
  BY <1>1, SpendTyped DEF Begin, Shapes, Bound
<1>4. Used \in Nat /\ Used' = Used + 1 /\ MaxOps + 1 - left.ops = Used + 1
  BY <1>1, <1>3, AuthAssumption, SMT DEF Used, Shapes
<1> DEFINE n == MaxOps + 1 - left.ops
           o == [Idle EXCEPT !.kind = kind, !.sent = cookie, !.sid = n]
           q == Loading([page[t] EXCEPT !.same = TRUE])
<1>5. n \in Nat /\ n = Used + 1
  BY <1>4, SMT
<1> HIDE DEF n
<1>6. /\ o \in OpShape /\ o.kind = kind /\ o.sid = n /\ o.step = 1 /\ o.answer = "none"
  <2>1. kind \in DOMAIN Steps
    BY IdleFacts
  <2> QED BY <1>1, <1>5, <2>1, IdleFacts DEF Shapes, OpShape
<1>7. op' = [op EXCEPT ![t] = o]
  BY DEF Begin, Start, n
<1>8. /\ q \in Page /\ q.loading /\ q.auth = page[t].auth /\ q.user = page[t].user
      /\ page' = [page EXCEPT ![t] = q]
  BY <1>1 DEF Begin, Loading, Page, Shapes
<1> HIDE DEF o, q
<1>9. Others(t) /\ op'[t] = o /\ page'[t] = q
  <2>1. o \in OpShape /\ q \in Page
    BY <1>6, <1>8
  <2> QED BY ONLY <1>1, <1>7, <1>8, <2>1, OneTab
<1>10. UNCHANGED <<accounts, sessions, cookie, storage, trusted>>
  BY DEF Begin, server
<1>11. Shapes'
  <2>1. o.kind # None /\ (o.kind = "login" => o.step = 1)
    BY <1>6, IdleFacts
  <2> QED BY <1>1, <1>3, <1>9, <1>10, <2>1, ShapesStep DEF Shapes
<1>12. Guarded'
  BY <1>8, <1>9, GuardedStep
<1>13. OneSessionEach'
  <2>1. \A u \in Tabs : u # t => op'[u] = op[u]
    BY <1>9 DEF Others
  <2>2. ~HasSigned(o)
    BY <1>6 DEF HasSigned
  <2> DEFINE U == Used
  <2>3. U \in Nat /\ n = U + 1 /\ n # 0
    BY <1>4, <1>5, SMT
  <2>4. /\ \A s \in sessions : s.id \in 1..U
        /\ cookie \in 0..U
        /\ \A u \in Tabs : op[u].sid \in 0..U
    BY DEF IInv, OneSessionEach
  <2> HIDE DEF U
  <2>5. (\A s \in sessions' : s.id \in 1..(U + 1) /\ s.id # n) /\ cookie' \in 0..(U + 1)
        /\ cookie' # n
    BY <1>10, <2>3, <2>4, SMT
  <2>6. \A u \in Tabs : u # t => op'[u].sid \in 0..(U + 1) /\ op'[u].sid # n
    BY <2>1, <2>3, <2>4, SMT
  <2>7. op'[t].sid = n /\ n \in 0..(U + 1)
    BY <1>6, <1>9, <2>3, SMT
  <2>8. \A u \in Tabs : op'[u].sid \in 0..(U + 1)
    BY <2>6, <2>7
  <2>9. \A s, u \in sessions' : s.id = u.id => s = u
    BY <1>10 DEF IInv, OneSessionEach
  <2>10. \A u, v \in Tabs : op'[u].sid = op'[v].sid /\ op'[u].sid # 0 => u = v
    <3> SUFFICES ASSUME NEW u \in Tabs, NEW v \in Tabs, op'[u].sid = op'[v].sid, op'[u].sid # 0
                 PROVE  u = v
      OBVIOUS
    <3>1. CASE u # t /\ v # t
      <4>1. op'[u] = op[u] /\ op'[v] = op[v]
        BY <2>1, <3>1
      <4> QED BY <4>1, ZenonT(30) DEF IInv, OneSessionEach
    <3>2. CASE u = t \/ v = t
      BY <2>6, <2>7, <3>2
    <3> QED BY <3>1, <3>2
  <2>11. ASSUME NEW u \in Tabs, MaySign(op'[u])
         PROVE  op'[u].sid # 0 /\ op'[u].sid # cookie' /\ \A s \in sessions' : s.id # op'[u].sid
    <3>1. CASE u = t
      BY <2>3, <2>5, <2>7, <3>1
    <3>2. CASE u # t
      BY <1>10, <2>1, <2>11, <3>2, ZenonT(30) DEF IInv, OneSessionEach
    <3> QED BY <3>1, <3>2
  <2>12. ASSUME NEW u \in Tabs, HasSigned(op'[u])
         PROVE  op'[u].sid # 0 /\ \A s \in sessions' : s.id = op'[u].sid => s.user = op'[u].user
    BY <1>9, <1>10, <2>1, <2>2, <2>12, SMT DEF IInv, OneSessionEach
  <2>13. U + 1 = Used'
    BY <1>4 DEF U
  <2> QED BY <2>5, <2>8, <2>9, <2>10, <2>11, <2>12, <2>13
          DEF OneSessionEach, MaySign, HasSigned, FirstOfTwo
<1>14. Trusting'
  <2>1. {s \in sessions' : s.id = cookie'} = Live(cookie)
    BY <1>10 DEF Live
  <2>2. trusted[t] => Agrees(page[t], Live(cookie))
    BY <1>2, IdleFacts DEF IInv, Trusting, Knows
  <2>3. trusted[t] => Knows(o, q, Live(cookie))
    <3>1. trusted[t] => Agrees(q, Live(cookie))
      BY <1>8, <2>2 DEF Agrees
    <3>2. o.kind # "check" /\ o.step = 1 /\ o.step # 2 /\ o.answer = "none"
      BY <1>6, SMT DEF Signing
    <3> QED BY <3>1, <3>2 DEF Knows
  <2> QED BY <1>1, <1>9, <1>10, <2>1, <2>3, TrustingStep DEF Shapes
<1> QED BY <1>11, <1>12, <1>13, <1>14 DEF IInv

-----------------------------------------------------------------------------
(* The results.                                                            *)

LEMMA InitHolds == Init => IInv
<1> SUFFICES ASSUME Init
             PROVE  IInv
  OBVIOUS
<1> DEFINE o == [Idle EXCEPT !.kind = "check", !.sent = cookie, !.sid = 0]
           q == [user |-> None, auth |-> FALSE, setup |-> FALSE, loading |-> TRUE,
                 route |-> "/", due |-> FALSE, same |-> FALSE, banner |-> FALSE,
                 failed |-> FALSE]
<1>1. o \in OpShape /\ o.kind = "check" /\ o.sid = 0
  BY IdleFacts DEF Init, OpShape
<1>2. q \in Page /\ q.loading
  BY DEF Page, Paths
<1>3. op = [t \in Tabs |-> o] /\ page = [t \in Tabs |-> q]
  BY DEF Init, Start
<1> HIDE DEF o, q
<1>4. \A t \in Tabs : op[t] = o /\ page[t] = q
  BY <1>3
<1>5. /\ sessions = {} /\ cookie = 0 /\ (\A t \in Tabs : ~trusted[t])
      /\ trusted \in [Tabs -> BOOLEAN]
  BY DEF Init
<1>6. left \in [DOMAIN Bound -> Nat] /\ left.ops = MaxOps
  BY AuthAssumption, SMT DEF Init, Bound
<1>7. Shapes
  <2>1. accounts \subseteq Users /\ storage \in [user: Users \cup {None}, token: BOOLEAN]
    BY AuthAssumption, ClearedTyped DEF Init
  <2>2. op \in [Tabs -> OpShape] /\ page \in [Tabs -> Page]
    BY <1>1, <1>2, <1>3
  <2>3. \A t \in Tabs : /\ op[t].kind = "login" => op[t].step = 1
                        /\ op[t].kind = None => op[t] = Idle
    BY <1>1, <1>4, IdleFacts
  <2>4. left.ops <= MaxOps
    BY <1>6, AuthAssumption, SMT
  <2> QED BY <1>5, <1>6, <2>1, <2>2, <2>3, <2>4 DEF Shapes
<1>8. Guarded
  BY <1>2, <1>4 DEF Guarded, RouteAllowed
<1>9. OneSessionEach
  <2>1. Used = 0
    BY <1>6, AuthAssumption, SMT DEF Used
  <2> QED BY <1>1, <1>4, <1>5, <2>1, SMT DEF OneSessionEach, MaySign, HasSigned, Signing
<1>10. Trusting
  BY <1>5 DEF Trusting
<1> QED BY <1>7, <1>8, <1>9, <1>10 DEF IInv

LEMMA StepHolds == IInv /\ [Next]_vars => IInv'
<1> SUFFICES ASSUME IInv, [Next]_vars
             PROVE  IInv'
  OBVIOUS
<1>1. CASE EndSession
  BY <1>1, StepEndSession
<1>2. ASSUME NEW t \in Tabs, UserStep(t)
      PROVE  IInv'
  <2>1. CASE Load(t)
    BY <2>1, StepLoad
  <2>2. CASE SubmitLogin(t) \/ SubmitSetup(t) \/ SignOut(t)
    <3>1. PICK kind \in Signing \cup {"logout"} : ~page[t].loading /\ Begin(t, kind)
      BY <2>2 DEF SubmitLogin, SubmitSetup, SignOut, InLayout, Signing
    <3> QED BY <3>1, StepBegin
  <2>3. CASE FollowLink(t)
    BY <2>3, StepFollowLink
  <2> QED BY <1>2, <2>1, <2>2, <2>3 DEF UserStep
<1>3. ASSUME NEW t \in Tabs, ServerStep(t) \/ RefuseLogin(t) \/ Lose(t)
      PROVE  IInv'
  BY <1>3, StepServeStatus, StepServeMe, StepServeSetup, StepServeLogin, StepServeLogout,
     StepRefuseLogin, StepLose DEF ServerStep
<1>4. ASSUME NEW t \in Tabs, TabStep(t)
      PROVE  IInv'
  BY <1>4, StepLandStatus, StepLandMe, StepFailOperation, StepLandLogin, StepLandFirstStep,
     StepLandLogout, StepRunGuards DEF TabStep
<1>5. CASE UNCHANGED vars
  <2>1. Shapes'
    BY <1>5 DEF IInv, Shapes, vars, Idle, Bound
  <2>2. Guarded'
    BY <1>5, ZenonT(30) DEF IInv, Guarded, vars, RouteAllowed, Idle, Guard, SignedIn, SetupGuard, LoginGuard,
                AuditGuard, AdministrationGuard, SettingsGuard
  <2>3. OneSessionEach'
    BY <1>5 DEF IInv, OneSessionEach, vars, Used, MaySign, HasSigned, FirstOfTwo
  <2>4. Trusting'
    BY <1>5 DEF IInv, Trusting, vars, Knows, Agrees, Live
  <2> QED BY <2>1, <2>2, <2>3, <2>4 DEF IInv
<1> QED BY <1>1, <1>2, <1>3, <1>4, <1>5 DEF Next

LEMMA InvHolds == Spec => []IInv
<1>1. Init => IInv
  BY InitHolds
<1>2. IInv /\ [Next]_vars => IInv'
  BY StepHolds
<1> QED BY <1>1, <1>2, PTL DEF Spec

\* However many tabs sign in and out, and whatever is refused or lost, a tab
\* that has settled is on a page its guards allow: App asks for the guards
\* after every operation (App.tsx, router.tsx), and the redirects end on a page
\* that redirects no further.
THEOREM AuthRouteAllowed == Spec => []RouteAllowed
<1>1. IInv => RouteAllowed
  BY DEF IInv, Guarded
<1> QED BY <1>1, InvHolds, PTL

\* A settled tab shows the user whose session the browser's cookie names,
\* unless another tab changed the session, an answer was lost or a sign-in was
\* refused to somebody signed in (useAuth.tsx).
THEOREM AuthShowsSessionUser == Spec => []ShowsSessionUser
<1>1. IInv => ShowsSessionUser
  <2> SUFFICES ASSUME IInv, NEW t \in Tabs, trusted[t], ~page[t].loading
               PROVE  /\ page[t].auth <=> Live(cookie) # {}
                      /\ \A s \in Live(cookie) : page[t].user = s.user
    BY DEF ShowsSessionUser
  <2>1. op[t] = Idle
    BY DEF IInv, Guarded
  <2>2. Knows(op[t], page[t], Live(cookie))
    BY DEF IInv, Trusting
  <2> QED BY <2>1, <2>2, IdleFacts DEF Knows, Agrees
<1> QED BY <1>1, InvHolds, PTL
=============================================================================
