------------------------ MODULE SettingsPage_proofs -------------------------
(***************************************************************************)
(* Proofs about SettingsPage, for any settings, passkeys, sessions and     *)
(* bounds: type correctness, that the form and the dialogs have one        *)
(* request in flight at a time, that the form shows what the server        *)
(* stores, and that the patched lists are the server's.                    *)
(***************************************************************************)
EXTENDS SettingsPage, FiniteSetTheorems, TLAPS

\* Zenon proves the steps that do not name another prover.
USE Zenon

FormKinds == {"load", "test"} \cup Writes
ChangeKinds == {"finish", "rename"} \cup Destructive

\* The dialog asks about a passkey or a session as its kind says.
DialogFits ==
    /\ pendingDestructive.kind = "deletePasskey" => pendingDestructive.item \in Keys
    /\ pendingDestructive.kind = "revoke" => pendingDestructive.item \in Sessions
    /\ pendingDestructive.kind = "revokeAll" => pendingDestructive.item = None

\* So does a request about a passkey.
CallFits(c) ==
    /\ c.kind \in {"begin", "finish", "rename", "deletePasskey"} => c.item \in Keys
    /\ c.kind \in {"begin", "finish", "rename"} => c.name \in Names

TypeInv ==
    TypeOK /\ IsFiniteSet(calls) /\ DialogFits /\ \A c \in calls : CallFits(c)

-----------------------------------------------------------------------------
(* The inductive invariants.                                                 *)

\* What a request of the general tab promises: the answer to the load is what
\* the server stores, a write carries the form, and until it is accepted the
\* server still has what the form showed before.
Promise(c) ==
    /\ c.kind = "load" /\ c.phase = "ok" =>
          c.cfg.gotify = stored.gotify /\ c.cfg.days = stored.days
    /\ c.kind \in Writes =>
          /\ c.cfg.gotify = Trim(form.gotify) /\ c.cfg.days = form.days
          /\ c.phase = "ok" => stored.gotify = c.cfg.gotify /\ stored.days = c.cfg.days
          /\ c.phase # "ok" /\ faithful =>
                /\ stored.gotify = Trim(form.gotify)
                /\ stored.days = IF c.kind = "retention" THEN c.prev ELSE form.days

FormInv ==
    /\ \A c, d \in calls : c.kind \in FormKinds /\ d.kind \in FormKinds => c = d
    /\ loading <=> \E c \in calls : c.kind = "load"
    /\ isSaving <=> \E c \in calls : c.kind \in Writes
    /\ isTesting <=> \E c \in calls : c.kind = "test"
    /\ \A c \in calls : Promise(c)
    /\ FormAgrees

\* A destructive request, or the listing that completes one.
Runs(c) == c.kind \in Destructive \/ c.ends

FlightInv ==
    /\ \A c \in calls : c.ends => c.kind = "sessions"
    /\ \A c, d \in calls : Runs(c) /\ Runs(d) => c = d
    /\ \A c \in calls : Runs(c) =>
          /\ pendingDestructive.kind = (IF c.ends THEN "revokeAll" ELSE c.kind)
          /\ pendingDestructive.item = c.item
          /\ Locked

\* The passkeys after a change of them.
KeysAfter(c, S) ==
    CASE c.kind = "finish" -> S \cup {[id |-> c.item, name |-> c.name]}
      [] c.kind = "rename" -> {IF p.id = c.item THEN [p EXCEPT !.name = c.name] ELSE p : p \in S}
      [] OTHER             -> {p \in S : p.id # c.item}

\* How list l of the screen, s, and of the server, a, differ while c, the only
\* change of l, is in flight.
Due(c, l, s, a) ==
    CASE l = "passkeys" -> a.passkeys = IF c.phase = "ok" THEN KeysAfter(c, s.passkeys)
                                                          ELSE s.passkeys
      [] l = "sessions" ->
            IF c.kind = "revoke"
            THEN CASE c.phase = "sent" -> c.was = a.sessions /\ s.sessions = a.sessions \ {c.item}
                   [] c.phase = "ok"   -> s.sessions = a.sessions
                   [] OTHER            -> c.was = a.sessions
            ELSE c.phase # "ok" => s.sessions = a.sessions
      [] OTHER -> c.phase # "ok" => s.events = a.events

ListInv ==
    /\ \A c \in calls : c.kind \in Lists /\ c.clean =>
          /\ ~Changing(c.kind)
          /\ c.phase = "ok" => c.out[c.kind] = account[c.kind]
    /\ \A l \in Lists : quiet[l] =>
          /\ \A c, d \in calls : l \in Changes(c.kind) /\ l \in Changes(d.kind) => c = d
          /\ \A c \in calls : l \in Changes(c.kind) => Due(c, l, shown, account)
          /\ ~Changing(l) => shown[l] = account[l]

-----------------------------------------------------------------------------
(* Requests.                                                                 *)

\* Fresh finds a number: the requests in flight do not use them all.
LEMMA FreshFits ==
    ASSUME TypeInv, NEW kind
    PROVE  Fresh(kind) \in Nat
<1> DEFINE N == Cardinality(calls)
           f == [c \in calls |-> c.n]
           Used == {f[c] : c \in calls}
<1>1. IsFiniteSet(calls) /\ calls \subseteq Call
  BY DEF TypeInv, TypeOK
<1>2. N \in Nat
  BY <1>1, FS_CardinalityType
<1>3. f \in Surjection(calls, Used)
  BY DEF Surjection
<1>4. IsFiniteSet(Used) /\ Cardinality(Used) <= N
  BY <1>1, <1>3, FS_Surjection
<1>5. IsFiniteSet(0..N) /\ Cardinality(0..N) = N + 1
  BY <1>2, FS_Interval, SMT
<1>6. ~(0..N \subseteq Used)
  <2>1. ASSUME 0..N \subseteq Used PROVE FALSE
    <3>1. Cardinality(0..N) <= Cardinality(Used)
      BY <1>4, <2>1, FS_Subset
    <3>2. Cardinality(Used) \in Nat
      BY <1>4, FS_CardinalityType
    <3> HIDE DEF Used, N
    <3> QED BY <1>2, <1>4, <1>5, <3>1, <3>2, SMT
  <2> QED BY <2>1
<1>7. PICK n \in 0..N : n \notin Used
  BY <1>6
<1>8. \A c \in calls : c.kind = kind => c.n # n
  BY <1>7
<1>9. Fresh(kind) \in 0..N
  BY <1>8 DEF Fresh
<1> QED BY <1>2, <1>9, SMT

\* What a new request says.
LEMMA RequestFits ==
    ASSUME TypeInv, NEW kind \in Kinds
    PROVE  /\ Request(kind) \in Call
           /\ Request(kind).kind = kind /\ Request(kind).phase = "sent"
           /\ Request(kind).item = None /\ Request(kind).ends = FALSE
<1>1. Fresh(kind) \in Nat
  BY FreshFits
<1>2. NoConfig \in Config /\ Nowhere \in Account
  BY SettingsAssumption DEF NoConfig, Config, Nowhere, Account
<1>3. DefaultDays \in Days
  BY SettingsAssumption
<1> QED BY <1>1, <1>2, <1>3 DEF Request, Call

\* A change beside a request: only what a listing says of itself may differ.
Marked(d, k) == [d EXCEPT !.clean = @ /\ d.kind \notin Changes(k)]

LEMMA ChangesLists == \A k : Changes(k) \subseteq Lists
BY DEF Changes, Lists

LEMMA MarkedFits ==
    ASSUME NEW d \in Call, NEW k
    PROVE  /\ Marked(d, k) \in Call
           /\ Marked(d, k).kind = d.kind /\ Marked(d, k).phase = d.phase
           /\ Marked(d, k).item = d.item /\ Marked(d, k).ends = d.ends
           /\ Marked(d, k).out = d.out
           /\ Marked(d, k).clean => d.clean /\ d.kind \notin Changes(k)
           /\ d.kind \notin Lists => Marked(d, k) = d
<1> DEFINE b == d.clean /\ d.kind \notin Changes(k)
<1>1. b \in BOOLEAN
  OBVIOUS
<1>2. Marked(d, k) = [d EXCEPT !.clean = b]
  BY DEF Marked
<1>3. d.kind \notin Lists => b = d.clean
  <2>1. d.clean \in BOOLEAN
    BY DEF Call
  <2> QED BY <2>1, ChangesLists
<1>4. b => d.clean /\ d.kind \notin Changes(k)
  OBVIOUS
<1> HIDE DEF b
<1>5. [d EXCEPT !.clean = d.clean] = d
  BY DEF Call
<1> DEFINE m == Marked(d, k)
<1>6. /\ m \in Call /\ m.kind = d.kind /\ m.phase = d.phase /\ m.item = d.item
      /\ m.ends = d.ends /\ m.out = d.out /\ m.clean = b
  <2>1. PICK v \in BOOLEAN : v = b
    BY <1>1
  <2>2. m = [d EXCEPT !.clean = v]
    BY <1>2, <2>1
  <2> HIDE DEF m
  <2>3. /\ m \in Call /\ m.kind = d.kind /\ m.phase = d.phase /\ m.item = d.item
        /\ m.ends = d.ends /\ m.out = d.out /\ m.clean = v
    BY <2>2 DEF Call
  <2> QED BY <2>1, <2>3
<1>7. m.clean => d.clean /\ d.kind \notin Changes(k)
  BY <1>4, <1>6
<1>8. d.kind \notin Lists => m = d
  BY <1>2, <1>3, <1>5
<1> QED BY <1>6, <1>7, <1>8

-----------------------------------------------------------------------------
(* Sets of requests.                                                         *)

\* Sending a change keeps the other requests, but for the marks of listings.
LEMMA SendingFits ==
    ASSUME TypeInv, NEW c \in Call
    PROVE  /\ Sending(c) \subseteq Call /\ IsFiniteSet(Sending(c))
           /\ c \in Sending(c)
           /\ \A d \in calls : Marked(d, c.kind) \in Sending(c)
           /\ \A e \in Sending(c) : e = c \/ \E d \in calls : e = Marked(d, c.kind)
           /\ \A d \in Call : d # c /\ d.kind \notin Lists => (d \in Sending(c) <=> d \in calls)
<1> DEFINE f == [d \in calls |-> Marked(d, c.kind)]
           T == {Marked(d, c.kind) : d \in calls}
<1>0. IsFiniteSet(calls) /\ calls \subseteq Call
  BY DEF TypeInv, TypeOK
<1>1. Sending(c) = {c} \cup T
  BY DEF Sending, Marked
<1>2. f \in Surjection(calls, T)
  BY DEF Surjection
<1>3. IsFiniteSet(T)
  BY <1>0, <1>2, FS_Surjection
<1>4. IsFiniteSet({c} \cup T)
  <2>1. IsFiniteSet(T \cup {c})
    BY <1>3, FS_AddElement
  <2>2. T \cup {c} = {c} \cup T
    OBVIOUS
  <2> QED BY <2>1, <2>2
<1>5. T \subseteq Call
  BY <1>0, MarkedFits, ZenonT(30)
<1>6. \A d \in calls : d.kind \notin Lists => Marked(d, c.kind) = d
  BY <1>0, MarkedFits
<1>7. \A d \in calls : Marked(d, c.kind).kind = d.kind
  BY <1>0, MarkedFits
<1>8. ASSUME NEW d \in Call, d # c, d.kind \notin Lists
      PROVE  d \in {c} \cup T <=> d \in calls
  <2>1. ASSUME d \in calls PROVE d \in T
    BY <1>6, <1>8, <2>1
  <2>2. ASSUME d \in T PROVE d \in calls
    <3>1. PICK e \in calls : d = Marked(e, c.kind)
      BY <2>2
    <3>2. e.kind = d.kind
      BY <1>7, <3>1
    <3> QED BY <1>6, <1>8, <3>1, <3>2
  <2> QED BY <1>8, <2>1, <2>2
<1> QED BY <1>1, <1>4, <1>5, <1>8

\* New listings are sent, and are clean only beside no change.
LEMMA ListingSent ==
    ASSUME TypeInv, NEW ls \in SUBSET Lists, NEW others \in SUBSET calls
    PROVE  /\ Listing(ls, others) \subseteq Call /\ IsFiniteSet(Listing(ls, others))
           /\ others \subseteq Listing(ls, others)
           /\ \A e \in Listing(ls, others) :
                 \/ e \in others
                 \/ /\ e.kind \in ls /\ e.phase = "sent" /\ e.ends = FALSE
                    /\ e.clean => ~\E c \in others : e.kind \in Changes(c.kind)
<1> DEFINE b(l) == ~\E c \in others : l \in Changes(c.kind)
           r(l) == [Request(l) EXCEPT !.clean = b(l)]
           T == {r(l) : l \in ls}
           f == [l \in ls |-> r(l)]
<1>0. IsFiniteSet(calls) /\ calls \subseteq Call
  BY DEF TypeInv, TypeOK
<1>1. Listing(ls, others) = others \cup T
  BY DEF Listing
<1>2. IsFiniteSet(ls)
  <2>1. IsFiniteSet({"passkeys"}) /\ IsFiniteSet({"sessions"}) /\ IsFiniteSet({"events"})
    BY FS_Singleton
  <2>2. IsFiniteSet({"passkeys"} \cup {"sessions"})
    BY <2>1, FS_AddElement
  <2>3. IsFiniteSet(({"passkeys"} \cup {"sessions"}) \cup {"events"})
    BY <2>2, FS_AddElement
  <2>4. Lists = ({"passkeys"} \cup {"sessions"}) \cup {"events"}
    BY DEF Lists
  <2>5. IsFiniteSet(Lists)
    BY <2>3, <2>4
  <2> QED BY <2>5, FS_Subset
<1>3. f \in Surjection(ls, T)
  BY DEF Surjection
<1>4. IsFiniteSet(T)
  BY <1>2, <1>3, FS_Surjection
<1>5. IsFiniteSet(others)
  BY <1>0, FS_Subset
<1>6. IsFiniteSet(others \cup T)
  BY <1>4, <1>5, FS_Union
<1>7. ASSUME NEW l \in ls
      PROVE  /\ r(l) \in Call /\ r(l).kind = l /\ r(l).phase = "sent" /\ r(l).ends = FALSE
             /\ r(l).clean => b(l)
  <2>1. l \in Kinds
    BY DEF Kinds
  <2>2. /\ Request(l) \in Call
        /\ Request(l).kind = l /\ Request(l).phase = "sent" /\ Request(l).ends = FALSE
    BY <2>1, RequestFits
  <2>3. b(l) \in BOOLEAN
    OBVIOUS
  <2>4. PICK v \in BOOLEAN : v = b(l)
    BY <2>3
  <2> HIDE DEF b
  <2>5. r(l) = [Request(l) EXCEPT !.clean = v]
    BY <2>4
  <2> HIDE DEF r
  <2>6. /\ r(l) \in Call /\ r(l).kind = l /\ r(l).phase = "sent" /\ r(l).ends = FALSE
        /\ r(l).clean = v
    BY <2>2, <2>5 DEF Call
  <2>7. r(l).clean => b(l)
    BY <2>4, <2>6
  <2> QED BY <2>6, <2>7
<1> HIDE DEF r
<1>8. T \subseteq Call
  BY <1>7
<1>9. ASSUME NEW e \in T
      PROVE  /\ e.kind \in ls /\ e.phase = "sent" /\ e.ends = FALSE
             /\ e.clean => ~\E c \in others : e.kind \in Changes(c.kind)
  <2>1. PICK l \in ls : e = r(l)
    OBVIOUS
  <2>2. e.clean => b(e.kind)
    BY <1>7, <2>1
  <2> QED BY <1>7, <2>1, <2>2
<1> QED BY <1>0, <1>1, <1>6, <1>8, <1>9

Unanswered(e) == e.phase = "sent"

LEMMA ListingNew ==
    ASSUME TypeInv, NEW ls \in SUBSET Lists, NEW others \in SUBSET calls,
           NEW e \in Listing(ls, others), e \notin others
    PROVE  /\ e.kind \in ls /\ Unanswered(e) /\ e.ends = FALSE
           /\ e.clean => ~\E c \in others : e.kind \in Changes(c.kind)
BY ListingSent DEF Unanswered

-----------------------------------------------------------------------------
(* Type correctness.                                                         *)

GeneralOK ==
    /\ stored \in [gotify: Gotify, days: Days, by: {"others"} \cup Writes]
    /\ loading \in BOOLEAN /\ form \in [gotify: Text, days: Days]
    /\ isSaving \in BOOLEAN /\ isTesting \in BOOLEAN
    /\ banner \subseteq {"saved", "error", "tested", "untested"}
    /\ faithful \in BOOLEAN

ListsOK ==
    /\ account \in Account /\ shown \in Account
    /\ fetching \in [Lists -> BOOLEAN] /\ quiet \in [Lists -> BOOLEAN]

BusyOK ==
    /\ isAddingPasskey \in BOOLEAN /\ editing \in Keys \cup {None}
    /\ deletingPasskeyId \in Keys \cup {None}
    /\ revokingSessionId \in Sessions \cup {None}
    /\ isRevokingOther \in BOOLEAN
    /\ pendingDestructive \in [kind: Destructive, item: Keys \cup Sessions \cup {None}]
                                 \cup {Closed}
    /\ DialogFits

PageOK == tab \in {"general", "security"} /\ left \in [DOMAIN Bound -> Nat]

CallsOK == calls \subseteq Call /\ IsFiniteSet(calls) /\ \A c \in calls : CallFits(c)

LEMMA TypeParts == TypeInv <=> GeneralOK /\ ListsOK /\ BusyOK /\ PageOK /\ CallsOK
BY DEF TypeInv, TypeOK, GeneralOK, ListsOK, BusyOK, PageOK, CallsOK

LEMMA TypePartsNext == TypeInv' <=> (GeneralOK /\ ListsOK /\ BusyOK /\ PageOK /\ CallsOK)'
BY DEF TypeInv, TypeOK, GeneralOK, ListsOK, BusyOK, PageOK, CallsOK

\* Adding, replacing and dropping a request.
LEMMA AddFits ==
    ASSUME TypeInv, NEW r \in Call, CallFits(r), calls' = calls \cup {r}
    PROVE  CallsOK'
<1>0. CallsOK
  BY TypeParts
<1>1. IsFiniteSet(calls')
  BY <1>0, FS_AddElement DEF CallsOK
<1> QED BY <1>0, <1>1 DEF CallsOK

LEMMA DropFits ==
    ASSUME TypeInv, NEW c \in calls, calls' = calls \ {c}
    PROVE  CallsOK'
<1>0. CallsOK
  BY TypeParts
<1>1. IsFiniteSet(calls')
  BY <1>0, FS_RemoveElement DEF CallsOK
<1> QED BY <1>0, <1>1 DEF CallsOK

LEMMA ReplaceFits ==
    ASSUME TypeInv, NEW c \in calls, NEW r \in Call, CallFits(r),
           calls' = (calls \ {c}) \cup {r}
    PROVE  CallsOK'
<1>0. CallsOK
  BY TypeParts
<1>1. IsFiniteSet(calls \ {c})
  BY <1>0, FS_RemoveElement DEF CallsOK
<1>2. IsFiniteSet((calls \ {c}) \cup {r})
  BY <1>1, FS_AddElement
<1> QED BY <1>0, <1>2 DEF CallsOK

\* Sending a change, or listings.
LEMMA SendFits ==
    ASSUME TypeInv, NEW c \in Call, CallFits(c), NEW b \in SUBSET calls,
           calls' = Sending(c) \ b
    PROVE  CallsOK'
<1>0. CallsOK
  BY TypeParts
<1>1. Sending(c) \subseteq Call /\ IsFiniteSet(Sending(c))
  BY SendingFits
<1>2. IsFiniteSet(calls') /\ calls' \subseteq Call
  BY <1>1, FS_Subset
<1>3. \A d \in Call : d # c /\ d.kind \notin Lists => (d \in Sending(c) <=> d \in calls)
  BY SendingFits
<1>4. \A d : d.kind \in Lists => CallFits(d)
  BY DEF CallFits, Lists
<1>5. \A d \in Sending(c) : CallFits(d)
  BY <1>0, <1>1, <1>3, <1>4 DEF CallsOK
<1> QED BY <1>2, <1>5 DEF CallsOK

LEMMA ListFits ==
    ASSUME TypeInv, NEW ls \in SUBSET Lists, NEW others \in SUBSET calls,
           calls' = Listing(ls, others)
    PROVE  CallsOK'
<1>0. CallsOK
  BY TypeParts
<1>1. /\ Listing(ls, others) \subseteq Call /\ IsFiniteSet(Listing(ls, others))
      /\ \A e \in Listing(ls, others) : e \in others \/ e.kind \in ls
  BY ListingSent
<1>2. \A d : d.kind \in Lists => CallFits(d)
  BY DEF CallFits, Lists
<1> QED BY <1>0, <1>1, <1>2 DEF CallsOK

\* The budgets stay numbers.
LEMMA SpendFits ==
    ASSUME left \in [DOMAIN Bound -> Nat], NEW k \in {"clicks", "faults"}, Spend(k)
    PROVE  left' \in [DOMAIN Bound -> Nat]
BY SMT DEF Spend, Bound

LEMMA FormConfigFits ==
    ASSUME GeneralOK, NEW d \in Days
    PROVE  FormConfig \in Config /\ [FormConfig EXCEPT !.days = d] \in Config
BY DEF GeneralOK, FormConfig, Config, Text, Trim

\* The kinds of request the page sends.
LEMMA KindsKnown ==
    /\ {"load", "test", "begin", "finish", "rename", "save", "retention",
        "deletePasskey", "revoke", "revokeAll", "passkeys", "sessions", "events"} \subseteq Kinds
    /\ Destructive \subseteq Kinds /\ Lists \subseteq Kinds
BY DEF Kinds, Writes, Destructive, Lists

\* The requests of the general tab are well formed.
LEMMA GeneralTypes ==
    ASSUME TypeInv, GeneralStep
    PROVE  TypeInv'
<1>0. GeneralOK /\ ListsOK /\ BusyOK /\ PageOK /\ CallsOK
  BY TypeParts
<1>1. Spend("clicks") /\ UNCHANGED <<stored, loading, security, tab, pendingDestructive>>
  BY DEF GeneralStep, Edit, handleSave, handleRetentionChange, handleTestConnection
<1>2. ListsOK' /\ BusyOK' /\ PageOK'
  <2>1. left' \in [DOMAIN Bound -> Nat]
    BY <1>0, <1>1, SpendFits DEF PageOK
  <2> QED BY <1>0, <1>1, <2>1, ZenonT(30) DEF ListsOK, BusyOK, DialogFits, PageOK, security
<1>3. ASSUME Edit PROVE GeneralOK' /\ CallsOK'
  <2>1. CallsOK'
    BY <1>0, <1>3 DEF Edit, CallsOK, CallFits
  <2>2. GeneralOK'
    BY <1>0, <1>3 DEF Edit, GeneralOK
  <2> QED BY <2>1, <2>2
<1>4. ASSUME handleSave PROVE GeneralOK' /\ CallsOK'
  <2>1. Request("save") \in Call /\ Request("save").kind = "save" /\ FormConfig \in Config
    BY <1>0, KindsKnown, RequestFits, FormConfigFits, SettingsAssumption
  <2> DEFINE r == [Request("save") EXCEPT !.cfg = FormConfig]
  <2>2. r \in Call /\ r.kind = "save"
    BY <2>1 DEF Call
  <2>3. CallsOK'
    BY <1>4, <2>2, AddFits DEF handleSave, CallFits
  <2>4. GeneralOK'
    BY <1>0, <1>4 DEF handleSave, GeneralOK
  <2> QED BY <2>3, <2>4
<1>5. ASSUME handleRetentionChange PROVE GeneralOK' /\ CallsOK'
  <2> DEFINE r(d) == [Request("retention") EXCEPT !.cfg = [FormConfig EXCEPT !.days = d],
                                                  !.prev = form.days]
  <2>1. PICK d \in Days : form' = [form EXCEPT !.days = d] /\ calls' = calls \cup {r(d)}
    BY <1>5 DEF handleRetentionChange
  <2>2. /\ Request("retention") \in Call /\ Request("retention").kind = "retention"
        /\ [FormConfig EXCEPT !.days = d] \in Config
    BY <1>0, KindsKnown, RequestFits, FormConfigFits
  <2>3. form.days \in Days
    BY <1>0 DEF GeneralOK
  <2>4. r(d) \in Call /\ r(d).kind = "retention"
    BY <2>2, <2>3 DEF Call
  <2>5. CallsOK'
    BY <2>1, <2>4, AddFits DEF CallFits
  <2>6. GeneralOK'
    BY <1>0, <1>5, <2>1 DEF handleRetentionChange, GeneralOK, ClearedVerdict
  <2> QED BY <2>5, <2>6
<1>6. ASSUME handleTestConnection PROVE GeneralOK' /\ CallsOK'
  <2>1. Request("test") \in Call /\ Request("test").kind = "test" /\ FormConfig \in Config
    BY <1>0, KindsKnown, RequestFits, FormConfigFits, SettingsAssumption
  <2> DEFINE r == [Request("test") EXCEPT !.cfg = FormConfig]
  <2>2. r \in Call /\ r.kind = "test"
    BY <2>1 DEF Call
  <2>3. CallsOK'
    BY <1>6, <2>2, AddFits DEF handleTestConnection, CallFits
  <2>4. GeneralOK'
    BY <1>0, <1>6 DEF handleTestConnection, GeneralOK
  <2> QED BY <2>3, <2>4
<1> QED BY <1>2, <1>3, <1>4, <1>5, <1>6, TypePartsNext DEF GeneralStep

\* The marks after a change of lists.
LEMMA OverlapFits ==
    ASSUME NEW c
    PROVE  Overlap(c) \in [Lists -> BOOLEAN]
BY DEF Overlap

\* The request that renames a passkey, and the one that finishes adding it.
Renaming(m) == [Request("rename") EXCEPT !.item = editing, !.name = m]
Finishing(c) == [Request("finish") EXCEPT !.item = c.item, !.name = c.name]

LEMMA RenamingFits ==
    ASSUME TypeInv, editing \in {p.id : p \in shown.passkeys}, NEW m \in Names
    PROVE  /\ Renaming(m) \in Call /\ CallFits(Renaming(m))
           /\ Renaming(m).kind = "rename" /\ Renaming(m).phase = "sent"
           /\ Renaming(m).ends = FALSE
<1>1. /\ Request("rename") \in Call /\ Request("rename").kind = "rename"
      /\ Request("rename").phase = "sent" /\ Request("rename").ends = FALSE
  BY KindsKnown, RequestFits
<1>2. editing \in Keys
  BY SMT DEF TypeInv, TypeOK, Account, Passkey
<1> QED BY <1>1, <1>2 DEF Renaming, Call, CallFits

LEMMA FinishingFits ==
    ASSUME TypeInv, NEW c \in calls, c.kind = "begin"
    PROVE  /\ Finishing(c) \in Call /\ CallFits(Finishing(c))
           /\ Finishing(c).kind = "finish" /\ Finishing(c).phase = "sent"
           /\ Finishing(c).ends = FALSE
<1>1. /\ Request("finish") \in Call /\ Request("finish").kind = "finish"
      /\ Request("finish").phase = "sent" /\ Request("finish").ends = FALSE
  BY KindsKnown, RequestFits
<1>2. c.item \in Keys /\ c.name \in Names
  BY DEF TypeInv, CallFits
<1> QED BY <1>1, <1>2 DEF Finishing, Call, CallFits

\* The listing that completes a revocation of all other sessions.
Completing(c) ==
    [Request("sessions") EXCEPT !.ends = TRUE, !.clean =
        ~\E d \in calls \ {c} : "sessions" \in Changes(d.kind)]

LEMMA CompletingFits ==
    ASSUME TypeInv, NEW c
    PROVE  /\ Completing(c) \in Call /\ CallFits(Completing(c))
           /\ Completing(c).kind = "sessions" /\ Completing(c).phase = "sent"
           /\ Completing(c).ends = TRUE /\ Completing(c).item = None
           /\ Completing(c).clean => ~\E d \in calls \ {c} : "sessions" \in Changes(d.kind)
<1> DEFINE r == Request("sessions")
           b == ~\E d \in calls \ {c} : "sessions" \in Changes(d.kind)
           m == Completing(c)
<1>1. r \in Call /\ r.kind = "sessions" /\ r.phase = "sent" /\ r.item = None
  BY KindsKnown, RequestFits
<1>2. PICK v \in BOOLEAN : v = b
  OBVIOUS
<1>3. m = [r EXCEPT !.ends = TRUE, !.clean = v]
  BY <1>2 DEF Completing
<1>4. v => b
  BY <1>2
<1> HIDE DEF r, m, b
<1>5. /\ m \in Call /\ m.kind = "sessions" /\ m.phase = "sent" /\ m.ends = TRUE
      /\ m.item = None /\ m.clean = v
  BY <1>1, <1>3 DEF Call
<1>6. CallFits(m)
  BY <1>5 DEF CallFits
<1>7. m.clean => b
  BY <1>4, <1>5
<1> USE DEF m, b
<1> QED BY <1>5, <1>6, <1>7

\* The request a dialog sends.
Confirmed ==
    [Request(pendingDestructive.kind) EXCEPT
        !.item = pendingDestructive.item,
        !.was = IF pendingDestructive.kind = "revoke" THEN shown.sessions ELSE {}]

LEMMA ConfirmedFits ==
    ASSUME TypeInv, pendingDestructive # Closed
    PROVE  /\ Confirmed \in Call /\ CallFits(Confirmed)
           /\ Confirmed.phase = "sent" /\ Confirmed.ends = FALSE
           /\ Confirmed.kind = pendingDestructive.kind /\ Confirmed.kind \in Destructive
           /\ Confirmed.item = pendingDestructive.item
           /\ Confirmed.kind = "revoke" => Confirmed.was = shown.sessions
<1>1. /\ pendingDestructive.kind \in Destructive
      /\ pendingDestructive.item \in Keys \cup Sessions \cup {None}
  BY DEF TypeInv, TypeOK
<1> DEFINE r == Request(pendingDestructive.kind)
<1>2. r \in Call /\ r.kind = pendingDestructive.kind /\ r.phase = "sent" /\ r.ends = FALSE
  BY <1>1, KindsKnown, RequestFits
<1>3. shown.sessions \subseteq Sessions
  BY DEF TypeInv, TypeOK, Account
<1> DEFINE S == IF pendingDestructive.kind = "revoke" THEN shown.sessions ELSE {}
<1>4. S \subseteq Sessions
  BY <1>3
<1>5. Confirmed = [r EXCEPT !.item = pendingDestructive.item, !.was = S]
  BY DEF Confirmed
<1>6. pendingDestructive.kind = "revoke" => S = shown.sessions
  OBVIOUS
<1> HIDE DEF r, S
<1>7. /\ Confirmed \in Call /\ Confirmed.phase = "sent" /\ Confirmed.ends = FALSE
      /\ Confirmed.kind = pendingDestructive.kind /\ Confirmed.was = S
      /\ Confirmed.item = pendingDestructive.item
  BY <1>1, <1>2, <1>4, <1>5 DEF Call
<1>8. CallFits(Confirmed)
  BY <1>1, <1>7 DEF CallFits, TypeInv, DialogFits, Destructive
<1> QED BY <1>1, <1>6, <1>7, <1>8

\* What the user starts on the security tab is well formed.
LEMMA SecurityTypes ==
    ASSUME TypeInv, SecurityStep
    PROVE  TypeInv'
<1>0. GeneralOK /\ ListsOK /\ BusyOK /\ PageOK /\ CallsOK
  BY TypeParts
<1>1. GeneralOK'
  <2>1. UNCHANGED general
    BY DEF SecurityStep, SwitchTab, Refresh, handleAddPasskey, EditName,
           handleRenamePasskey, Arm, Dismiss, confirmDestructive
  <2> QED BY <1>0, <2>1 DEF GeneralOK, general
<1>2. ASSUME SwitchTab PROVE ListsOK' /\ BusyOK' /\ PageOK' /\ CallsOK'
  <2>1. PageOK'
    <3>1. left' \in [DOMAIN Bound -> Nat]
      BY <1>0, <1>2, SpendFits DEF PageOK, SwitchTab
    <3> QED BY <1>2, <3>1 DEF PageOK, SwitchTab
  <2>2. CallsOK'
    <3>1. Lists \in SUBSET Lists /\ calls \in SUBSET calls
      OBVIOUS
    <3>2. calls' = Listing(Lists, calls) \/ calls' = calls
      BY <1>2 DEF SwitchTab
    <3>3. calls' = calls => CallsOK'
      BY <1>0 DEF CallsOK
    <3> QED BY <3>1, <3>2, <3>3, ListFits
  <2>3. ListsOK'
    BY <1>0, <1>2 DEF ListsOK, SwitchTab
  <2>4. BusyOK'
    BY <1>0, <1>2 DEF BusyOK, DialogFits, SwitchTab
  <2> QED BY <2>1, <2>2, <2>3, <2>4
<1>3. ASSUME NEW l \in Lists, Refresh(l) PROVE ListsOK' /\ BusyOK' /\ PageOK' /\ CallsOK'
  <2>1. PageOK'
    BY <1>0, <1>3, SpendFits DEF PageOK, Refresh
  <2>2. CallsOK'
    BY <1>3, ListFits DEF Refresh
  <2>3. ListsOK'
    BY <1>0, <1>3 DEF ListsOK, Refresh
  <2>4. BusyOK'
    BY <1>0, <1>3 DEF BusyOK, DialogFits, Refresh
  <2> QED BY <2>1, <2>2, <2>3, <2>4
<1>4. ASSUME handleAddPasskey PROVE ListsOK' /\ BusyOK' /\ PageOK' /\ CallsOK'
  <2>1. PageOK'
    BY <1>0, <1>4, SpendFits DEF PageOK, handleAddPasskey
  <2> DEFINE r(k, m) == [Request("begin") EXCEPT !.item = k, !.name = m]
  <2>2. PICK k \in Keys, m \in Names : calls' = calls \cup {r(k, m)}
    BY <1>4 DEF handleAddPasskey
  <2>3. Request("begin") \in Call /\ Request("begin").kind = "begin"
    BY KindsKnown, RequestFits
  <2>4. r(k, m) \in Call /\ r(k, m).item = k /\ r(k, m).name = m
    BY <2>3 DEF Call
  <2>5. CallsOK'
    BY <2>2, <2>4, AddFits DEF CallFits
  <2>6. ListsOK'
    BY <1>0, <1>4 DEF ListsOK, handleAddPasskey
  <2>7. BusyOK'
    BY <1>0, <1>4 DEF BusyOK, DialogFits, handleAddPasskey
  <2> QED BY <2>1, <2>5, <2>6, <2>7
<1>5. ASSUME EditName PROVE ListsOK' /\ BusyOK' /\ PageOK' /\ CallsOK'
  <2>1. PageOK' /\ CallsOK'
    BY <1>0, <1>5 DEF PageOK, CallsOK, CallFits, EditName
  <2>2. ListsOK'
    BY <1>0, <1>5 DEF ListsOK, EditName
  <2>3. \A p \in shown.passkeys : p.id \in Keys
    BY <1>0 DEF ListsOK, Account, Passkey
  <2>4. editing' \in Keys \cup {None}
    BY <1>5, <2>3 DEF EditName
  <2>5. BusyOK'
    BY <1>0, <1>5, <2>4 DEF BusyOK, DialogFits, EditName
  <2> QED BY <2>1, <2>2, <2>5
<1>6. ASSUME handleRenamePasskey PROVE ListsOK' /\ BusyOK' /\ PageOK' /\ CallsOK'
  <2>1. PageOK'
    BY <1>0, <1>6, SpendFits DEF PageOK, handleRenamePasskey
  <2>2. PICK m \in Names : calls' = Sending(Renaming(m)) /\ quiet' = Overlap(Renaming(m))
    BY <1>6 DEF handleRenamePasskey, Renaming
  <2>3. Renaming(m) \in Call /\ CallFits(Renaming(m))
    BY <1>6, RenamingFits DEF handleRenamePasskey
  <2>4. Sending(Renaming(m)) = Sending(Renaming(m)) \ {} /\ {} \in SUBSET calls
    OBVIOUS
  <2>5. CallsOK'
    BY <2>2, <2>3, <2>4, SendFits
  <2>6. ListsOK'
    BY <1>0, <1>6, <2>2, OverlapFits DEF ListsOK, handleRenamePasskey
  <2>7. BusyOK'
    BY <1>0, <1>6 DEF BusyOK, DialogFits, handleRenamePasskey
  <2> QED BY <2>1, <2>5, <2>6, <2>7
<1>7. ASSUME Arm PROVE ListsOK' /\ BusyOK' /\ PageOK' /\ CallsOK'
  <2>1. PageOK' /\ CallsOK' /\ ListsOK'
    BY <1>0, <1>7 DEF PageOK, CallsOK, CallFits, ListsOK, Arm, security
  <2>2. \A p \in shown.passkeys : p.id \in Keys
    BY <1>0 DEF ListsOK, Account, Passkey
  <2>3. Revocable \subseteq Sessions
    BY <1>0 DEF ListsOK, Account, Revocable
  <2>4. pendingDestructive' \in [kind: Destructive, item: Keys \cup Sessions \cup {None}]
    BY <1>7, <2>2, <2>3 DEF Arm, Offers, Destructive
  <2>5. DialogFits'
    BY <1>7, <2>2, <2>3 DEF Arm, Offers, DialogFits
  <2>6. BusyOK'
    BY <1>0, <1>7, <2>4, <2>5 DEF BusyOK, Arm, security
  <2> QED BY <2>1, <2>6
<1>8. ASSUME Dismiss PROVE ListsOK' /\ BusyOK' /\ PageOK' /\ CallsOK'
  <2>1. PageOK' /\ CallsOK' /\ ListsOK'
    BY <1>0, <1>8 DEF PageOK, CallsOK, CallFits, ListsOK, Dismiss, security
  <2>2. BusyOK'
    <3>1. DialogFits'
      BY <1>8, SettingsAssumption DEF Dismiss, DialogFits, Closed, Destructive
    <3> QED BY <1>0, <1>8, <3>1 DEF BusyOK, Dismiss, security
  <2> QED BY <2>1, <2>2
<1>9. ASSUME confirmDestructive PROVE ListsOK' /\ BusyOK' /\ PageOK' /\ CallsOK'
  <2> DEFINE c == Confirmed
  <2>1. /\ c \in Call /\ CallFits(c)
        /\ c.kind = pendingDestructive.kind /\ c.item = pendingDestructive.item
    BY <1>9, ConfirmedFits DEF confirmDestructive
  <2>2. /\ calls' = Sending(c) /\ quiet' = Overlap(c) /\ shown' = ShownAfterConfirm(c)
        /\ deletingPasskeyId' = IF c.kind = "deletePasskey" THEN c.item ELSE deletingPasskeyId
        /\ revokingSessionId' = IF c.kind = "revoke" THEN c.item ELSE revokingSessionId
        /\ isRevokingOther' = (isRevokingOther \/ c.kind = "revokeAll")
    BY <1>9 DEF confirmDestructive, Confirmed
  <2> HIDE DEF c
  <2>3. PageOK'
    BY <1>0, <1>9, SpendFits DEF PageOK, confirmDestructive
  <2>4. CallsOK'
    <3>1. Sending(c) = Sending(c) \ {} /\ {} \in SUBSET calls
      OBVIOUS
    <3> QED BY <2>1, <2>2, <3>1, SendFits
  <2>5. ListsOK'
    <3>1. shown' \in Account
      BY <1>0, <2>2 DEF ListsOK, Account, ShownAfterConfirm
    <3> QED BY <1>0, <1>9, <2>2, <3>1, OverlapFits DEF ListsOK, confirmDestructive
  <2>6. BusyOK'
    <3>1. deletingPasskeyId' \in Keys \cup {None} /\ revokingSessionId' \in Sessions \cup {None}
      BY <1>0, <2>1, <2>2 DEF BusyOK, DialogFits
    <3>2. isRevokingOther' \in BOOLEAN
      BY <2>2
    <3>3. UNCHANGED <<pendingDestructive, isAddingPasskey, editing>>
      BY <1>9 DEF confirmDestructive, DialogAfterConfirm
    <3> QED BY <1>0, <3>1, <3>2, <3>3 DEF BusyOK, DialogFits
  <2> QED BY <2>3, <2>4, <2>5, <2>6
<1> QED
  BY <1>0, <1>1, <1>2, <1>3, <1>4, <1>5, <1>6, <1>7, <1>8, <1>9, TypePartsNext DEF SecurityStep

\* The answers to the requests of the general tab.
LEMMA GeneralLandTypes ==
    ASSUME TypeInv, NEW c \in calls, LoadLands(c) \/ SaveLands(c) \/ TestLands(c)
    PROVE  TypeInv'
<1>0. GeneralOK /\ ListsOK /\ BusyOK /\ PageOK /\ CallsOK
  BY TypeParts
<1>1. /\ calls' = calls \ {c}
      /\ UNCHANGED <<stored, security, tab, pendingDestructive, left>>
  BY DEF LoadLands, SaveLands, TestLands
<1>2. ListsOK' /\ BusyOK' /\ PageOK'
  BY <1>0, <1>1, ZenonT(30) DEF ListsOK, BusyOK, DialogFits, PageOK, security
<1>3. CallsOK'
  BY <1>1, DropFits
<1>4. c.cfg.gotify \in Gotify /\ c.cfg.days \in Days /\ c.prev \in Days
  BY <1>0 DEF CallsOK, Call, Config
<1>5. LoadLands(c) => GeneralOK'
  <2>1. ASSUME LoadLands(c), c.phase = "ok" PROVE GeneralOK'
    <3>1. form' = [gotify |-> [value |-> c.cfg.gotify, padded |-> FALSE], days |-> c.cfg.days]
      BY <2>1 DEF LoadLands
    <3>2. form' \in [gotify: Text, days: Days]
      BY <1>4, <3>1 DEF Text
    <3>3. faithful' \in BOOLEAN
      BY <2>1 DEF LoadLands
    <3>4. loading' = FALSE /\ UNCHANGED <<stored, isSaving, isTesting, banner>>
      BY <2>1 DEF LoadLands
    <3> QED BY <1>0, <3>2, <3>3, <3>4 DEF GeneralOK
  <2>2. ASSUME LoadLands(c), c.phase # "ok" PROVE GeneralOK'
    BY <1>0, <2>2 DEF LoadLands, GeneralOK
  <2> QED BY <2>1, <2>2
<1>6. SaveLands(c) => GeneralOK'
  BY <1>0, <1>4 DEF SaveLands, Reverted, GeneralOK
<1>7. TestLands(c) => GeneralOK'
  BY <1>0 DEF TestLands, GeneralOK
<1> QED BY <1>2, <1>3, <1>5, <1>6, <1>7, TypePartsNext

\* What a change does to the lists on screen and on the server is well formed.
LEMMA PatchFits ==
    ASSUME TypeInv, NEW c \in calls, c.kind \in ChangeKinds
    PROVE  Patched(c) \in Account /\ RolledBack(c) \in Account /\ Changed(c) \in Account
<1>0. /\ account \in Account /\ shown \in Account /\ c \in Call
      /\ c.kind \in {"finish", "rename", "deletePasskey"} => c.item \in Keys
      /\ c.kind \in {"finish", "rename"} => c.name \in Names
  BY DEF TypeInv, TypeOK, CallFits
<1>1. ASSUME NEW S \in SUBSET Passkey, c.kind \in {"finish", "rename", "deletePasskey"}
      PROVE  /\ c.kind = "finish" => S \cup {[id |-> c.item, name |-> c.name]} \in SUBSET Passkey
             /\ c.kind = "rename" => {IF p.id = c.item THEN [p EXCEPT !.name = c.name] ELSE p :
                                        p \in S} \in SUBSET Passkey
             /\ {p \in S : p.id # c.item} \in SUBSET Passkey
  BY <1>0, <1>1, SMT DEF Passkey
<1>2. Patched(c) \in Account
  BY <1>0, <1>1 DEF Patched, Account
<1>3. RolledBack(c) \in Account
  BY <1>0 DEF RolledBack, Account, Call
<1>4. Changed(c) \in Account
  <2>1. account.events + 1 \in Nat
    BY <1>0, SMT DEF Account
  <2> QED BY <1>0, <1>1, <2>1, ZenonT(30) DEF Changed, Account, ChangeKinds, Destructive
<1> QED BY <1>2, <1>3, <1>4

\* The answers to the requests of the security tab.
LEMMA SecurityLandTypes ==
    ASSUME TypeInv, NEW c \in calls,
           ListLands(c) \/ BeginLands(c) \/ ChangeLands(c) \/ RevokedAll(c) \/ ChangeFails(c)
    PROVE  TypeInv'
<1>0. GeneralOK /\ ListsOK /\ BusyOK /\ PageOK /\ CallsOK
  BY TypeParts
<1>1. GeneralOK' /\ PageOK'
  <2>1. UNCHANGED <<general, tab, left>>
    BY DEF ListLands, BeginLands, ChangeLands, RevokedAll, ChangeFails
  <2> QED BY <1>0, <2>1 DEF GeneralOK, PageOK, general
<1>2. /\ c \in Call /\ c.out \in Account /\ c.was \in SUBSET Sessions
      /\ c.clean \in BOOLEAN /\ c.ends \in BOOLEAN
  BY <1>0 DEF CallsOK, Call
<1>3. Closed \in {Closed} /\ Closed.kind \notin Destructive
  BY SettingsAssumption DEF Closed
<1>4. ASSUME ListLands(c) PROVE ListsOK' /\ BusyOK' /\ CallsOK'
  <2>1. CallsOK'
    <3>1. {l \in {"events"} : c.ends} \in SUBSET Lists /\ calls \ {c} \in SUBSET calls
      BY DEF Lists
    <3> QED BY <1>4, <3>1, ListFits DEF ListLands
  <2>2. shown' \in Account
    <3>1. shown' = shown \/ shown' = [shown EXCEPT ![c.kind] = c.out[c.kind]]
      BY <1>4 DEF ListLands
    <3>2. c.kind \in Lists /\ shown \in Account
      BY <1>0, <1>4 DEF ListLands, ListsOK
    <3> QED BY ONLY <1>2, <3>1, <3>2, ZenonT(30) DEF Account, Lists
  <2>3. quiet' \in [Lists -> BOOLEAN]
    BY <1>0, <1>2, <1>4 DEF ListLands, ListsOK
  <2>4. fetching' \in [Lists -> BOOLEAN]
    BY <1>0, <1>4 DEF ListLands, ListsOK, Lists
  <2>5. ListsOK'
    BY <1>0, <1>4, <2>2, <2>3, <2>4 DEF ListLands, ListsOK
  <2>6. DialogFits'
    BY <1>0, <1>3, <1>4 DEF ListLands, BusyOK, DialogFits, Destructive
  <2>7. BusyOK'
    BY <1>0, <1>4, <2>6 DEF ListLands, BusyOK
  <2> QED BY <2>1, <2>5, <2>7
<1>5. ASSUME BeginLands(c) PROVE ListsOK' /\ BusyOK' /\ CallsOK'
  <2>1. CASE c.phase = "ok"
    <3>1. /\ calls' = Sending(Finishing(c)) \ {c} /\ quiet' = Overlap(Finishing(c))
          /\ UNCHANGED isAddingPasskey
      BY <1>5, <2>1 DEF BeginLands, Finishing
    <3>2. Finishing(c) \in Call /\ CallFits(Finishing(c)) /\ {c} \in SUBSET calls
      BY <1>5, FinishingFits DEF BeginLands
    <3>3. CallsOK'
      BY <3>1, <3>2, SendFits
    <3>4. ListsOK'
      BY <1>0, <1>5, <3>1, OverlapFits DEF BeginLands, ListsOK
    <3>5. BusyOK'
      BY <1>0, <1>5, <3>1 DEF BeginLands, BusyOK, DialogFits
    <3> QED BY <3>3, <3>4, <3>5
  <2>2. CASE c.phase # "ok"
    <3>1. CallsOK'
      BY <1>5, <2>2, DropFits DEF BeginLands
    <3>2. ListsOK'
      BY <1>0, <1>5, <2>2 DEF BeginLands, ListsOK
    <3>3. BusyOK'
      BY <1>0, <1>5, <2>2 DEF BeginLands, BusyOK, DialogFits
    <3> QED BY <3>1, <3>2, <3>3
  <2> QED BY <2>1, <2>2
<1>6. ASSUME ChangeLands(c) PROVE ListsOK' /\ BusyOK' /\ CallsOK'
  <2>1. CallsOK'
    <3>1. {"events"} \cap Changes(c.kind) \in SUBSET Lists /\ calls \ {c} \in SUBSET calls
      BY DEF Lists
    <3> QED BY <1>6, <3>1, ListFits DEF ChangeLands
  <2>2. shown' \in Account
    BY <1>6, PatchFits DEF ChangeLands, ChangeKinds, Destructive
  <2>3. quiet' \in [Lists -> BOOLEAN] /\ fetching' \in [Lists -> BOOLEAN]
    BY <1>0, <1>6 DEF ChangeLands, ListsOK
  <2>4. ListsOK'
    BY <1>0, <1>6, <2>2, <2>3 DEF ChangeLands, ListsOK
  <2>5. DialogFits'
    BY <1>0, <1>3, <1>6 DEF ChangeLands, BusyOK, DialogFits, Destructive
  <2>6. BusyOK'
    BY <1>0, <1>6, <2>5 DEF ChangeLands, BusyOK
  <2> QED BY <2>1, <2>4, <2>6
<1>7. ASSUME RevokedAll(c) PROVE ListsOK' /\ BusyOK' /\ CallsOK'
  <2>1. CallsOK'
    <3>1. Completing(c) \in Call /\ CallFits(Completing(c))
      BY CompletingFits
    <3>2. calls' = (calls \ {c}) \cup {Completing(c)}
      BY <1>7 DEF RevokedAll, Completing
    <3> QED BY <3>1, <3>2, ReplaceFits
  <2>2. quiet' \in [Lists -> BOOLEAN] /\ fetching' \in [Lists -> BOOLEAN]
    BY <1>0, <1>7 DEF RevokedAll, ListsOK
  <2>3. ListsOK'
    BY <1>0, <1>7, <2>2 DEF RevokedAll, ListsOK
  <2>4. BusyOK'
    BY <1>0, <1>7 DEF RevokedAll, BusyOK, DialogFits
  <2> QED BY <2>1, <2>3, <2>4
<1>8. ASSUME ChangeFails(c) PROVE ListsOK' /\ BusyOK' /\ CallsOK'
  <2>1. CallsOK'
    BY <1>8, DropFits DEF ChangeFails
  <2>2. shown' \in Account
    BY <1>8, PatchFits DEF ChangeFails, ChangeKinds
  <2>3. ListsOK'
    BY <1>0, <1>8, <2>2 DEF ChangeFails, ListsOK
  <2>4. DialogFits'
    BY <1>0, <1>3, <1>8 DEF ChangeFails, BusyOK, DialogFits, Destructive
  <2>5. BusyOK'
    BY <1>0, <1>8, <2>4 DEF ChangeFails, BusyOK
  <2> QED BY <2>1, <2>3, <2>5
<1> QED BY <1>1, <1>4, <1>5, <1>6, <1>7, <1>8, TypePartsNext

\* The server, and the network.
LEMMA ServeTypes ==
    ASSUME TypeInv, NEW c \in calls, Serve(c) \/ Refuse(c) \/ Lose(c)
    PROVE  TypeInv'
<1>0. GeneralOK /\ ListsOK /\ BusyOK /\ PageOK /\ CallsOK
  BY TypeParts
<1>1. c \in Call /\ CallFits(c)
  BY <1>0 DEF CallsOK
<1>2. ASSUME NEW p \in {"sent", "ok", "failed"}, calls' = Answer(c, p) PROVE CallsOK'
  <2>1. [c EXCEPT !.phase = p] \in Call /\ CallFits([c EXCEPT !.phase = p])
    BY <1>1 DEF Call, CallFits
  <2> QED BY <1>2, <2>1, ReplaceFits DEF Answer
<1>3. ASSUME ServeSettings(c) PROVE TypeInv'
  <2>1. c.cfg.gotify \in Gotify /\ c.cfg.days \in Days
    BY <1>1 DEF Call, Config
  <2>2. GeneralOK'
    BY <1>0, <1>3, <2>1 DEF ServeSettings, GeneralOK
  <2>3. ListsOK' /\ BusyOK' /\ PageOK'
    BY <1>0, <1>3, ZenonT(30) DEF ServeSettings, ListsOK, BusyOK, DialogFits, PageOK, security
  <2> DEFINE g == IF c.kind = "load" THEN [gotify |-> stored.gotify, days |-> stored.days]
                                     ELSE c.cfg
             r == [c EXCEPT !.phase = "ok", !.cfg = g]
  <2>4. g \in Config
    BY <1>0, <1>1 DEF GeneralOK, Call, Config
  <2>5. calls' = (calls \ {c}) \cup {r}
    BY <1>3 DEF ServeSettings
  <2> HIDE DEF g
  <2>6. r \in Call /\ CallFits(r)
    BY <1>1, <2>4 DEF Call, CallFits
  <2>7. CallsOK'
    BY <2>5, <2>6, ReplaceFits
  <2> QED BY <2>2, <2>3, <2>7, TypePartsNext
<1>4. ASSUME ServeList(c) PROVE TypeInv'
  <2>0. UNCHANGED <<general, security, tab, pendingDestructive, left>>
    BY <1>4 DEF ServeList
  <2>1. GeneralOK' /\ ListsOK' /\ BusyOK' /\ PageOK'
    <3>1. GeneralOK' /\ PageOK'
      BY <1>0, <2>0 DEF GeneralOK, PageOK, general
    <3>2. ListsOK' /\ BusyOK'
      BY <1>0, <2>0 DEF ListsOK, BusyOK, DialogFits, security
    <3> QED BY <3>1, <3>2
  <2> DEFINE a == [l \in Lists |-> IF l = c.kind THEN account[l] ELSE c.out[l]]
             r == [c EXCEPT !.phase = "ok", !.out = a]
  <2>2. a \in Account
    BY <1>0, <1>1 DEF ListsOK, Call, Account, Lists
  <2>3. calls' = (calls \ {c}) \cup {r}
    BY <1>4 DEF ServeList
  <2> HIDE DEF a
  <2>4. r \in Call /\ CallFits(r)
    BY <1>1, <2>2 DEF Call, CallFits
  <2>5. CallsOK'
    BY <2>3, <2>4, ReplaceFits
  <2> QED BY <2>1, <2>5, TypePartsNext
<1>5. ASSUME ServeChange(c) PROVE TypeInv'
  <2>1. GeneralOK' /\ BusyOK' /\ PageOK'
    BY <1>0, <1>5, SMT DEF ServeChange, GeneralOK, BusyOK, DialogFits, PageOK, general
  <2>2. account' \in Account
    BY <1>0, <1>5, PatchFits DEF ServeChange, ChangeKinds, ListsOK
  <2>3. ListsOK'
    BY <1>0, <1>5, <2>2 DEF ServeChange, ListsOK
  <2>4. CallsOK'
    BY <1>2, <1>5 DEF ServeChange
  <2> QED BY <2>1, <2>3, <2>4, TypePartsNext
<1>6. ASSUME Refuse(c) PROVE TypeInv'
  <2>1. GeneralOK' /\ ListsOK' /\ BusyOK'
    BY <1>0, <1>6, SMT DEF Refuse, GeneralOK, ListsOK, BusyOK, DialogFits, security, general
  <2>2. PageOK'
    BY <1>0, <1>6, SpendFits DEF Refuse, PageOK
  <2>3. CallsOK'
    BY <1>2, <1>6 DEF Refuse
  <2> QED BY <2>1, <2>2, <2>3, TypePartsNext
<1>7. ASSUME Lose(c) PROVE TypeInv'
  <2>1. GeneralOK' /\ BusyOK'
    BY <1>0, <1>7, SMT DEF Lose, GeneralOK, BusyOK, DialogFits
  <2>2. PageOK'
    BY <1>0, <1>7, SpendFits DEF Lose, PageOK
  <2>3. CallsOK'
    BY <1>2, <1>7 DEF Lose
  <2>4. ListsOK'
    BY <1>0, <1>7 DEF Lose, ListsOK
  <2> QED BY <2>1, <2>2, <2>3, <2>4, TypePartsNext
<1> QED BY <1>3, <1>4, <1>5, <1>6, <1>7 DEF Serve

LEMMA InitTypes == Init => TypeInv
<1> SUFFICES ASSUME Init PROVE TypeInv
  OBVIOUS
<1>1. PICK s \in Start :
         /\ stored = [gotify |-> s.cfg.gotify, days |-> s.cfg.days, by |-> "others"]
         /\ account = s.account
  BY DEF Init
<1>2. s.cfg \in Config /\ account \in Account
  BY <1>1, SettingsAssumption
<1>3. NoConfig \in Config /\ Nowhere \in Account /\ Empty \in Gotify /\ DefaultDays \in Days
  BY SettingsAssumption DEF NoConfig, Config, Nowhere, Account
<1>4. GeneralOK
  BY <1>1, <1>2, <1>3 DEF Init, GeneralOK, Config, Text
<1>5. ListsOK
  BY <1>2, <1>3 DEF Init, ListsOK
<1>6. BusyOK
  BY SettingsAssumption DEF Init, BusyOK, DialogFits, Closed, Destructive
<1>7. PageOK
  <2>1. tab = "general" /\ left = Bound
    BY DEF Init
  <2> QED BY ONLY <2>1, SettingsAssumption, SMT DEF PageOK, Bound
<1>8. CallsOK
  <2> DEFINE r == [kind |-> "load", item |-> None, name |-> None, cfg |-> NoConfig,
                   prev |-> DefaultDays, was |-> {}, n |-> 0, phase |-> "sent",
                   out |-> Nowhere, clean |-> TRUE, ends |-> FALSE]
  <2>1. r \in Call /\ CallFits(r)
    BY <1>3, KindsKnown DEF Call, CallFits
  <2>2. calls = {r}
    BY DEF Init
  <2> HIDE DEF r
  <2> QED BY <2>1, <2>2, FS_Singleton DEF CallsOK
<1> QED BY <1>4, <1>5, <1>6, <1>7, <1>8, TypeParts

LEMMA NextTypes == TypeInv /\ [Next]_vars => TypeInv'
<1> SUFFICES ASSUME TypeInv, [Next]_vars PROVE TypeInv'
  OBVIOUS
<1>1. ASSUME UNCHANGED vars PROVE TypeInv'
  <2>0. GeneralOK /\ ListsOK /\ BusyOK /\ PageOK /\ CallsOK
    BY TypeParts
  <2>1. UNCHANGED <<general, security, tab, pendingDestructive, calls, left>>
    BY <1>1 DEF vars
  <2>2. GeneralOK' /\ PageOK' /\ CallsOK'
    BY <2>0, <2>1 DEF GeneralOK, PageOK, CallsOK, CallFits, general
  <2>3. ListsOK' /\ BusyOK'
    BY <2>0, <2>1, ZenonT(30) DEF ListsOK, BusyOK, DialogFits, security
  <2> QED BY <2>2, <2>3, TypePartsNext
<1>2. ASSUME NEW c \in calls, Serve(c) \/ Land(c) \/ Refuse(c) \/ Lose(c) PROVE TypeInv'
  BY <1>2, ServeTypes, GeneralLandTypes, SecurityLandTypes DEF Land
<1> QED BY <1>1, <1>2, GeneralTypes, SecurityTypes DEF Next

-----------------------------------------------------------------------------
(* The general tab: one request at a time, and the form is what is stored.   *)

\* A step that is none of the form's leaves its requests alone.
SameForm ==
    \A c \in calls \cup calls' : c.kind \in FormKinds => (c \in calls <=> c \in calls')

LEMMA FormFrame ==
    ASSUME FormInv, UNCHANGED general, SameForm
    PROVE  FormInv'
<1>1. UNCHANGED <<stored, loading, form, isSaving, isTesting, banner, faithful>>
  BY DEF general
<1>2. FormAgrees'
  BY <1>1 DEF FormInv, FormAgrees
<1>3. \A c \in calls' : Promise(c)'
  <2> SUFFICES ASSUME NEW c \in calls' PROVE Promise(c)'
    OBVIOUS
  <2>1. CASE c.kind \in FormKinds
    <3>1. Promise(c)
      BY <2>1 DEF SameForm, FormInv
    <3> QED BY <1>1, <3>1 DEF Promise
  <2>2. CASE c.kind \notin FormKinds
    BY <2>2 DEF Promise, FormKinds
  <2> QED BY <2>1, <2>2
<1>4. \A c, d \in calls' : c.kind \in FormKinds /\ d.kind \in FormKinds => c = d
  BY DEF SameForm, FormInv
<1>5. (loading <=> \E c \in calls : c.kind = "load")'
  <2>1. (\E c \in calls : c.kind = "load") <=> (\E c \in calls' : c.kind = "load")
    BY DEF SameForm, FormKinds
  <2> QED BY <1>1, <2>1 DEF FormInv
<1>6. (isSaving <=> \E c \in calls : c.kind \in Writes)'
  <2>1. (\E c \in calls : c.kind \in Writes) <=> (\E c \in calls' : c.kind \in Writes)
    BY DEF SameForm, FormKinds
  <2> QED BY <1>1, <2>1 DEF FormInv
<1>7. (isTesting <=> \E c \in calls : c.kind = "test")'
  <2>1. (\E c \in calls : c.kind = "test") <=> (\E c \in calls' : c.kind = "test")
    BY DEF SameForm, FormKinds
  <2> QED BY <1>1, <2>1 DEF FormInv
<1> QED BY <1>2, <1>3, <1>4, <1>5, <1>6, <1>7 DEF FormInv

\* While its fields are enabled, the form has no request in flight.
LEMMA FormIdle ==
    ASSUME FormInv, FormEnabled
    PROVE  \A c \in calls : c.kind \notin FormKinds
BY DEF FormInv, FormEnabled, FormKinds

\* What the user does on the general tab.
LEMMA GeneralForm ==
    ASSUME TypeInv, FormInv, GeneralStep
    PROVE  FormInv'
<1>0. FormEnabled
  BY DEF GeneralStep, Edit, handleSave, handleRetentionChange, RetentionEnabled,
         handleTestConnection
<1>1. \A c \in calls : c.kind \notin FormKinds
  BY <1>0, FormIdle
<1>2. loading = FALSE /\ isSaving = FALSE /\ isTesting = FALSE
  BY <1>0, TypeParts DEF FormEnabled, GeneralOK
<1>3. ASSUME Edit PROVE FormInv'
  <2>1. faithful' = FALSE /\ UNCHANGED <<loading, isSaving, isTesting, calls>>
    BY <1>3 DEF Edit
  <2>2. \A c \in calls' : Promise(c)'
    BY <1>1, <2>1 DEF Promise, FormKinds
  <2>3. FormAgrees'
    BY <2>1 DEF FormAgrees
  <2> QED BY <1>1, <1>2, <2>1, <2>2, <2>3 DEF FormInv, FormKinds
<1>4. ASSUME handleSave PROVE FormInv'
  <2>0. PICK r : r = [Request("save") EXCEPT !.cfg = FormConfig]
    OBVIOUS
  <2>1. Request("save") \in Call /\ Request("save").kind = "save" /\ Request("save").phase = "sent"
    BY KindsKnown, RequestFits
  <2>2. r.kind = "save" /\ r.phase = "sent" /\ r.cfg = FormConfig
    BY <2>0, <2>1 DEF Call
  <2>3. /\ calls' = calls \cup {r} /\ isSaving' = TRUE
        /\ UNCHANGED <<stored, loading, form, isTesting, faithful>>
    BY <1>4, <2>0 DEF handleSave
  <2>4. faithful => stored.gotify = Trim(form.gotify) /\ stored.days = form.days
    BY <1>2 DEF FormInv, FormAgrees
  <2>5. Promise(r)'
    BY <2>2, <2>3, <2>4, SMT DEF Promise, FormConfig, Writes
  <2>6. \A c \in calls : Promise(c)'
    BY <1>1 DEF Promise, FormKinds
  <2>7. FormAgrees'
    BY <2>3 DEF FormAgrees
  <2> QED BY <1>1, <1>2, <2>2, <2>3, <2>5, <2>6, <2>7 DEF FormInv, FormKinds, Writes
<1>5. ASSUME handleRetentionChange PROVE FormInv'
  <2>1. PICK d, r :
           /\ d \in Days
           /\ form' = [form EXCEPT !.days = d]
           /\ calls' = calls \cup {r}
           /\ r = [Request("retention") EXCEPT !.cfg = [FormConfig EXCEPT !.days = d],
                                               !.prev = form.days]
    BY <1>5 DEF handleRetentionChange
  <2>2. /\ Request("retention") \in Call /\ Request("retention").kind = "retention"
        /\ Request("retention").phase = "sent"
    BY KindsKnown, RequestFits
  <2>3. /\ r.kind = "retention" /\ r.phase = "sent" /\ r.prev = form.days
        /\ r.cfg.gotify = Trim(form.gotify) /\ r.cfg.days = d
    BY <2>1, <2>2 DEF Call, FormConfig
  <2>4. isSaving' = TRUE /\ UNCHANGED <<stored, loading, isTesting, faithful>>
    BY <1>5 DEF handleRetentionChange
  <2>5. form'.gotify = form.gotify /\ form'.days = d
    BY <2>1, TypeParts DEF GeneralOK
  <2>6. faithful => stored.gotify = Trim(form.gotify) /\ stored.days = form.days
    BY <1>2 DEF FormInv, FormAgrees
  <2>7. Promise(r)'
    BY <2>3, <2>4, <2>5, <2>6 DEF Promise, Trim
  <2>8. \A c \in calls : Promise(c)'
    BY <1>1 DEF Promise, FormKinds
  <2>9. FormAgrees'
    BY <2>4 DEF FormAgrees
  <2> QED BY <1>1, <1>2, <2>1, <2>3, <2>4, <2>7, <2>8, <2>9, ZenonT(30) DEF FormInv, FormKinds, Writes
<1>6. ASSUME handleTestConnection PROVE FormInv'
  <2>0. PICK r : r = [Request("test") EXCEPT !.cfg = FormConfig]
    OBVIOUS
  <2>1. Request("test") \in Call /\ Request("test").kind = "test"
    BY KindsKnown, RequestFits
  <2>2. r.kind = "test"
    BY <2>0, <2>1 DEF Call
  <2>3. /\ calls' = calls \cup {r} /\ isTesting' = TRUE
        /\ UNCHANGED <<stored, loading, form, isSaving, faithful>>
    BY <1>6, <2>0 DEF handleTestConnection
  <2>4. Promise(r)' /\ \A c \in calls : Promise(c)'
    BY <1>1, <2>2 DEF Promise, FormKinds, Writes
  <2>5. FormAgrees'
    BY <2>3 DEF FormInv, FormAgrees
  <2> QED BY <1>1, <1>2, <2>2, <2>3, <2>4, <2>5 DEF FormInv, FormKinds, Writes
<1> QED BY <1>3, <1>4, <1>5, <1>6 DEF GeneralStep

\* The answers land: the form is what the server stores.
LEMMA LandForm ==
    ASSUME TypeInv, FormInv, NEW c \in calls, LoadLands(c) \/ SaveLands(c) \/ TestLands(c)
    PROVE  FormInv'
<1>0. c.kind \in FormKinds /\ c.phase # "sent" /\ calls' = calls \ {c} /\ UNCHANGED stored
  BY DEF LoadLands, SaveLands, TestLands, FormKinds
<1>1. \A d \in calls' : d.kind \notin FormKinds
  BY <1>0 DEF FormInv
<1>2. \A d \in calls' : Promise(d)'
  BY <1>1 DEF Promise, FormKinds
<1>3. /\ c.kind # "load" => loading = FALSE
      /\ c.kind \notin Writes => isSaving = FALSE
      /\ c.kind # "test" => isTesting = FALSE
  BY <1>0, TypeParts DEF FormInv, GeneralOK, FormKinds
<1>4. Promise(c)
  BY DEF FormInv
<1>5. loading' = FALSE /\ isSaving' = FALSE /\ isTesting' = FALSE
  BY <1>3 DEF LoadLands, SaveLands, TestLands, Writes
<1>6. FormAgrees'
  <2>1. CASE LoadLands(c)
    <3>1. faithful' => c.phase = "ok"
      BY <2>1 DEF LoadLands
    <3>2. ASSUME c.phase = "ok"
          PROVE  form' = [gotify |-> [value |-> c.cfg.gotify, padded |-> FALSE],
                          days |-> c.cfg.days]
      BY <2>1, <3>2 DEF LoadLands
    <3>3. c.phase = "ok" => Trim(form'.gotify) = c.cfg.gotify /\ form'.days = c.cfg.days
      BY <3>2, SMT DEF Trim
    <3>4. c.phase = "ok" => c.cfg.gotify = stored.gotify /\ c.cfg.days = stored.days
      BY <1>4, <2>1 DEF LoadLands, Promise
    <3> QED BY <1>0, <3>1, <3>3, <3>4 DEF FormAgrees, Trim
  <2>2. CASE SaveLands(c)
    <3>1. form'.gotify = form.gotify
      BY <2>2, TypeParts DEF SaveLands, Reverted, GeneralOK
    <3>2. form'.days = IF c.kind = "retention" /\ c.phase = "failed" THEN c.prev ELSE form.days
      BY <2>2, TypeParts DEF SaveLands, Reverted, GeneralOK
    <3>3. faithful' => faithful \/ c.phase = "ok"
      BY <2>2 DEF SaveLands
    <3>4. c.kind \in Writes /\ c.phase \in {"ok", "failed"}
      BY <1>0, <2>2, TypeParts DEF SaveLands, CallsOK, Call
    <3> QED BY <1>0, <1>4, <3>1, <3>2, <3>3, <3>4 DEF Promise, FormAgrees, Trim, Writes
  <2>3. CASE TestLands(c)
    BY <1>0, <1>3, <2>3 DEF TestLands, FormInv, FormAgrees, Writes
  <2> QED BY <2>1, <2>2, <2>3
<1> QED BY <1>1, <1>2, <1>5, <1>6 DEF FormInv, FormKinds

\* A request of the form is answered by the server or the network.
LEMMA ServeForm ==
    ASSUME TypeInv, FormInv, NEW c \in calls, c.kind \in FormKinds,
           ServeSettings(c) \/ Refuse(c) \/ Lose(c)
    PROVE  FormInv'
<1>0. c \in Call
  BY TypeParts DEF CallsOK
<1>1. UNCHANGED <<loading, form, isSaving, isTesting>>
  BY DEF ServeSettings, Refuse, Lose, general
<1>2. \A d \in calls : d # c => d.kind \notin FormKinds
  BY DEF FormInv
<1>3. Promise(c) /\ FormAgrees
  BY DEF FormInv
<1>4. ASSUME NEW r, r.kind = c.kind, calls' = (calls \ {c}) \cup {r}, Promise(r)', FormAgrees'
      PROVE  FormInv'
  <2>1. \A d \in calls' : Promise(d)'
    BY <1>2, <1>4 DEF Promise, FormKinds
  <2>2. /\ (\E d \in calls : d.kind = "load") <=> (\E d \in calls' : d.kind = "load")
        /\ (\E d \in calls : d.kind \in Writes) <=> (\E d \in calls' : d.kind \in Writes)
        /\ (\E d \in calls : d.kind = "test") <=> (\E d \in calls' : d.kind = "test")
    BY <1>4
  <2>3. \A d, e \in calls' : d.kind \in FormKinds /\ e.kind \in FormKinds => d = e
    BY <1>2, <1>4
  <2> QED BY <1>1, <1>4, <2>1, <2>2, <2>3 DEF FormInv
<1>5. ASSUME ServeSettings(c) PROVE FormInv'
  <2>1. PICK r : r = [c EXCEPT !.phase = "ok",
                               !.cfg = IF c.kind = "load" THEN [gotify |-> stored.gotify,
                                                                days |-> stored.days] ELSE @]
    OBVIOUS
  <2>2. calls' = (calls \ {c}) \cup {r}
    BY <1>5, <2>1 DEF ServeSettings
  <2>3. /\ r.kind = c.kind /\ r.phase = "ok" /\ r.prev = c.prev
        /\ c.kind # "load" => r.cfg = c.cfg
        /\ c.kind = "load" => r.cfg.gotify = stored.gotify /\ r.cfg.days = stored.days
    BY <1>0, <2>1 DEF Call
  <2>4. /\ c.kind \in Writes => stored'.gotify = c.cfg.gotify /\ stored'.days = c.cfg.days
        /\ c.kind \notin Writes => stored' = stored
        /\ faithful' = faithful
    BY <1>5 DEF ServeSettings
  <2>5. Promise(r)'
    BY <1>1, <1>3, <2>3, <2>4 DEF Promise, Writes
  <2>6. FormAgrees'
    <3>1. c.kind \in Writes => isSaving
      BY DEF FormInv
    <3> QED BY <1>1, <1>3, <2>4, <3>1 DEF FormAgrees
  <2> QED BY <1>4, <2>2, <2>3, <2>5, <2>6
<1>6. ASSUME Refuse(c) \/ Lose(c) PROVE FormInv'
  <2>1. PICK r : r = [c EXCEPT !.phase = "failed"]
    OBVIOUS
  <2>2. calls' = (calls \ {c}) \cup {r} /\ UNCHANGED stored
    BY <1>6, <2>1 DEF Refuse, Lose, Answer, general
  <2>3. r.kind = c.kind /\ r.phase = "failed" /\ r.prev = c.prev /\ r.cfg = c.cfg
    BY <1>0, <2>1 DEF Call
  <2>4. faithful' => faithful
    BY <1>6 DEF Refuse, Lose, general
  <2>5. c.kind \in Writes /\ faithful' => c.phase = "sent"
    BY <1>6 DEF Refuse, Lose
  <2>6. Promise(r)'
    BY <1>1, <1>3, <2>2, <2>3, <2>4, <2>5 DEF Promise, Writes
  <2>7. FormAgrees'
    BY <1>1, <1>3, <2>2, <2>4 DEF FormAgrees
  <2> QED BY <1>4, <2>2, <2>3, <2>6, <2>7
<1> QED BY <1>5, <1>6

\* The rest of the page leaves the requests of the form alone.
LEMMA ListingSame ==
    ASSUME TypeInv, NEW ls \in SUBSET Lists, NEW others \in SUBSET calls,
           \A d \in calls \ others : d.kind \notin FormKinds,
           calls' = Listing(ls, others)
    PROVE  SameForm
<1>1. \A k \in Lists : k \notin FormKinds
  BY DEF Lists, FormKinds, Writes
<1>2. /\ others \subseteq Listing(ls, others)
      /\ \A e \in Listing(ls, others) : e \in others \/ e.kind \in ls
  BY ListingSent
<1> QED BY <1>1, <1>2 DEF SameForm

LEMMA SendingSame ==
    ASSUME TypeInv, NEW c \in Call, c.kind \notin FormKinds, NEW d, d.kind \notin FormKinds,
           calls' = Sending(c) \/ calls' = Sending(c) \ {d}
    PROVE  SameForm
<1>1. \A k \in FormKinds : k \notin Lists
  BY DEF Lists, FormKinds, Writes
<1>2. Sending(c) \subseteq Call /\ calls \subseteq Call
  BY SendingFits, TypeParts DEF CallsOK
<1>3. \A e \in Call : e # c /\ e.kind \notin Lists => (e \in Sending(c) <=> e \in calls)
  BY SendingFits
<1> QED BY <1>1, <1>2, <1>3 DEF SameForm

LEMMA SecuritySame ==
    ASSUME TypeInv, SecurityStep
    PROVE  UNCHANGED general /\ SameForm
<1>1. UNCHANGED general
  BY DEF SecurityStep, SwitchTab, Refresh, handleAddPasskey, EditName,
         handleRenamePasskey, Arm, Dismiss, confirmDestructive
<1>0. UNCHANGED calls => SameForm
  BY DEF SameForm
<1>2. ASSUME SwitchTab PROVE SameForm
  <2>2. calls' = Listing(Lists, calls) \/ calls' = calls
    BY <1>2 DEF SwitchTab
  <2> QED BY <1>0, <2>2, ListingSame
<1>3. ASSUME NEW l \in Lists, Refresh(l) PROVE SameForm
  <2>1. {l} \in SUBSET Lists /\ calls' = Listing({l}, calls)
    BY <1>3 DEF Refresh
  <2> QED BY <2>1, ListingSame
<1>4. ASSUME handleAddPasskey PROVE SameForm
  <2>1. PICK k \in Keys, m \in Names :
           calls' = calls \cup {[Request("begin") EXCEPT !.item = k, !.name = m]}
    BY <1>4 DEF handleAddPasskey
  <2>2. Request("begin") \in Call /\ Request("begin").kind = "begin"
    BY KindsKnown, RequestFits
  <2>3. [Request("begin") EXCEPT !.item = k, !.name = m].kind = "begin"
    BY <2>2 DEF Call
  <2> QED BY <2>1, <2>3 DEF SameForm, FormKinds, Writes
<1>5. ASSUME handleRenamePasskey PROVE SameForm
  <2>1. PICK m \in Names : calls' = Sending(Renaming(m))
    BY <1>5 DEF handleRenamePasskey, Renaming
  <2>2. Renaming(m) \in Call /\ Renaming(m).kind = "rename"
    BY <1>5, RenamingFits DEF handleRenamePasskey
  <2>3. Renaming(m).kind \notin FormKinds
    BY <2>2 DEF FormKinds, Writes
  <2> QED BY <2>1, <2>2, <2>3, SendingSame
<1>6. ASSUME confirmDestructive PROVE SameForm
  <2>1. calls' = Sending(Confirmed)
    BY <1>6 DEF confirmDestructive, Confirmed
  <2>2. Confirmed \in Call /\ Confirmed.kind \in Destructive
    BY <1>6, ConfirmedFits DEF confirmDestructive
  <2>3. Confirmed.kind \notin FormKinds
    BY <2>2 DEF FormKinds, Writes, Destructive
  <2> QED BY <2>1, <2>2, <2>3, SendingSame
<1>7. EditName \/ Arm \/ Dismiss => SameForm
  BY <1>0 DEF EditName, Arm, Dismiss
<1> QED BY <1>1, <1>2, <1>3, <1>4, <1>5, <1>6, <1>7 DEF SecurityStep

LEMMA SecurityLandSame ==
    ASSUME TypeInv, NEW c \in calls,
           ListLands(c) \/ BeginLands(c) \/ ChangeLands(c) \/ RevokedAll(c) \/ ChangeFails(c)
    PROVE  UNCHANGED general /\ SameForm
<1>1. UNCHANGED general
  BY DEF ListLands, BeginLands, ChangeLands, RevokedAll, ChangeFails
<1>2. c.kind \notin FormKinds
  BY DEF ListLands, BeginLands, ChangeLands, RevokedAll, ChangeFails, FormKinds, Writes, Lists,
         Destructive
<1>3. ASSUME ListLands(c) \/ ChangeLands(c) PROVE SameForm
  <2>1. {l \in {"events"} : c.ends} \in SUBSET Lists /\ {"events"} \cap Changes(c.kind) \in SUBSET Lists
    BY DEF Lists
  <2>2. calls \ {c} \in SUBSET calls /\ \A d \in calls \ (calls \ {c}) : d.kind \notin FormKinds
    BY <1>2
  <2> QED BY <1>3, <2>1, <2>2, ListingSame DEF ListLands, ChangeLands
<1>4. ASSUME BeginLands(c) PROVE SameForm
  <2>1. Finishing(c) \in Call /\ Finishing(c).kind = "finish"
    BY <1>4, FinishingFits DEF BeginLands
  <2>2. Finishing(c).kind \notin FormKinds
    BY <2>1 DEF FormKinds, Writes
  <2>3. calls' = Sending(Finishing(c)) \ {c} \/ calls' = calls \ {c}
    BY <1>4 DEF BeginLands, Finishing
  <2>4. calls' = calls \ {c} => SameForm
    BY <1>2 DEF SameForm
  <2> QED BY <1>2, <2>1, <2>2, <2>3, <2>4, SendingSame
<1>5. ASSUME RevokedAll(c) PROVE SameForm
  <2>1. calls' = (calls \ {c}) \cup {Completing(c)}
    BY <1>5 DEF RevokedAll, Completing
  <2>2. Completing(c).kind \notin FormKinds
    BY CompletingFits DEF FormKinds, Writes
  <2> QED BY <1>2, <2>1, <2>2 DEF SameForm
<1>6. ASSUME ChangeFails(c) PROVE SameForm
  BY <1>2, <1>6 DEF ChangeFails, SameForm
<1> QED BY <1>1, <1>3, <1>4, <1>5, <1>6

LEMMA ServeSame ==
    ASSUME TypeInv, NEW c \in calls, c.kind \notin FormKinds,
           ServeSettings(c) \/ ServeList(c) \/ ServeChange(c) \/ Refuse(c) \/ Lose(c)
    PROVE  UNCHANGED general /\ SameForm
<1>0. c \in Call
  BY TypeParts DEF CallsOK
<1>1. ~ServeSettings(c)
  BY DEF ServeSettings, FormKinds
<1>2. UNCHANGED general
  <2>1. ServeList(c) \/ ServeChange(c) \/ Refuse(c) => UNCHANGED general
    BY DEF ServeList, ServeChange, Refuse
  <2>2. ASSUME Lose(c) PROVE UNCHANGED general
    <3>1. faithful' = faithful
      BY <2>2, TypeParts DEF Lose, FormKinds, GeneralOK
    <3> QED BY <2>2, <3>1 DEF Lose, general
  <2> QED BY <1>1, <2>1, <2>2
<1>3. ASSUME NEW p, calls' = Answer(c, p) PROVE SameForm
  <2>1. [c EXCEPT !.phase = p].kind = c.kind
    BY <1>0 DEF Call
  <2> QED BY <1>3, <2>1 DEF Answer, SameForm
<1>4. ASSUME ServeList(c) PROVE SameForm
  <2>1. PICK a : calls' = (calls \ {c}) \cup {[c EXCEPT !.phase = "ok", !.out = a]}
    BY <1>4 DEF ServeList
  <2>2. [c EXCEPT !.phase = "ok", !.out = a].kind = c.kind
    BY <1>0 DEF Call
  <2> QED BY <2>1, <2>2 DEF SameForm
<1>5. ServeChange(c) \/ Refuse(c) \/ Lose(c) => SameForm
  BY <1>3 DEF ServeChange, Refuse, Lose
<1> QED BY <1>1, <1>2, <1>4, <1>5

\* The page opens with one request, that of the settings.
LEMMA InitCalls ==
    ASSUME Init
    PROVE  \E c : calls = {c} /\ c.kind = "load" /\ c.phase = "sent" /\ c.ends = FALSE
<1>1. PICK c : c = [kind |-> "load", item |-> None, name |-> None, cfg |-> NoConfig,
                    prev |-> DefaultDays, was |-> {}, n |-> 0, phase |-> "sent",
                    out |-> Nowhere, clean |-> TRUE, ends |-> FALSE]
  OBVIOUS
<1>2. calls = {c}
  BY <1>1 DEF Init
<1>3. c.kind = "load" /\ c.phase = "sent" /\ c.ends = FALSE
  BY ONLY <1>1
<1> QED BY ONLY <1>2, <1>3

LEMMA InitForm == Init => FormInv
<1> SUFFICES ASSUME Init PROVE FormInv
  OBVIOUS
<1>1. PICK c : calls = {c} /\ c.kind = "load" /\ c.phase = "sent"
  BY InitCalls
<1>2. loading = TRUE /\ isSaving = FALSE /\ isTesting = FALSE
  BY DEF Init
<1> QED BY ONLY <1>1, <1>2 DEF FormInv, FormKinds, Writes, Promise, FormAgrees

LEMMA NextForm == TypeInv /\ FormInv /\ [Next]_vars => FormInv'
<1> SUFFICES ASSUME TypeInv, FormInv, [Next]_vars PROVE FormInv'
  OBVIOUS
<1>1. ASSUME UNCHANGED vars PROVE FormInv'
  <2>1. UNCHANGED <<general, calls>>
    BY <1>1 DEF vars
  <2> QED BY <2>1, FormFrame DEF SameForm
<1>2. ASSUME NEW c \in calls, Serve(c) \/ Land(c) \/ Refuse(c) \/ Lose(c) PROVE FormInv'
  <2>1. CASE Land(c)
    BY <2>1, LandForm, SecurityLandSame, FormFrame DEF Land
  <2>2. CASE Serve(c) \/ Refuse(c) \/ Lose(c)
    <3>1. CASE c.kind \notin FormKinds
      BY <2>2, <3>1, ServeSame, FormFrame DEF Serve
    <3>2. CASE c.kind \in FormKinds
      <4>1. ~ServeList(c) /\ ~ServeChange(c)
        BY <3>2 DEF ServeList, ServeChange, FormKinds, Writes, Lists, Destructive
      <4> QED BY <2>2, <3>2, <4>1, ServeForm DEF Serve
    <3> QED BY <3>1, <3>2
  <2> QED BY <1>2, <2>1, <2>2
<1>3. SecurityStep => FormInv'
  BY SecuritySame, FormFrame
<1> QED BY <1>1, <1>2, <1>3, GeneralForm DEF Next

-----------------------------------------------------------------------------
(* The dialog: a destructive request runs alone, behind its locked dialog.   *)

dialog == <<deletingPasskeyId, revokingSessionId, isRevokingOther, pendingDestructive>>

\* A step that starts nothing destructive and leaves the dialog alone.
LEMMA FlightFrame ==
    ASSUME FlightInv, UNCHANGED dialog,
           \A e \in calls' : e \in calls \/ (e.kind \notin Destructive /\ e.ends = FALSE)
    PROVE  FlightInv'
<1>1. \A e \in calls' : e.ends => e.kind = "sessions"
  BY DEF FlightInv
<1>2. \A e \in calls' : Runs(e) => e \in calls
  BY DEF Runs
<1>3. Locked' <=> Locked
  BY DEF dialog, Locked
<1>4. pendingDestructive' = pendingDestructive
  BY DEF dialog
<1> QED BY <1>1, <1>2, <1>3, <1>4 DEF FlightInv, Runs

\* A step that replaces requests by others about the same.
StandsFor(g) ==
    \A e \in calls' : \/ e.kind \notin Destructive /\ e.ends = FALSE
                      \/ \E d \in calls : /\ e = g[d] /\ e.kind = d.kind
                                          /\ e.item = d.item /\ e.ends = d.ends

LEMMA FlightImage ==
    ASSUME FlightInv, UNCHANGED dialog, NEW g, StandsFor(g)
    PROVE  FlightInv'
<1>1. \A e \in calls' : e.ends => e.kind = "sessions"
  BY SMT DEF FlightInv, StandsFor
<1>2. \A e \in calls' : Runs(e) => \E d \in calls : /\ Runs(d) /\ e = g[d] /\ e.kind = d.kind
                                                    /\ e.item = d.item /\ e.ends = d.ends
  BY DEF Runs, StandsFor
<1>3. Locked' <=> Locked
  BY DEF dialog, Locked
<1>4. pendingDestructive' = pendingDestructive
  BY DEF dialog
<1>5. \A e, f \in calls' : Runs(e) /\ Runs(f) => e = f
  BY <1>2 DEF FlightInv
<1>6. \A e \in calls' : Runs(e) =>
         /\ pendingDestructive.kind = (IF e.ends THEN "revokeAll" ELSE e.kind)
         /\ pendingDestructive.item = e.item
         /\ Locked
  <2> SUFFICES ASSUME NEW e \in calls', Runs(e)
               PROVE  /\ pendingDestructive.kind = (IF e.ends THEN "revokeAll" ELSE e.kind)
                      /\ pendingDestructive.item = e.item
                      /\ Locked
    OBVIOUS
  <2>1. PICK d \in calls : /\ Runs(d) /\ e.kind = d.kind
                           /\ e.item = d.item /\ e.ends = d.ends
    BY <1>2
  <2> QED BY <2>1 DEF FlightInv
<1> QED BY <1>1, <1>3, <1>4, <1>5, <1>6 DEF FlightInv, Runs

\* A step that ends the only destructive request, or meets none.
LEMMA FlightNone ==
    ASSUME \A e \in calls' : e.kind \notin Destructive /\ e.ends = FALSE
    PROVE  FlightInv'
BY DEF FlightInv, Runs

\* Unless its dialog is locked, nothing destructive is in flight.
LEMMA UnlockedIdle ==
    ASSUME TypeInv, FlightInv, ~Locked \/ pendingDestructive = Closed
    PROVE  \A c \in calls : c.kind \notin Destructive /\ c.ends = FALSE
<1>1. pendingDestructive = Closed => pendingDestructive.kind \notin Destructive
  BY SettingsAssumption, SMT DEF Closed
<1>2. \A c \in calls : ~Runs(c)
  <2> SUFFICES ASSUME NEW c \in calls, Runs(c) PROVE FALSE
    OBVIOUS
  <2>1. /\ Locked
        /\ pendingDestructive.kind = (IF c.ends THEN "revokeAll" ELSE c.kind)
        /\ c.ends \/ c.kind \in Destructive
    BY DEF FlightInv, Runs
  <2> QED BY <1>1, <2>1 DEF Destructive
<1>3. \A c \in calls : c.ends \in BOOLEAN
  BY TypeParts DEF CallsOK, Call
<1> QED BY <1>2, <1>3 DEF Runs

\* Sending a change that asked for no dialog.
LEMMA SendingFlight ==
    ASSUME TypeInv, FlightInv, UNCHANGED dialog, NEW c \in Call, c.kind \notin Destructive,
           c.ends = FALSE, NEW b, calls' = Sending(c) \ b
    PROVE  FlightInv'
<1>0. PICK g : g = [d \in calls |-> Marked(d, c.kind)]
  OBVIOUS
<1>1. \A e \in Sending(c) : e = c \/ \E d \in calls : e = Marked(d, c.kind)
  BY SendingFits
<1>2. calls \subseteq Call
  BY TypeParts DEF CallsOK
<1>3. \A d \in calls : /\ g[d] = Marked(d, c.kind) /\ Marked(d, c.kind).kind = d.kind
                       /\ Marked(d, c.kind).item = d.item /\ Marked(d, c.kind).ends = d.ends
  BY <1>0, <1>2, MarkedFits, SMT
<1>4. StandsFor(g)
  BY <1>1, <1>3, SMT DEF StandsFor
<1> QED BY <1>4, FlightImage

\* The form's requests are none of the dialog's.
LEMMA GeneralFlight ==
    ASSUME TypeInv, FlightInv, GeneralStep
    PROVE  FlightInv'
<1>1. UNCHANGED dialog
  BY DEF GeneralStep, Edit, handleSave, handleRetentionChange, handleTestConnection, security,
         dialog
<1>2. /\ Edit => calls' = calls
      /\ handleSave => calls' = calls \cup {[Request("save") EXCEPT !.cfg = FormConfig]}
      /\ handleTestConnection => calls' = calls \cup {[Request("test") EXCEPT !.cfg = FormConfig]}
      /\ handleRetentionChange =>
            \E d \in Days : calls' = calls \cup
                {[Request("retention") EXCEPT !.cfg = [FormConfig EXCEPT !.days = d],
                                              !.prev = form.days]}
  BY DEF Edit, handleSave, handleRetentionChange, handleTestConnection
<1>3. ASSUME NEW k \in {"save", "test", "retention"}
      PROVE  Request(k) \in Call /\ Request(k).kind = k /\ Request(k).ends = FALSE
  BY KindsKnown, RequestFits, ZenonT(30)
<1>4. \A e \in calls' : e \in calls \/ (e.kind \notin Destructive /\ e.ends = FALSE)
  <2>1. Edit => \A e \in calls' : e \in calls
    BY <1>2
  <2>2. ASSUME handleSave \/ handleTestConnection
        PROVE  \A e \in calls' : e \in calls \/ (e.kind \notin Destructive /\ e.ends = FALSE)
    <3>0. PICK k \in {"save", "test"} :
             calls' = calls \cup {[Request(k) EXCEPT !.cfg = FormConfig]}
      BY <1>2, <2>2
    <3>1. PICK r : r = [Request(k) EXCEPT !.cfg = FormConfig] /\ calls' = calls \cup {r}
      BY <3>0
    <3>2. r.kind = k /\ r.ends = FALSE
      BY <1>3, <3>1 DEF Call
    <3> QED BY <3>1, <3>2 DEF Destructive
  <2>3. ASSUME handleRetentionChange
        PROVE  \A e \in calls' : e \in calls \/ (e.kind \notin Destructive /\ e.ends = FALSE)
    <3>1. PICK d, r :
             /\ d \in Days
             /\ r = [Request("retention") EXCEPT !.cfg = [FormConfig EXCEPT !.days = d],
                                                 !.prev = form.days]
             /\ calls' = calls \cup {r}
      BY <1>2, <2>3
    <3>2. r.kind = "retention" /\ r.ends = FALSE
      BY <1>3, <3>1 DEF Call
    <3> QED BY <3>1, <3>2 DEF Destructive
  <2> QED BY <2>1, <2>2, <2>3 DEF GeneralStep
<1> QED BY <1>1, <1>4, FlightFrame

\* Opening, closing and confirming the dialog.
LEMMA SecurityFlight ==
    ASSUME TypeInv, FlightInv, SecurityStep
    PROVE  FlightInv'
<1>1. ASSUME SwitchTab PROVE FlightInv'
  <2>1. UNCHANGED dialog
    BY <1>1 DEF SwitchTab, dialog
  <2>2. calls' = Listing(Lists, calls) \/ calls' = calls
    BY <1>1 DEF SwitchTab
  <2>3. \A e \in Listing(Lists, calls) : e \in calls \/ (e.kind \in Lists /\ e.ends = FALSE)
    <3>1. Lists \in SUBSET Lists /\ calls \in SUBSET calls
      OBVIOUS
    <3> QED BY ONLY TypeInv, <3>1, ListingSent, ZenonT(30)
  <2> QED BY <2>1, <2>2, <2>3, FlightFrame DEF Lists, Destructive
<1>2. ASSUME NEW l \in Lists, Refresh(l) PROVE FlightInv'
  <2>1. UNCHANGED dialog /\ calls' = Listing({l}, calls) /\ {l} \in SUBSET Lists
    BY <1>2 DEF Refresh, dialog
  <2>2. \A e \in Listing({l}, calls) : e \in calls \/ (e.kind \in {l} /\ e.ends = FALSE)
    BY <2>1, ListingSent, ZenonT(30)
  <2> QED BY <2>1, <2>2, FlightFrame DEF Lists, Destructive
<1>3. ASSUME handleAddPasskey PROVE FlightInv'
  <2>1. PICK k \in Keys, m \in Names :
           calls' = calls \cup {[Request("begin") EXCEPT !.item = k, !.name = m]}
    BY <1>3 DEF handleAddPasskey
  <2>2. Request("begin") \in Call /\ Request("begin").kind = "begin" /\ Request("begin").ends = FALSE
    BY KindsKnown, RequestFits
  <2>3. /\ [Request("begin") EXCEPT !.item = k, !.name = m].kind = "begin"
        /\ [Request("begin") EXCEPT !.item = k, !.name = m].ends = FALSE
    BY <2>2 DEF Call
  <2>4. UNCHANGED dialog
    BY <1>3 DEF handleAddPasskey, dialog
  <2> QED BY <2>1, <2>3, <2>4, FlightFrame DEF Destructive
<1>4. ASSUME EditName PROVE FlightInv'
  BY <1>4, FlightFrame DEF EditName, dialog
<1>5. ASSUME handleRenamePasskey PROVE FlightInv'
  <2>1. PICK m \in Names : calls' = Sending(Renaming(m))
    BY <1>5 DEF handleRenamePasskey, Renaming
  <2>2. Renaming(m) \in Call /\ Renaming(m).kind = "rename" /\ Renaming(m).ends = FALSE
    BY <1>5, RenamingFits DEF handleRenamePasskey
  <2>3. UNCHANGED dialog
    BY <1>5 DEF handleRenamePasskey, dialog
  <2>4. Sending(Renaming(m)) = Sending(Renaming(m)) \ {}
    OBVIOUS
  <2> QED BY <2>1, <2>2, <2>3, <2>4, SendingFlight DEF Destructive
<1>6. ASSUME Arm PROVE FlightInv'
  <2>1. \A c \in calls : c.kind \notin Destructive /\ c.ends = FALSE
    BY <1>6, UnlockedIdle DEF Arm, TabEnabled
  <2> QED BY <1>6, <2>1, FlightNone DEF Arm
<1>7. ASSUME Dismiss PROVE FlightInv'
  <2>1. \A c \in calls : c.kind \notin Destructive /\ c.ends = FALSE
    BY <1>7, UnlockedIdle DEF Dismiss
  <2> QED BY <1>7, <2>1, FlightNone DEF Dismiss
<1>8. ASSUME confirmDestructive PROVE FlightInv'
  <2>1. \A c \in calls : c.kind \notin Destructive /\ c.ends = FALSE
    BY <1>8, UnlockedIdle DEF confirmDestructive
  <2>2. PICK c \in Call :
           /\ c = Confirmed /\ c.ends = FALSE /\ c.kind \in Destructive
           /\ c.kind = pendingDestructive.kind /\ c.item = pendingDestructive.item
    BY <1>8, ConfirmedFits DEF confirmDestructive
  <2>3. /\ calls' = Sending(c) /\ pendingDestructive' = pendingDestructive
        /\ deletingPasskeyId' = IF c.kind = "deletePasskey" THEN c.item ELSE deletingPasskeyId
        /\ revokingSessionId' = IF c.kind = "revoke" THEN c.item ELSE revokingSessionId
        /\ isRevokingOther' = (isRevokingOther \/ c.kind = "revokeAll")
    BY <1>8, <2>2 DEF confirmDestructive, Confirmed, DialogAfterConfirm
  <2>4. Locked'
    BY <2>2, <2>3 DEF Locked, Destructive
  <2>5. \A e \in calls' : e = c \/ (e.kind \notin Destructive /\ e.ends = FALSE)
    <3>1. \A e \in Sending(c) : e = c \/ \E d \in calls : e = Marked(d, c.kind)
      BY SendingFits
    <3>2. calls \subseteq Call
      BY TypeParts DEF CallsOK
    <3>3. \A d \in calls : /\ Marked(d, c.kind).kind = d.kind
                           /\ Marked(d, c.kind).ends = d.ends
      BY <3>2, MarkedFits
    <3> QED BY <2>1, <2>3, <3>1, <3>3, ZenonT(30)
  <2> QED BY <2>2, <2>3, <2>4, <2>5 DEF FlightInv, Runs
<1> QED BY <1>1, <1>2, <1>3, <1>4, <1>5, <1>6, <1>7, <1>8 DEF SecurityStep

\* The answers: the dialog closes with the request it waited for.
LEMMA LandFlight ==
    ASSUME TypeInv, FlightInv, NEW c \in calls, Land(c)
    PROVE  FlightInv'
<1>0. c \in Call /\ calls \subseteq Call
  BY TypeParts DEF CallsOK
<1>1. \A e \in calls \ {c} : Runs(c) => e.kind \notin Destructive /\ e.ends = FALSE
  <2>1. \A e \in calls : e.ends \in BOOLEAN
    BY <1>0 DEF Call
  <2> QED BY <2>1 DEF FlightInv, Runs
<1>2. ASSUME LoadLands(c) \/ SaveLands(c) \/ TestLands(c) PROVE FlightInv'
  <2>1. calls' = calls \ {c} /\ UNCHANGED dialog
    BY <1>2 DEF LoadLands, SaveLands, TestLands, security, dialog
  <2> QED BY <2>1, FlightFrame
<1>3. ASSUME ListLands(c) PROVE FlightInv'
  <2>1. PICK ls \in SUBSET Lists : calls' = Listing(ls, calls \ {c})
    <3>1. {l \in {"events"} : c.ends} \in SUBSET Lists
      BY DEF Lists
    <3> QED BY <1>3, <3>1 DEF ListLands
  <2>2. PICK others \in SUBSET calls : others = calls \ {c}
    OBVIOUS
  <2>3. \A e \in calls' : e \in calls \ {c} \/ (e.kind \in Lists /\ e.ends = FALSE)
    <3>0. ls \in SUBSET Lists /\ others \in SUBSET calls
      BY <2>1, <2>2
    <3>1. ASSUME NEW e \in Listing(ls, others), e \notin others
          PROVE  e.kind \in ls /\ e.ends = FALSE
      BY <3>0, <3>1, ListingNew
    <3> QED BY <2>1, <2>2, <3>1
  <2>4. \A k \in Lists : k \notin Destructive
    BY DEF Lists, Destructive
  <2>5. CASE c.ends
    BY <1>1, <2>3, <2>4, <2>5, FlightNone DEF Runs
  <2>6. CASE ~c.ends
    <3>1. isRevokingOther' = isRevokingOther
      BY <1>3, <2>6, TypeParts DEF ListLands, BusyOK
    <3>2. UNCHANGED dialog
      BY <1>3, <2>6, <3>1 DEF ListLands, dialog
    <3> QED BY <2>3, <2>4, <3>2, FlightFrame
  <2> QED BY <2>5, <2>6
<1>4. ASSUME BeginLands(c) PROVE FlightInv'
  <2>1. UNCHANGED dialog
    BY <1>4 DEF BeginLands, dialog
  <2>2. CASE c.phase = "ok"
    <3>1. calls' = Sending(Finishing(c)) \ {c}
      BY <1>4, <2>2 DEF BeginLands, Finishing
    <3>2. Finishing(c) \in Call /\ Finishing(c).kind = "finish" /\ Finishing(c).ends = FALSE
      BY <1>4, FinishingFits DEF BeginLands
    <3> QED BY <2>1, <3>1, <3>2, SendingFlight DEF Destructive
  <2>3. CASE c.phase # "ok"
    BY <1>4, <2>1, <2>3, FlightFrame DEF BeginLands
  <2> QED BY <2>2, <2>3
<1>5. ASSUME ChangeLands(c) PROVE FlightInv'
  <2>1. PICK ls \in SUBSET Lists : calls' = Listing(ls, calls \ {c})
    <3>1. {"events"} \cap Changes(c.kind) \in SUBSET Lists
      BY DEF Lists
    <3> QED BY <1>5, <3>1 DEF ChangeLands
  <2>2. PICK others \in SUBSET calls : others = calls \ {c}
    OBVIOUS
  <2>3. \A e \in calls' : e \in calls \ {c} \/ (e.kind \in Lists /\ e.ends = FALSE)
    <3>0. ls \in SUBSET Lists /\ others \in SUBSET calls
      BY <2>1, <2>2
    <3>1. ASSUME NEW e \in Listing(ls, others), e \notin others
          PROVE  e.kind \in ls /\ e.ends = FALSE
      BY <3>0, <3>1, ListingNew
    <3> QED BY <2>1, <2>2, <3>1
  <2>4. \A k \in Lists : k \notin Destructive
    BY DEF Lists, Destructive
  <2>5. CASE c.kind \in Destructive
    BY <1>1, <2>3, <2>4, <2>5, FlightNone DEF Runs
  <2>6. CASE c.kind \notin Destructive
    <3>1. UNCHANGED dialog
      BY <1>5, <2>6 DEF ChangeLands, dialog, Destructive
    <3> QED BY <2>3, <2>4, <3>1, FlightFrame
  <2> QED BY <2>5, <2>6
<1>6. ASSUME RevokedAll(c) PROVE FlightInv'
  <2>1. PICK r : r = Completing(c)
    OBVIOUS
  <2>2. r.kind = "sessions" /\ r.ends = TRUE /\ r.item = None
    BY <2>1, CompletingFits
  <2>3. calls' = (calls \ {c}) \cup {r}
    BY <1>6, <2>1 DEF RevokedAll, Completing
  <2>4. Runs(c) /\ c.kind = "revokeAll"
    BY <1>6 DEF RevokedAll, Runs, Destructive
  <2>5. Locked /\ pendingDestructive.kind = "revokeAll"
    BY <2>4 DEF FlightInv
  <2>6. pendingDestructive.item = None
    BY <2>5, TypeParts DEF BusyOK, DialogFits
  <2>7. UNCHANGED dialog
    BY <1>6 DEF RevokedAll, dialog
  <2>8. Locked' /\ pendingDestructive' = pendingDestructive
    BY <2>5, <2>7 DEF Locked, dialog
  <2>9. \A e \in calls' : e = r \/ (e.kind \notin Destructive /\ e.ends = FALSE)
    BY <1>1, <2>3, <2>4
  <2>10. r.kind \notin Destructive
    BY <2>2 DEF Destructive
  <2> QED BY <2>2, <2>5, <2>6, <2>8, <2>9, <2>10 DEF FlightInv, Runs
<1>7. ASSUME ChangeFails(c) PROVE FlightInv'
  <2>1. calls' = calls \ {c}
    BY <1>7 DEF ChangeFails
  <2>2. CASE c.kind \in Destructive
    BY <1>1, <2>1, <2>2, FlightNone DEF Runs
  <2>3. CASE c.kind \notin Destructive
    <3>1. isRevokingOther' = isRevokingOther
      BY <1>7, <2>3, TypeParts DEF ChangeFails, BusyOK, Destructive
    <3>2. UNCHANGED dialog
      BY <1>7, <2>3, <3>1 DEF ChangeFails, dialog, Destructive
    <3> QED BY <2>1, <3>2, FlightFrame
  <2> QED BY <2>2, <2>3
<1> QED BY <1>2, <1>3, <1>4, <1>5, <1>6, <1>7 DEF Land

\* An answer is about what the request was about.
LEMMA ServeFlight ==
    ASSUME TypeInv, FlightInv, NEW c \in calls, Serve(c) \/ Refuse(c) \/ Lose(c)
    PROVE  FlightInv'
<1>0. c \in Call
  BY TypeParts DEF CallsOK
<1>1. UNCHANGED dialog
  BY DEF Serve, ServeSettings, ServeList, ServeChange, Refuse, Lose, security, dialog
<1>2. ASSUME NEW r, r.kind = c.kind, r.item = c.item, r.ends = c.ends,
             calls' = (calls \ {c}) \cup {r}
      PROVE  FlightInv'
  <2>1. PICK g : g = [d \in calls |-> IF d = c THEN r ELSE d]
    OBVIOUS
  <2>2. StandsFor(g)
    BY <1>2, <2>1 DEF StandsFor
  <2> QED BY <1>1, <2>2, FlightImage
<1>3. ASSUME NEW p, calls' = Answer(c, p) PROVE FlightInv'
  <2>1. PICK r : r = [c EXCEPT !.phase = p]
    OBVIOUS
  <2>2. r.kind = c.kind /\ r.item = c.item /\ r.ends = c.ends
    BY <1>0, <2>1 DEF Call
  <2> QED BY <1>2, <1>3, <2>1, <2>2 DEF Answer
<1>4. ASSUME ServeSettings(c) PROVE FlightInv'
  <2>1. PICK g, r : r = [c EXCEPT !.phase = "ok", !.cfg = g] /\ calls' = (calls \ {c}) \cup {r}
    BY <1>4 DEF ServeSettings
  <2>2. r.kind = c.kind /\ r.item = c.item /\ r.ends = c.ends
    BY <1>0, <2>1 DEF Call
  <2> QED BY <1>2, <2>1, <2>2
<1>5. ASSUME ServeList(c) PROVE FlightInv'
  <2>1. PICK a, r : r = [c EXCEPT !.phase = "ok", !.out = a] /\ calls' = (calls \ {c}) \cup {r}
    BY <1>5 DEF ServeList
  <2>2. r.kind = c.kind /\ r.item = c.item /\ r.ends = c.ends
    BY <1>0, <2>1 DEF Call
  <2> QED BY <1>2, <2>1, <2>2
<1>6. ServeChange(c) \/ Refuse(c) \/ Lose(c) => FlightInv'
  <2>1. ServeChange(c) => \E p \in {"ok", "failed"} : calls' = Answer(c, p)
    BY DEF ServeChange
  <2>2. Refuse(c) \/ Lose(c) => calls' = Answer(c, "failed")
    BY DEF Refuse, Lose
  <2> QED BY <1>3, <2>1, <2>2
<1> QED BY <1>4, <1>5, <1>6 DEF Serve

LEMMA InitFlight == Init => FlightInv
<1> SUFFICES ASSUME Init PROVE FlightInv
  OBVIOUS
<1>1. PICK c : calls = {c} /\ c.kind = "load" /\ c.ends = FALSE
  BY InitCalls
<1> QED BY ONLY <1>1 DEF FlightInv, Runs, Destructive

LEMMA NextFlight == TypeInv /\ FlightInv /\ [Next]_vars => FlightInv'
<1> SUFFICES ASSUME TypeInv, FlightInv, [Next]_vars PROVE FlightInv'
  OBVIOUS
<1>1. ASSUME UNCHANGED vars PROVE FlightInv'
  <2>1. UNCHANGED <<dialog, calls>>
    BY <1>1 DEF vars, security, dialog
  <2> QED BY <2>1, FlightFrame
<1>2. ASSUME NEW c \in calls, Serve(c) \/ Land(c) \/ Refuse(c) \/ Lose(c) PROVE FlightInv'
  BY <1>2, LandFlight, ServeFlight
<1> QED BY <1>1, <1>2, GeneralFlight, SecurityFlight DEF Next

-----------------------------------------------------------------------------
(* The lists: what is patched on screen is what the server has.              *)

LEMMA ChangesKinds == \A k : \A l \in Changes(k) : k \in ChangeKinds /\ l \in Lists
BY DEF Changes, ChangeKinds, Destructive, Lists

LEMMA ListsNoChange == \A k \in Lists : k \notin ChangeKinds /\ Changes(k) = {}
BY DEF Lists, ChangeKinds, Destructive, Changes

\* What is due of a list depends on that list alone.
LEMMA DueLocal ==
    ASSUME NEW c, NEW l \in Lists, NEW s, NEW a, NEW t, NEW b,
           s[l] = t[l], a[l] = b[l], Due(c, l, s, a)
    PROVE  Due(c, l, t, b)
<1>1. CASE l = "passkeys"
  BY <1>1 DEF Due
<1>2. CASE l = "sessions"
  BY <1>2 DEF Due
<1>3. CASE l = "events"
  BY <1>3 DEF Due
<1> QED BY <1>1, <1>2, <1>3 DEF Lists

\* The step keeps these requests, and adds listings that are clean only beside
\* none of their changes, or requests that are no concern of the lists.
Beside(others) ==
    /\ \A e \in calls' :
          \/ e \in others
          \/ e.kind \notin Lists /\ e.kind \notin ChangeKinds
          \/ /\ e.kind \in Lists /\ e.phase = "sent"
             /\ e.clean => ~\E d \in others : e.kind \in Changes(d.kind)
    /\ \A d \in others : d.kind \in ChangeKinds => d \in calls'

LEMMA BesideChanging ==
    ASSUME NEW others \in SUBSET calls, Beside(others), NEW l
    PROVE  /\ \A e \in calls' : l \in Changes(e.kind) => e \in others
           /\ \A d \in others : l \in Changes(d.kind) => d \in calls'
<1>1. \A e \in calls' : l \in Changes(e.kind) => e.kind \in ChangeKinds /\ e.kind \notin Lists
  BY ChangesKinds, ListsNoChange
<1> QED BY <1>1, ChangesKinds DEF Beside

\* A step that settles no change.
LEMMA ListFrame ==
    ASSUME TypeInv, ListInv, UNCHANGED <<account, shown, quiet>>, NEW others \in SUBSET calls,
           \A d \in calls \ others : d.kind \notin ChangeKinds, Beside(others)
    PROVE  ListInv'
<1>1. ASSUME NEW l
      PROVE  \A e : l \in Changes(e.kind) => (e \in calls' <=> e \in calls)
  BY BesideChanging, ChangesKinds
<1>2. ASSUME NEW l
      PROVE  Changing(l)' <=> Changing(l)
  BY <1>1 DEF Changing
<1>3. ASSUME NEW e \in calls', e.kind \in Lists, e.clean
      PROVE  ~Changing(e.kind)' /\ (e.phase = "ok" => e.out[e.kind] = account'[e.kind])
  <2>1. CASE e \in calls
    <3>1. ~Changing(e.kind) /\ (e.phase = "ok" => e.out[e.kind] = account[e.kind])
      BY <1>3, <2>1 DEF ListInv
    <3> QED BY <1>2, <3>1
  <2>2. CASE e \notin calls
    <3>1. e.phase = "sent" /\ ~\E d \in others : e.kind \in Changes(d.kind)
      BY <1>3, <2>2 DEF Beside
    <3>2. ~Changing(e.kind)'
      BY <3>1, BesideChanging DEF Changing
    <3> QED BY <3>1, <3>2
  <2> QED BY <2>1, <2>2
<1>4. ASSUME NEW l \in Lists, quiet'[l]
      PROVE  /\ \A c, d \in calls' : l \in Changes(c.kind) /\ l \in Changes(d.kind) => c = d
             /\ \A c \in calls' : l \in Changes(c.kind) => Due(c, l, shown', account')
             /\ ~Changing(l)' => shown'[l] = account'[l]
  BY <1>1, <1>2, <1>4 DEF ListInv
<1> QED BY <1>3, <1>4 DEF ListInv

\* A step that settles the change c: where it was due, the lists agree again.
Settled(c) ==
    \A l \in Lists : quiet'[l] =>
        /\ quiet[l]
        /\ l \in Changes(c.kind) => (Due(c, l, shown, account) => shown'[l] = account[l])
        /\ l \notin Changes(c.kind) => shown'[l] = shown[l]

LEMMA ListRemove ==
    ASSUME TypeInv, ListInv, account' = account, NEW c \in calls,
           NEW others \in SUBSET calls, others = calls \ {c}, Beside(others), Settled(c)
    PROVE  ListInv'
<1>1. ASSUME NEW l
      PROVE  \A e : l \in Changes(e.kind) => (e \in calls' <=> e \in calls /\ e # c)
  BY BesideChanging
<1>2. ASSUME NEW e \in calls', e.kind \in Lists, e.clean
      PROVE  ~Changing(e.kind)' /\ (e.phase = "ok" => e.out[e.kind] = account'[e.kind])
  <2>1. CASE e \in calls
    <3>1. ~Changing(e.kind) /\ (e.phase = "ok" => e.out[e.kind] = account[e.kind])
      BY <1>2, <2>1 DEF ListInv
    <3>2. ~Changing(e.kind)'
      BY <1>1, <3>1 DEF Changing
    <3> QED BY <3>1, <3>2
  <2>2. CASE e \notin calls
    <3>1. e.phase = "sent" /\ ~\E d \in others : e.kind \in Changes(d.kind)
      BY <1>2, <2>2 DEF Beside
    <3>2. ~Changing(e.kind)'
      BY <3>1, BesideChanging DEF Changing
    <3> QED BY <3>1, <3>2
  <2> QED BY <2>1, <2>2
<1>3. ASSUME NEW l \in Lists, quiet'[l]
      PROVE  /\ \A d, e \in calls' : l \in Changes(d.kind) /\ l \in Changes(e.kind) => d = e
             /\ \A d \in calls' : l \in Changes(d.kind) => Due(d, l, shown', account')
             /\ ~Changing(l)' => shown'[l] = account'[l]
  <2>1. /\ \A d, e \in calls : l \in Changes(d.kind) /\ l \in Changes(e.kind) => d = e
        /\ \A d \in calls : l \in Changes(d.kind) => Due(d, l, shown, account)
        /\ ~Changing(l) => shown[l] = account[l]
    BY <1>3 DEF Settled, ListInv
  <2>2. CASE l \in Changes(c.kind)
    <3>1. \A d \in calls' : l \notin Changes(d.kind)
      BY <1>1, <2>1, <2>2
    <3>2. shown'[l] = account[l]
      BY <1>3, <2>1, <2>2 DEF Settled
    <3> QED BY <3>1, <3>2
  <2>3. CASE l \notin Changes(c.kind)
    <3>1. shown'[l] = shown[l]
      BY <1>3, <2>3 DEF Settled
    <3>2. \A e : l \in Changes(e.kind) => (e \in calls' <=> e \in calls)
      BY <1>1, <2>3
    <3>3. Changing(l)' <=> Changing(l)
      BY <3>2 DEF Changing
    <3>4. ASSUME NEW d \in calls', l \in Changes(d.kind) PROVE Due(d, l, shown', account')
      BY <2>1, <3>1, <3>2, <3>4, DueLocal
    <3> QED BY <2>1, <3>1, <3>2, <3>3, <3>4
  <2> QED BY <2>2, <2>3
<1> QED BY <1>2, <1>3 DEF ListInv

\* A step that answers the request c by r.
Replaced(c, r) ==
    /\ r.kind = c.kind
    /\ \A l \in Lists : quiet'[l] => quiet[l]
    /\ \A l \in Lists : l \notin Changes(c.kind) => account'[l] = account[l]
    /\ \A l \in Changes(c.kind) :
          quiet'[l] /\ Due(c, l, shown, account) => Due(r, l, shown, account')
    /\ c.kind \in Lists /\ r.clean =>
          c.clean /\ (r.phase = "ok" => r.out[c.kind] = account[c.kind])

LEMMA ListReplace ==
    ASSUME TypeInv, ListInv, shown' = shown, NEW c \in calls, NEW r, Replaced(c, r),
           calls' = (calls \ {c}) \cup {r}
    PROVE  ListInv'
<1>0. /\ r.kind = c.kind /\ \A l \in Lists : quiet'[l] => quiet[l]
      /\ \A l \in Lists : l \notin Changes(c.kind) => account'[l] = account[l]
  BY DEF Replaced
<1>1. ASSUME NEW l PROVE Changing(l)' <=> Changing(l)
  BY <1>0 DEF Changing
<1>2. ASSUME NEW e \in calls', e.kind \in Lists, e.clean
      PROVE  ~Changing(e.kind)' /\ (e.phase = "ok" => e.out[e.kind] = account'[e.kind])
  <2>1. ~Changing(e.kind)
    BY <1>0, <1>2, ZenonT(30) DEF Replaced, ListInv
  <2>2. e.phase = "ok" => e.out[e.kind] = account[e.kind]
    BY <1>0, <1>2 DEF Replaced, ListInv
  <2>3. account'[e.kind] = account[e.kind]
    BY <1>0, <1>2, <2>1 DEF Changing
  <2> QED BY <1>1, <2>1, <2>2, <2>3
<1>3. ASSUME NEW l \in Lists, quiet'[l]
      PROVE  /\ \A d, e \in calls' : l \in Changes(d.kind) /\ l \in Changes(e.kind) => d = e
             /\ \A d \in calls' : l \in Changes(d.kind) => Due(d, l, shown', account')
             /\ ~Changing(l)' => shown'[l] = account'[l]
  <2>1. /\ \A d, e \in calls : l \in Changes(d.kind) /\ l \in Changes(e.kind) => d = e
        /\ \A d \in calls : l \in Changes(d.kind) => Due(d, l, shown, account)
        /\ ~Changing(l) => shown[l] = account[l]
    BY <1>0, <1>3 DEF ListInv
  <2>2. CASE l \in Changes(c.kind)
    <3>1. \A d \in calls' : l \in Changes(d.kind) => d = r
      BY <2>1, <2>2
    <3>2. Due(r, l, shown, account')
      BY <1>3, <2>1, <2>2 DEF Replaced
    <3>3. Changing(l)
      BY <2>2 DEF Changing
    <3> QED BY <1>1, <3>1, <3>2, <3>3
  <2>3. CASE l \notin Changes(c.kind)
    <3>1. account'[l] = account[l]
      BY <1>0, <2>3
    <3>2. \A e \in calls' : l \in Changes(e.kind) => e \in calls
      BY <1>0, <2>3
    <3>3. ASSUME NEW d \in calls', l \in Changes(d.kind) PROVE Due(d, l, shown', account')
      <4>1. Due(d, l, shown, account)
        BY <2>1, <3>2, <3>3
      <4> QED BY <3>1, <4>1, DueLocal
    <3> QED BY <1>1, <2>1, <3>1, <3>2, <3>3
  <2> QED BY <2>2, <2>3
<1> QED BY <1>2, <1>3 DEF ListInv

\* A step that sends the change c.  The list it changes agreed, unless another
\* change of it is in flight.
Started(c) ==
    \A l \in Lists :
        /\ l \in Changes(c.kind) =>
              (quiet[l] /\ shown[l] = account[l] => Due(c, l, shown', account))
        /\ l \notin Changes(c.kind) => shown'[l] = shown[l]

LEMMA ListSend ==
    ASSUME TypeInv, ListInv, account' = account, NEW c \in Call, c.kind \in ChangeKinds,
           quiet' = Overlap(c), Started(c),
           NEW b \in SUBSET calls, \A d \in b : d.kind \notin ChangeKinds,
           calls' = Sending(c) \ b
    PROVE  ListInv'
<1>0. /\ \A d \in Call : d # c /\ d.kind \notin Lists => (d \in Sending(c) <=> d \in calls)
      /\ \A e \in Sending(c) : e = c \/ \E d \in calls : e = Marked(d, c.kind)
      /\ c \in Sending(c) /\ Sending(c) \subseteq Call /\ calls \subseteq Call
  BY SendingFits, TypeParts DEF CallsOK
<1>1. ASSUME NEW l
      PROVE  \A e \in Call : e # c /\ l \in Changes(e.kind) => (e \in calls' <=> e \in calls)
  BY <1>0, ChangesKinds, ListsNoChange
<1>2. calls' \subseteq Call
  BY <1>0
<1>3. \A l \in Lists : quiet'[l] => quiet[l] /\ ~(l \in Changes(c.kind) /\ Changing(l))
  BY DEF Overlap
<1>4. ASSUME NEW e \in calls', e.kind \in Lists, e.clean
      PROVE  ~Changing(e.kind)' /\ (e.phase = "ok" => e.out[e.kind] = account'[e.kind])
  <2>1. e # c
    BY <1>4, ListsNoChange
  <2>2. PICK d \in calls : e = Marked(d, c.kind)
    BY <1>0, <2>1
  <2>3. d \in Call
    BY <1>0
  <2>4. /\ e.kind = d.kind /\ e.phase = d.phase /\ e.out = d.out
        /\ d.clean /\ d.kind \notin Changes(c.kind)
    BY <1>4, <2>2, <2>3, MarkedFits
  <2>5. ~Changing(d.kind) /\ (d.phase = "ok" => d.out[d.kind] = account[d.kind])
    BY <1>4, <2>4 DEF ListInv
  <2>6. ~Changing(d.kind)'
    BY <1>1, <1>2, <2>4, <2>5 DEF Changing
  <2>7. Changing(e.kind)' <=> Changing(d.kind)'
    BY <2>4 DEF Changing
  <2> QED BY <2>4, <2>5, <2>6, <2>7
<1>5. ASSUME NEW l \in Lists, quiet'[l]
      PROVE  /\ \A d, e \in calls' : l \in Changes(d.kind) /\ l \in Changes(e.kind) => d = e
             /\ \A d \in calls' : l \in Changes(d.kind) => Due(d, l, shown', account')
             /\ ~Changing(l)' => shown'[l] = account'[l]
  <2>1. quiet[l] /\ ~(l \in Changes(c.kind) /\ Changing(l))
    BY <1>3, <1>5
  <2>2. /\ \A d, e \in calls : l \in Changes(d.kind) /\ l \in Changes(e.kind) => d = e
        /\ \A d \in calls : l \in Changes(d.kind) => Due(d, l, shown, account)
        /\ ~Changing(l) => shown[l] = account[l]
    BY <2>1 DEF ListInv
  <2>3. CASE l \in Changes(c.kind)
    <3>1. ~Changing(l) /\ shown[l] = account[l]
      BY <2>1, <2>2, <2>3
    <3>2. \A d \in calls' : l \in Changes(d.kind) => d = c
      BY <1>1, <1>2, <3>1 DEF Changing
    <3>3. Due(c, l, shown', account)
      BY <2>1, <2>3, <3>1 DEF Started
    <3>4. c \in calls'
      BY <1>0
    <3>5. Changing(l)'
      BY <2>3, <3>4 DEF Changing
    <3> QED BY <3>2, <3>3, <3>5
  <2>4. CASE l \notin Changes(c.kind)
    <3>1. shown'[l] = shown[l]
      BY <2>4 DEF Started
    <3>2. \A e \in Call : l \in Changes(e.kind) => (e \in calls' <=> e \in calls)
      BY <1>1, <2>4
    <3>3. Changing(l)' <=> Changing(l)
      BY <1>0, <1>2, <3>2 DEF Changing
    <3>4. ASSUME NEW d \in calls', l \in Changes(d.kind) PROVE Due(d, l, shown', account')
      <4>1. Due(d, l, shown, account)
        BY <1>2, <2>2, <3>2, <3>4
      <4> QED BY <3>1, <4>1, DueLocal
    <3> QED BY <1>2, <2>2, <3>1, <3>2, <3>3, <3>4
  <2> QED BY <2>3, <2>4
<1> QED BY <1>4, <1>5 DEF ListInv

\* The lists on screen, record field by record field.
LEMMA AccountFields ==
    ASSUME NEW a \in Account, NEW S
    PROVE  /\ [a EXCEPT !.passkeys = S]["passkeys"] = S
           /\ [a EXCEPT !.passkeys = S]["sessions"] = a["sessions"]
           /\ [a EXCEPT !.passkeys = S]["events"] = a["events"]
           /\ [a EXCEPT !.sessions = S]["sessions"] = S
           /\ [a EXCEPT !.sessions = S]["passkeys"] = a["passkeys"]
           /\ [a EXCEPT !.sessions = S]["events"] = a["events"]
           /\ [a EXCEPT !.events = S]["passkeys"] = a["passkeys"]
           /\ [a EXCEPT !.events = S]["sessions"] = a["sessions"]
           /\ [a EXCEPT !.events = S]["events"] = S
BY DEF Account

\* The form's requests are no concern of the lists.
LEMMA GeneralList ==
    ASSUME TypeInv, ListInv, GeneralStep
    PROVE  ListInv'
<1>1. UNCHANGED <<account, shown, quiet>>
  BY DEF GeneralStep, Edit, handleSave, handleRetentionChange, handleTestConnection, security
<1>2. ASSUME NEW k \in {"save", "test", "retention"}
      PROVE  Request(k) \in Call /\ Request(k).kind = k
  BY KindsKnown, RequestFits, ZenonT(30)
<1>3. ASSUME NEW r, NEW k \in {"save", "test", "retention"}, r.kind = k,
             calls' = calls \cup {r}
      PROVE  Beside(calls)
  BY <1>3 DEF Beside, Lists, ChangeKinds, Destructive
<1>4. Beside(calls)
  <2>1. CASE Edit
    BY <2>1 DEF Edit, Beside
  <2>2. CASE handleSave
    <3>1. PICK r : r = [Request("save") EXCEPT !.cfg = FormConfig] /\ calls' = calls \cup {r}
      BY <2>2 DEF handleSave
    <3>2. r.kind = "save"
      BY <1>2, <3>1 DEF Call
    <3> QED BY <1>3, <3>1, <3>2
  <2>3. CASE handleTestConnection
    <3>1. PICK r : r = [Request("test") EXCEPT !.cfg = FormConfig] /\ calls' = calls \cup {r}
      BY <2>3 DEF handleTestConnection
    <3>2. r.kind = "test"
      BY <1>2, <3>1 DEF Call
    <3> QED BY <1>3, <3>1, <3>2
  <2>4. CASE handleRetentionChange
    <3>1. PICK d, r :
             /\ d \in Days
             /\ r = [Request("retention") EXCEPT !.cfg = [FormConfig EXCEPT !.days = d],
                                                 !.prev = form.days]
             /\ calls' = calls \cup {r}
      BY <2>4 DEF handleRetentionChange
    <3>2. r.kind = "retention"
      BY <1>2, <3>1 DEF Call
    <3> QED BY <1>3, <3>1, <3>2
  <2> QED BY <2>1, <2>2, <2>3, <2>4 DEF GeneralStep
<1> QED BY <1>1, <1>4, ListFrame

\* New listings stand beside the requests they were sent with.
LEMMA ListingBeside ==
    ASSUME TypeInv, NEW ls \in SUBSET Lists, NEW others \in SUBSET calls,
           calls' = Listing(ls, others)
    PROVE  Beside(others)
<1>1. others \subseteq calls'
  BY ListingSent
<1>2. ASSUME NEW e \in calls', e \notin others
      PROVE  /\ e.kind \in Lists /\ e.phase = "sent"
             /\ e.clean => ~\E d \in others : e.kind \in Changes(d.kind)
  <2>1. e \in Listing(ls, others)
    OBVIOUS
  <2>2. e.kind \in ls
    BY ONLY TypeInv, ls \in SUBSET Lists, others \in SUBSET calls, <1>2, <2>1, ListingNew
  <2>3. e.phase = "sent"
    <3>1. Unanswered(e)
      BY ONLY TypeInv, ls \in SUBSET Lists, others \in SUBSET calls, <1>2, <2>1, ListingNew
    <3> QED BY <3>1 DEF Unanswered
  <2>4. e.clean => ~\E d \in others : e.kind \in Changes(d.kind)
    BY ONLY TypeInv, ls \in SUBSET Lists, others \in SUBSET calls, <1>2, <2>1, ListingNew
  <2> QED BY <2>2, <2>3, <2>4
<1>3. ASSUME NEW e \in calls'
      PROVE  \/ e \in others
             \/ /\ e.kind \in Lists /\ e.phase = "sent"
                /\ e.clean => ~\E d \in others : e.kind \in Changes(d.kind)
  BY <1>2
<1> QED BY <1>1, <1>3 DEF Beside

\* What the user starts on the security tab.
LEMMA SecurityList ==
    ASSUME TypeInv, ListInv, SecurityStep
    PROVE  ListInv'
<1>0. shown \in Account /\ account \in Account
  BY TypeParts DEF ListsOK
<1>1. ASSUME SwitchTab PROVE ListInv'
  <2>1. UNCHANGED <<account, shown, quiet>>
    BY <1>1 DEF SwitchTab
  <2>2. calls' = Listing(Lists, calls) \/ calls' = calls
    BY <1>1 DEF SwitchTab
  <2>3. Beside(calls)
    <3>1. calls' = calls => Beside(calls)
      BY DEF Beside
    <3> QED BY <2>2, <3>1, ListingBeside
  <2> QED BY <2>1, <2>3, ListFrame
<1>2. ASSUME NEW l \in Lists, Refresh(l) PROVE ListInv'
  <2>1. UNCHANGED <<account, shown, quiet>> /\ calls' = Listing({l}, calls)
    BY <1>2 DEF Refresh
  <2>2. Beside(calls)
    BY <2>1, ListingBeside
  <2> QED BY <2>1, <2>2, ListFrame
<1>3. ASSUME handleAddPasskey PROVE ListInv'
  <2>1. PICK k, m, r :
           /\ k \in Keys /\ m \in Names
           /\ r = [Request("begin") EXCEPT !.item = k, !.name = m] /\ calls' = calls \cup {r}
    BY <1>3 DEF handleAddPasskey
  <2>2. Request("begin") \in Call /\ Request("begin").kind = "begin"
    BY KindsKnown, RequestFits
  <2>3. r.kind = "begin"
    BY <2>1, <2>2 DEF Call
  <2>4. Beside(calls)
    BY <2>1, <2>3 DEF Beside, Lists, ChangeKinds, Destructive
  <2>5. UNCHANGED <<account, shown, quiet>>
    BY <1>3 DEF handleAddPasskey
  <2> QED BY <2>4, <2>5, ListFrame
<1>4. ASSUME EditName \/ Arm \/ Dismiss PROVE ListInv'
  <2>1. UNCHANGED <<account, shown, quiet, calls>>
    BY <1>4 DEF EditName, Arm, Dismiss, security
  <2>2. Beside(calls)
    BY <2>1 DEF Beside
  <2> QED BY <2>1, <2>2, ListFrame
<1>5. ASSUME handleRenamePasskey PROVE ListInv'
  <2>1. PICK m, c :
           /\ m \in Names
           /\ c = Renaming(m) /\ calls' = Sending(c) /\ quiet' = Overlap(c)
    BY <1>5 DEF handleRenamePasskey, Renaming
  <2>2. c \in Call /\ c.kind = "rename" /\ c.phase = "sent"
    BY <1>5, <2>1, RenamingFits DEF handleRenamePasskey
  <2>3. UNCHANGED <<account, shown>>
    BY <1>5 DEF handleRenamePasskey
  <2>4. Started(c)
    BY <2>2, <2>3 DEF Started, Changes, Due
  <2>5. c.kind \in ChangeKinds /\ {} \in SUBSET calls /\ calls' = Sending(c) \ {}
    BY <2>1, <2>2 DEF ChangeKinds
  <2> QED BY <2>1, <2>2, <2>3, <2>4, <2>5, ListSend, ZenonT(30)
<1>6. ASSUME confirmDestructive PROVE ListInv'
  <2>1. PICK c \in Call :
           /\ c = Confirmed /\ c.phase = "sent" /\ c.kind \in Destructive
           /\ c.kind = "revoke" => c.was = shown.sessions
    BY <1>6, ConfirmedFits DEF confirmDestructive
  <2>2. /\ calls' = Sending(c) /\ quiet' = Overlap(c) /\ shown' = ShownAfterConfirm(c)
        /\ account' = account
    BY <1>6, <2>1 DEF confirmDestructive, Confirmed
  <2>3. Started(c)
    <3>1. CASE c.kind = "revoke"
      <4>1. /\ shown'["passkeys"] = shown["passkeys"] /\ shown'["events"] = shown["events"]
            /\ shown'["sessions"] = shown["sessions"] \ {c.item}
        BY <1>0, <2>2, <3>1, AccountFields, ZenonT(30) DEF ShownAfterConfirm
      <4> QED BY <2>1, <3>1, <4>1, ZenonT(30) DEF Started, Changes, Due, Lists
    <3>2. CASE c.kind # "revoke"
      <4>1. shown' = shown
        BY <2>2, <3>2 DEF ShownAfterConfirm
      <4> QED BY <2>1, <3>2, <4>1 DEF Started, Due, Lists
    <3> QED BY <3>1, <3>2
  <2>4. c.kind \in ChangeKinds /\ {} \in SUBSET calls /\ calls' = Sending(c) \ {}
    BY <2>1, <2>2 DEF ChangeKinds
  <2> QED BY <2>1, <2>2, <2>3, <2>4, ListSend
<1> QED BY <1>1, <1>2, <1>3, <1>4, <1>5, <1>6 DEF SecurityStep

\* A listing arrives: clean, it shows what the server has.
LEMMA ListLoad ==
    ASSUME TypeInv, ListInv, account' = account, NEW c \in calls, c.kind \in Lists,
           c.phase = "ok", NEW others \in SUBSET calls, others = calls \ {c}, Beside(others),
           shown' = [shown EXCEPT ![c.kind] = c.out[c.kind]],
           quiet' = [quiet EXCEPT ![c.kind] = c.clean]
    PROVE  ListInv'
<1>0. shown \in Account /\ quiet \in [Lists -> BOOLEAN]
  BY TypeParts DEF ListsOK
<1>1. ASSUME NEW l
      PROVE  \A e : l \in Changes(e.kind) => (e \in calls' <=> e \in calls)
  BY BesideChanging, ListsNoChange
<1>2. ASSUME NEW l
      PROVE  Changing(l)' <=> Changing(l)
  BY <1>1 DEF Changing
<1>3. ASSUME NEW e \in calls', e.kind \in Lists, e.clean
      PROVE  ~Changing(e.kind)' /\ (e.phase = "ok" => e.out[e.kind] = account'[e.kind])
  <2>1. CASE e \in calls
    <3>1. ~Changing(e.kind) /\ (e.phase = "ok" => e.out[e.kind] = account[e.kind])
      BY <1>3, <2>1 DEF ListInv
    <3> QED BY <1>2, <3>1
  <2>2. CASE e \notin calls
    <3>1. e.phase = "sent" /\ ~\E d \in others : e.kind \in Changes(d.kind)
      BY <1>3, <2>2 DEF Beside
    <3>2. ~Changing(e.kind)'
      BY <3>1, BesideChanging DEF Changing
    <3> QED BY <3>1, <3>2
  <2> QED BY <2>1, <2>2
<1>4. ASSUME NEW l \in Lists, quiet'[l]
      PROVE  /\ \A d, e \in calls' : l \in Changes(d.kind) /\ l \in Changes(e.kind) => d = e
             /\ \A d \in calls' : l \in Changes(d.kind) => Due(d, l, shown', account')
             /\ ~Changing(l)' => shown'[l] = account'[l]
  <2>1. CASE l = c.kind
    <3>1. c.clean
      BY <1>0, <1>4, <2>1
    <3>2. ~Changing(l) /\ c.out[l] = account[l]
      BY <2>1, <3>1 DEF ListInv
    <3>3. shown'[l] = account'[l]
      BY <1>0, <2>1, <3>2 DEF Account, Lists
    <3>4. \A d \in calls' : l \notin Changes(d.kind)
      BY <1>1, <3>2 DEF Changing
    <3> QED BY <3>3, <3>4
  <2>2. CASE l # c.kind
    <3>1. quiet[l] /\ shown'[l] = shown[l]
      BY <1>0, <1>4, <2>2 DEF Account, Lists
    <3>2. /\ \A d, e \in calls : l \in Changes(d.kind) /\ l \in Changes(e.kind) => d = e
          /\ \A d \in calls : l \in Changes(d.kind) => Due(d, l, shown, account)
          /\ ~Changing(l) => shown[l] = account[l]
      BY <3>1 DEF ListInv
    <3>3. ASSUME NEW d \in calls', l \in Changes(d.kind) PROVE Due(d, l, shown', account')
      <4>1. Due(d, l, shown, account)
        BY <1>1, <3>2, <3>3
      <4> QED BY ONLY l \in Lists, account' = account, <3>1, <4>1, DueLocal
    <3> QED BY <1>1, <1>2, <3>1, <3>2, <3>3
  <2> QED BY <2>1, <2>2
<1> QED BY <1>3, <1>4 DEF ListInv

\* The change c succeeded: the passkeys are patched as the server changed them,
\* and the other lists stay or are loaded again.
LEMMA PatchSettles ==
    ASSUME TypeInv, NEW c \in calls, ChangeLands(c)
    PROVE  Settled(c)
<1>0. shown \in Account /\ quiet \in [Lists -> BOOLEAN]
  BY TypeParts DEF ListsOK
<1>1. /\ c.kind \in {"finish", "rename", "deletePasskey", "revoke"} /\ c.phase = "ok"
      /\ shown' = Patched(c)
  BY DEF ChangeLands
<1>2. \A l \in Lists : quiet'[l] => quiet[l] /\ ~(l = "events" /\ l \in Changes(c.kind))
  BY <1>0 DEF ChangeLands
<1>3. ASSUME c.kind # "revoke"
      PROVE  /\ shown'["passkeys"] = KeysAfter(c, shown["passkeys"])
             /\ shown'["sessions"] = shown["sessions"] /\ shown'["events"] = shown["events"]
  <2>1. PICK S : S = KeysAfter(c, shown.passkeys)
    OBVIOUS
  <2>2. shown' = [shown EXCEPT !.passkeys = S]
    <3>1. CASE c.kind = "finish"
      BY <1>1, <2>1, <3>1 DEF Patched, KeysAfter
    <3>2. CASE c.kind = "rename"
      BY <1>1, <2>1, <3>2 DEF Patched, KeysAfter
    <3>3. CASE c.kind = "deletePasskey"
      BY <1>1, <2>1, <3>3 DEF Patched, KeysAfter
    <3> QED BY <1>1, <1>3, <3>1, <3>2, <3>3
  <2>3. KeysAfter(c, shown["passkeys"]) = S
    BY <2>1
  <2> QED BY <1>0, <2>2, <2>3, AccountFields, SMT
<1>4. CASE c.kind = "revoke"
  <2>1. shown' = shown
    BY <1>1, <1>4 DEF Patched
  <2> QED BY <1>1, <1>2, <1>4, <2>1 DEF Settled, Changes, Due, Lists
<1>5. CASE c.kind # "revoke"
  BY <1>1, <1>2, <1>3, <1>5 DEF Settled, Changes, Due, Lists
<1> QED BY <1>4, <1>5

\* The answers, as the page handles them.
LEMMA LandList ==
    ASSUME TypeInv, ListInv, NEW c \in calls, Land(c)
    PROVE  ListInv'
<1>0. shown \in Account /\ quiet \in [Lists -> BOOLEAN] /\ c \in Call
  BY TypeParts DEF ListsOK, CallsOK
<1>1. PICK others \in SUBSET calls : others = calls \ {c}
  OBVIOUS
<1>2. calls' = others => Beside(others)
  BY DEF Beside
<1>3. c.kind \notin ChangeKinds => \A d \in calls \ others : d.kind \notin ChangeKinds
  BY <1>1
<1>4. ASSUME LoadLands(c) \/ SaveLands(c) \/ TestLands(c) PROVE ListInv'
  <2>1. calls' = others /\ UNCHANGED <<account, shown, quiet>>
    BY <1>1, <1>4 DEF LoadLands, SaveLands, TestLands, security
  <2>2. c.kind \notin ChangeKinds
    BY <1>4 DEF LoadLands, SaveLands, TestLands, Writes, ChangeKinds, Destructive
  <2> QED BY <1>2, <1>3, <2>1, <2>2, ListFrame
<1>5. ASSUME ListLands(c) PROVE ListInv'
  <2>1. PICK ls \in SUBSET Lists : calls' = Listing(ls, others)
    <3>1. {l \in {"events"} : c.ends} \in SUBSET Lists
      BY DEF Lists
    <3> QED BY <1>1, <1>5, <3>1 DEF ListLands
  <2>2. Beside(others)
    BY <2>1, ListingBeside
  <2>3. c.kind \in Lists /\ c.kind \notin ChangeKinds /\ account' = account
    BY <1>5, ListsNoChange DEF ListLands
  <2>4. CASE c.phase = "ok"
    <3>1. /\ shown' = [shown EXCEPT ![c.kind] = c.out[c.kind]]
          /\ quiet' = [quiet EXCEPT ![c.kind] = c.clean]
      BY <1>5, <2>4 DEF ListLands
    <3> QED BY <1>1, <2>2, <2>3, <2>4, <3>1, ListLoad
  <2>5. CASE c.phase # "ok"
    <3>1. UNCHANGED <<shown, quiet>>
      BY <1>5, <2>5 DEF ListLands
    <3> QED BY <1>3, <2>2, <2>3, <3>1, ListFrame, ZenonT(30)
  <2> QED BY <2>4, <2>5
<1>6. ASSUME BeginLands(c) PROVE ListInv'
  <2>1. c.kind = "begin" /\ c.kind \notin ChangeKinds /\ UNCHANGED <<account, shown>>
    BY <1>6 DEF BeginLands, ChangeKinds, Destructive
  <2>2. CASE c.phase = "ok"
    <3>1. PICK f : f = Finishing(c) /\ calls' = Sending(f) \ {c} /\ quiet' = Overlap(f)
      BY <1>6, <2>2 DEF BeginLands, Finishing
    <3>2. f \in Call /\ f.kind = "finish" /\ f.phase = "sent"
      BY <2>1, <3>1, FinishingFits
    <3>3. Started(f)
      BY <2>1, <3>2 DEF Started, Due, Lists
    <3>4. f.kind \in ChangeKinds /\ {c} \in SUBSET calls
      BY <3>2 DEF ChangeKinds
    <3> QED BY <2>1, <3>1, <3>2, <3>3, <3>4, ListSend, ZenonT(30)
  <2>3. CASE c.phase # "ok"
    <3>1. calls' = others /\ UNCHANGED quiet
      BY <1>1, <1>6, <2>3 DEF BeginLands
    <3> QED BY <1>2, <1>3, <2>1, <3>1, ListFrame
  <2> QED BY <2>2, <2>3
<1>7. ASSUME ChangeLands(c) PROVE ListInv'
  <2>1. PICK ls \in SUBSET Lists : calls' = Listing(ls, others)
    <3>1. {"events"} \cap Changes(c.kind) \in SUBSET Lists
      BY DEF Lists
    <3> QED BY <1>1, <1>7, <3>1 DEF ChangeLands
  <2>2. Beside(others)
    BY <2>1, ListingBeside
  <2>3. account' = account
    BY <1>7 DEF ChangeLands
  <2> QED BY <1>1, <1>7, <2>2, <2>3, PatchSettles, ListRemove, ZenonT(30)
<1>8. ASSUME RevokedAll(c) PROVE ListInv'
  <2>1. PICK r : r = Completing(c)
    OBVIOUS
  <2>2. /\ r.kind = "sessions" /\ r.phase = "sent"
        /\ r.clean => ~\E d \in others : "sessions" \in Changes(d.kind)
    BY <1>1, <2>1, CompletingFits
  <2>3. calls' = others \cup {r}
    BY <1>1, <1>8, <2>1 DEF RevokedAll, Completing
  <2>4. Beside(others)
    BY <2>2, <2>3 DEF Beside, Lists
  <2>5. account' = account /\ shown' = shown /\ c.kind = "revokeAll"
    BY <1>8 DEF RevokedAll
  <2>6. \A l \in Lists : quiet'[l] => quiet[l] /\ l = "passkeys"
    BY <1>0, <1>8 DEF RevokedAll, Lists
  <2>7. Settled(c)
    BY <2>5, <2>6 DEF Settled, Changes
  <2> QED BY <1>1, <2>4, <2>5, <2>7, ListRemove, ZenonT(30)
<1>9. ASSUME ChangeFails(c) PROVE ListInv'
  <2>1. /\ calls' = others /\ UNCHANGED <<account, quiet>> /\ shown' = RolledBack(c)
        /\ c.phase = "failed" /\ c.kind \in ChangeKinds
    BY <1>1, <1>9 DEF ChangeFails, ChangeKinds
  <2>2. Settled(c)
    <3>1. CASE c.kind = "revoke"
      <4>1. /\ shown'["sessions"] = c.was /\ shown'["passkeys"] = shown["passkeys"]
            /\ shown'["events"] = shown["events"]
        BY <1>0, <2>1, <3>1, AccountFields, SMT DEF RolledBack
      <4> QED BY <2>1, <3>1, <4>1 DEF Settled, Changes, Due, Lists
    <3>2. CASE c.kind # "revoke"
      <4>1. shown' = shown
        BY <2>1, <3>2 DEF RolledBack
      <4> QED BY <2>1, <3>2, <4>1 DEF Settled, Due, Lists
    <3> QED BY <3>1, <3>2
  <2> QED BY <1>1, <1>2, <2>1, <2>2, ListRemove
<1> QED BY <1>4, <1>5, <1>6, <1>7, <1>8, <1>9, ZenonT(30) DEF Land

\* What a change makes of the lists of the server.
LEMMA ChangedFields ==
    ASSUME TypeInv, NEW c \in calls, c.kind \in ChangeKinds
    PROVE  /\ c.kind \in {"finish", "rename", "deletePasskey"} =>
                 /\ Changed(c)["passkeys"] = KeysAfter(c, account["passkeys"])
                 /\ Changed(c)["sessions"] = account["sessions"]
           /\ c.kind \in {"revoke", "revokeAll"} => Changed(c)["passkeys"] = account["passkeys"]
           /\ c.kind = "revoke" => Changed(c)["sessions"] = account["sessions"] \ {c.item}
           /\ c.kind = "rename" => Changed(c)["events"] = account["events"]
<1>0. account \in Account
  BY TypeParts DEF ListsOK
<1>1. PICK b : b = IF c.kind = "rename" THEN account ELSE [account EXCEPT !.events = @ + 1]
  OBVIOUS
<1>2. /\ b \in Account /\ b["passkeys"] = account["passkeys"] /\ b["sessions"] = account["sessions"]
      /\ c.kind = "rename" => b["events"] = account["events"]
  <2>1. account.events + 1 \in Nat
    BY <1>0, SMT DEF Account
  <2> QED BY <1>0, <1>1, <2>1, AccountFields DEF Account
<1>3. PICK S : S = KeysAfter(c, b.passkeys)
  OBVIOUS
<1>4. CASE c.kind \in {"finish", "rename", "deletePasskey"}
  <2>1. Changed(c) = [b EXCEPT !.passkeys = S]
    <3>1. CASE c.kind = "finish"
      BY <1>1, <1>3, <3>1 DEF Changed, KeysAfter
    <3>2. CASE c.kind = "rename"
      BY <1>1, <1>3, <3>2 DEF Changed, KeysAfter
    <3>3. CASE c.kind = "deletePasskey"
      BY <1>1, <1>3, <3>3 DEF Changed, KeysAfter
    <3> QED BY <1>4, <3>1, <3>2, <3>3
  <2>2. S = KeysAfter(c, account["passkeys"])
    BY <1>2, <1>3
  <2> QED BY <1>2, <1>4, <2>1, <2>2, AccountFields, SMT
<1>5. CASE c.kind \in {"revoke", "revokeAll"}
  <2>1. PICK T : T = IF c.kind = "revoke" THEN b.sessions \ {c.item} ELSE b.sessions \cap {Current}
    OBVIOUS
  <2>2. Changed(c) = [b EXCEPT !.sessions = T]
    BY <1>1, <1>5, <2>1 DEF Changed
  <2> QED BY <1>2, <1>5, <2>1, <2>2, AccountFields, SMT
<1> QED BY <1>4, <1>5 DEF ChangeKinds, Destructive

\* The answers of the server, and the answers that are lost.
LEMMA ServeListed ==
    ASSUME TypeInv, ListInv, NEW c \in calls, Serve(c) \/ Refuse(c) \/ Lose(c)
    PROVE  ListInv'
<1>0. c \in Call /\ account \in Account /\ quiet \in [Lists -> BOOLEAN]
  BY TypeParts DEF ListsOK, CallsOK
<1>1. ASSUME ServeSettings(c) PROVE ListInv'
  <2>1. PICK g, r : r = [c EXCEPT !.phase = "ok", !.cfg = g] /\ calls' = (calls \ {c}) \cup {r}
    BY <1>1 DEF ServeSettings
  <2>2. r.kind = c.kind
    BY <1>0, <2>1 DEF Call
  <2>3. c.kind \notin Lists /\ c.kind \notin ChangeKinds /\ UNCHANGED <<account, shown, quiet>>
    BY <1>1 DEF ServeSettings, security, Writes, Lists, ChangeKinds, Destructive
  <2>4. Replaced(c, r)
    BY <2>2, <2>3, ChangesKinds DEF Replaced
  <2> QED BY <2>1, <2>3, <2>4, ListReplace
<1>2. ASSUME ServeList(c) PROVE ListInv'
  <2>1. PICK a : a = [l \in Lists |-> IF l = c.kind THEN account[l] ELSE c.out[l]]
    OBVIOUS
  <2>2. PICK r : r = [c EXCEPT !.phase = "ok", !.out = a] /\ calls' = (calls \ {c}) \cup {r}
    BY <1>2, <2>1 DEF ServeList
  <2>3. r.kind = c.kind /\ r.clean = c.clean /\ r.out = a
    BY <1>0, <2>2 DEF Call
  <2>4. c.kind \notin ChangeKinds /\ UNCHANGED <<account, shown, quiet>>
    BY <1>2, ListsNoChange DEF ServeList, security, ChangeKinds, Destructive
  <2>5. Replaced(c, r)
    BY <2>1, <2>3, <2>4, ChangesKinds DEF Replaced
  <2> QED BY <2>2, <2>4, <2>5, ListReplace
<1>3. ASSUME ServeChange(c) PROVE ListInv'
  <2>1. PICK p : /\ p = (IF Accepted(c) THEN "ok" ELSE "failed") /\ calls' = Answer(c, p)
    BY <1>3 DEF ServeChange
  <2>2. PICK r : r = [c EXCEPT !.phase = p]
    OBVIOUS
  <2>3. /\ r.kind = c.kind /\ r.item = c.item /\ r.name = c.name /\ r.was = c.was
        /\ r.phase = p /\ calls' = (calls \ {c}) \cup {r}
    BY <1>0, <2>1, <2>2 DEF Call, Answer
  <2>4. c.kind \in ChangeKinds /\ c.phase = "sent" /\ c.kind \notin Lists /\ UNCHANGED <<shown, quiet>>
    BY <1>3, ListsNoChange DEF ServeChange, ChangeKinds
  <2>5. CASE Accepted(c)
    <3>1. account' = Changed(c) /\ p = "ok"
      BY <1>3, <2>1, <2>5 DEF ServeChange
    <3>2. KeysAfter(r, shown.passkeys) = KeysAfter(c, shown.passkeys)
      BY <2>3 DEF KeysAfter
    <3>3. \A l \in Lists : l \notin Changes(c.kind) => account'[l] = account[l]
      BY <2>4, <3>1, ChangedFields, ZenonT(30) DEF Changes, Lists, ChangeKinds, Destructive
    <3>4. ASSUME NEW l \in Changes(c.kind), Due(c, l, shown, account)
          PROVE  Due(r, l, shown, account')
      <4>1. CASE l = "passkeys"
        <5>1. c.kind \in {"finish", "rename", "deletePasskey"}
          BY <3>4, <4>1 DEF Changes
        <5>2. account.passkeys = shown.passkeys
          BY <2>4, <4>1, <3>4 DEF Due
        <5>3. account'.passkeys = KeysAfter(r, shown.passkeys)
          BY <2>4, <3>1, <3>2, <5>1, <5>2, ChangedFields, ZenonT(30)
        <5> QED BY <2>3, <3>1, <4>1, <5>3 DEF Due
      <4>2. CASE l = "sessions" /\ c.kind = "revoke"
        <5>1. shown.sessions = account.sessions \ {c.item}
          BY <2>4, <3>4, <4>2 DEF Due
        <5>2. account'.sessions = account.sessions \ {c.item}
          BY <2>4, <3>1, <4>2, ChangedFields, ZenonT(30)
        <5> QED BY <2>3, <3>1, <4>2, <5>1, <5>2, ZenonT(30) DEF Due
      <4>3. CASE l = "events" \/ (l = "sessions" /\ c.kind # "revoke")
        BY <2>3, <3>1, <4>3 DEF Due
      <4> QED BY <3>4, <4>1, <4>2, <4>3, ChangesKinds, ZenonT(30) DEF Lists
    <3>5. Replaced(c, r)
      BY <2>3, <2>4, <3>3, <3>4, ZenonT(30) DEF Replaced
    <3> QED BY <2>3, <2>4, <3>5, ListReplace
  <2>6. CASE ~Accepted(c)
    <3>1. account' = account /\ p = "failed"
      BY <1>3, <2>1, <2>6 DEF ServeChange
    <3>2. ASSUME NEW l \in Changes(c.kind), Due(c, l, shown, account)
          PROVE  Due(r, l, shown, account')
      BY <2>3, <2>4, <3>1, <3>2 DEF Due
    <3>3. Replaced(c, r)
      BY <2>3, <2>4, <3>1, <3>2 DEF Replaced
    <3> QED BY <2>3, <2>4, <3>3, ListReplace
  <2> QED BY <2>5, <2>6
<1>4. ASSUME Refuse(c) \/ Lose(c) PROVE ListInv'
  <2>1. PICK r : r = [c EXCEPT !.phase = "failed"]
    OBVIOUS
  <2>2. /\ r.kind = c.kind /\ r.was = c.was /\ r.phase = "failed" /\ r.clean = c.clean
        /\ calls' = (calls \ {c}) \cup {r}
    BY <1>0, <1>4, <2>1, ZenonT(30) DEF Call, Answer, Refuse, Lose
  <2>3. UNCHANGED <<account, shown>>
    BY <1>4 DEF Refuse, Lose, security
  <2>4. \A l \in Lists : quiet'[l] => quiet[l]
    BY <1>0, <1>4 DEF Refuse, Lose, security
  <2>5. ASSUME NEW l \in Changes(c.kind), quiet'[l], Due(c, l, shown, account)
        PROVE  Due(r, l, shown, account')
    <3>1. c.phase = "sent"
      BY <1>0, <1>4, <2>5, ChangesKinds, ZenonT(30) DEF Refuse, Lose
    <3> QED BY <2>2, <2>3, <2>5, <3>1 DEF Due
  <2>6. Replaced(c, r)
    BY <2>2, <2>3, <2>4, <2>5 DEF Replaced
  <2> QED BY <2>2, <2>3, <2>6, ListReplace
<1> QED BY <1>1, <1>2, <1>3, <1>4 DEF Serve

\* No list is quiet before it has been loaded.
LEMMA InitList == Init => ListInv
<1> SUFFICES ASSUME Init PROVE ListInv
  OBVIOUS
<1>1. \A c \in calls : c.kind \notin Lists
  BY ONLY Init, InitCalls DEF Lists
<1>2. \A l \in Lists : ~quiet[l]
  BY DEF Init
<1> QED BY <1>1, <1>2 DEF ListInv

LEMMA NextList == TypeInv /\ ListInv /\ [Next]_vars => ListInv'
<1> SUFFICES ASSUME TypeInv, ListInv, [Next]_vars PROVE ListInv'
  OBVIOUS
<1>1. ASSUME UNCHANGED vars PROVE ListInv'
  <2>1. UNCHANGED <<account, shown, quiet, calls>>
    BY <1>1 DEF vars, security
  <2>2. Beside(calls)
    BY <2>1 DEF Beside
  <2> QED BY <2>1, <2>2, ListFrame
<1>2. ASSUME NEW c \in calls, Serve(c) \/ Land(c) \/ Refuse(c) \/ Lose(c) PROVE ListInv'
  BY <1>2, LandList, ServeListed
<1> QED BY <1>1, <1>2, GeneralList, SecurityList DEF Next

-----------------------------------------------------------------------------
(* The theorems.                                                             *)

\* The conjunction of the four is inductive.
LEMMA Inductive == Spec => [](TypeInv /\ FormInv /\ FlightInv /\ ListInv)
<1>1. Init => TypeInv /\ FormInv /\ FlightInv /\ ListInv
  BY InitTypes, InitForm, InitFlight, InitList
<1>2. (TypeInv /\ FormInv /\ FlightInv /\ ListInv) /\ [Next]_vars
         => (TypeInv /\ FormInv /\ FlightInv /\ ListInv)'
  BY NextTypes, NextForm, NextFlight, NextList
<1> QED BY <1>1, <1>2, PTL DEF Spec

\* Every variable of the page keeps its type, whatever the order of the answers.
THEOREM SettingsTypeCorrect == Spec => []TypeOK
<1>1. TypeInv => TypeOK
  BY DEF TypeInv
<1> QED BY <1>1, Inductive, PTL

\* Once loaded or saved, and until something is typed, the form shows what the
\* server stores: saving sends the trimmed text, a refused retention preset is
\* put back, and the busy flags keep a second request from overtaking the first
\* (Settings.tsx, handleSave and handleRetentionChange).
THEOREM SettingsFormAgrees == Spec => []FormAgrees
<1>1. FormInv => FormAgrees
  BY DEF FormInv
<1> QED BY <1>1, Inductive, PTL

\* A set whose members are all one has at most one.
LEMMA AtMostOne ==
    ASSUME NEW S, \A c, d \in S : c = d
    PROVE  Cardinality(S) = IF S = {} THEN 0 ELSE 1
<1>1. CASE S = {}
  BY <1>1, FS_EmptySet
<1>2. CASE S # {}
  <2>1. PICK c \in S : S = {c}
    BY <1>2
  <2> QED BY <1>2, <2>1, FS_Singleton
<1> QED BY <1>1, <1>2

\* The form has one request in flight, exactly while its busy flag is set, and a
\* destructive request runs behind the locked dialog that asked for it: the page
\* never overtakes itself (Settings.tsx, destructiveBusy and the disabled fields).
THEOREM SettingsSingleFlight == Spec => []SingleFlight
<1>1. TypeInv /\ FormInv /\ FlightInv => SingleFlight
  <2> SUFFICES ASSUME TypeInv, FormInv, FlightInv PROVE SingleFlight
    OBVIOUS
  <2> DEFINE of(K) == {c \in calls : c.kind \in K}
             running == {c \in calls : c.kind \in Destructive \/ c.ends}
  <2>0. isSaving \in BOOLEAN /\ isTesting \in BOOLEAN
    BY TypeParts DEF GeneralOK
  <2>1. \A c, d \in calls : c.kind \in FormKinds /\ d.kind \in FormKinds => c = d
    BY DEF FormInv
  <2>2. Writes \subseteq FormKinds /\ "test" \in FormKinds
    BY DEF FormKinds
  <2>3. Cardinality(of(Writes)) = IF isSaving THEN 1 ELSE 0
    <3>1. \A c, d \in of(Writes) : c = d
      BY <2>1, <2>2
    <3>2. Cardinality(of(Writes)) = IF of(Writes) = {} THEN 0 ELSE 1
      BY <3>1, AtMostOne
    <3>3. isSaving <=> of(Writes) # {}
      BY DEF FormInv
    <3> QED BY <2>0, <3>2, <3>3
  <2>4. Cardinality(of({"test"})) = IF isTesting THEN 1 ELSE 0
    <3>1. \A c, d \in of({"test"}) : c = d
      BY <2>1, <2>2
    <3>2. Cardinality(of({"test"})) = IF of({"test"}) = {} THEN 0 ELSE 1
      BY <3>1, AtMostOne
    <3>3. isTesting <=> of({"test"}) # {}
      BY DEF FormInv
    <3> QED BY <2>0, <3>2, <3>3
  <2>5. Cardinality(of(Writes \cup {"test"})) <= 1
    <3>1. \A c, d \in of(Writes \cup {"test"}) : c = d
      BY <2>1, <2>2
    <3> QED BY <3>1, AtMostOne, SMT
  <2>6. Cardinality(running) <= 1
    <3>1. \A c, d \in running : c = d
      BY DEF FlightInv, Runs
    <3> QED BY <3>1, AtMostOne, SMTT(30)
  <2>7. \A c \in running :
           /\ pendingDestructive.kind = (IF c.ends THEN "revokeAll" ELSE c.kind)
           /\ pendingDestructive.item = c.item
           /\ Locked
    BY DEF FlightInv, Runs
  <2> QED BY <2>3, <2>4, <2>5, <2>6, <2>7 DEF SingleFlight
<1> QED BY <1>1, Inductive, PTL

\* The lists are patched on screen instead of being loaded again, a revoked
\* session is taken out before the server agrees and put back when it refuses:
\* they are still the server's wherever no listing overlapped a change of the
\* same list, no two changes of it overlapped and no answer to one was lost.
THEOREM SettingsListsAgree == Spec => []ListsAgree
<1>1. ListInv => ListsAgree
  BY DEF ListInv, ListsAgree
<1> QED BY <1>1, Inductive, PTL
=============================================================================
