----------------------------- MODULE SettingsPage -----------------------------
(***************************************************************************)
(* The settings page of the web interface.                                 *)
(*                                                                         *)
(* The general tab edits the notification settings, tests them, and stores *)
(* the retention of the audit log as soon as another preset is picked.     *)
(* The security tab lists the passkeys, the sessions and the sign-in       *)
(* events of the user, each list loaded by a request of its own; it adds,  *)
(* renames and deletes passkeys and revokes sessions, patching the lists   *)
(* on screen instead of loading them again.  No request carries a ticket:  *)
(* whatever answer comes last is shown.  Deletions go through one modal    *)
(* dialog that stays open, locked, until the request settles.              *)
(***************************************************************************)
EXTENDS Naturals, FiniteSets

CONSTANTS
    Gotify, Empty,       \* notification settings as stored; the unset ones
    Days, DefaultDays,   \* retention presets; the one shown before loading
    Keys, Names,         \* passkeys; their names
    Sessions, Current,   \* sessions of the user; the one of this browser
    None,
    Start,               \* what the server may hold when the page opens
    MaxClicks,           \* edits and requests the user starts
    MaxFaults            \* refused or lost requests

VARIABLES
    stored,      \* the settings of the server, and what wrote them last
    account,     \* passkeys, sessions and number of events on the server
    tab, loading,
    form,        \* the general form; a typed text may be padded with blanks
    isSaving, isTesting,
    banner,      \* the messages above and below the form
    shown,       \* the three lists on screen
    fetching,    \* their loading flags
    isAddingPasskey, editing,
    deletingPasskeyId, revokingSessionId, isRevokingOther,
    pendingDestructive,
    calls,       \* requests in flight
    faithful,    \* history: does the form hold what the server was told
    quiet,       \* history, per list: no listing overlapped a change
    left

general == <<stored, loading, form, isSaving, isTesting, banner, faithful>>
security == <<account, shown, fetching, isAddingPasskey, editing, deletingPasskeyId,
              revokingSessionId, isRevokingOther, quiet>>
vars == <<general, security, tab, pendingDestructive, calls, left>>

-----------------------------------------------------------------------------
Config == [gotify: Gotify, days: Days]
Text == [value: Gotify, padded: BOOLEAN]
Passkey == [id: Keys, name: Names]
Account == [passkeys: SUBSET Passkey, sessions: SUBSET Sessions, events: Nat]
Lists == {"passkeys", "sessions", "events"}

Writes == {"save", "retention"}
Destructive == {"deletePasskey", "revoke", "revokeAll"}
Kinds == {"load", "test", "begin", "finish", "rename"} \cup Writes \cup Destructive \cup Lists

ASSUME SettingsAssumption ==
    /\ Empty \in Gotify /\ DefaultDays \in Days /\ Current \in Sessions
    /\ Start \subseteq [cfg: Config, account: Account]
    /\ None \notin Destructive
    /\ MaxClicks \in Nat /\ MaxFaults \in Nat

\* The lists a request changes on the server.
Changes(kind) == CASE kind \in {"rename"}                  -> {"passkeys"}
                   [] kind \in {"finish", "deletePasskey"} -> {"passkeys", "events"}
                   [] kind \in {"revoke", "revokeAll"}     -> {"sessions", "events"}
                   [] OTHER                                -> {}

\* item and name say what a request is about, cfg what it stores, was what its
\* failure puts back, out the answer; clean: no change ran beside this listing;
\* ends: the listing that completes a revocation of all other sessions.
Nowhere == [passkeys |-> {}, sessions |-> {}, events |-> 0]
NoConfig == [gotify |-> Empty, days |-> DefaultDays]
Call == [kind: Kinds, item: Keys \cup Sessions \cup {None}, name: Names \cup {None},
         cfg: Config, prev: Days, was: SUBSET Sessions, n: Nat,
         phase: {"sent", "ok", "failed"}, out: Account, clean: BOOLEAN, ends: BOOLEAN]

Closed == [kind |-> None, item |-> None]

Bound == [clicks |-> MaxClicks, faults |-> MaxFaults]

Spend(kind) == left[kind] > 0 /\ left' = [left EXCEPT ![kind] = @ - 1]

TypeOK ==
    /\ stored \in [gotify: Gotify, days: Days, by: {"others"} \cup Writes]
    /\ account \in Account /\ shown \in Account
    /\ tab \in {"general", "security"} /\ loading \in BOOLEAN
    /\ form \in [gotify: Text, days: Days]
    /\ isSaving \in BOOLEAN /\ isTesting \in BOOLEAN
    /\ banner \subseteq {"saved", "error", "tested", "untested"}
    /\ fetching \in [Lists -> BOOLEAN]
    /\ isAddingPasskey \in BOOLEAN /\ editing \in Keys \cup {None}
    /\ deletingPasskeyId \in Keys \cup {None}
    /\ revokingSessionId \in Sessions \cup {None}
    /\ isRevokingOther \in BOOLEAN
    /\ pendingDestructive \in [kind: Destructive, item: Keys \cup Sessions \cup {None}]
                                 \cup {Closed}
    /\ calls \subseteq Call
    /\ faithful \in BOOLEAN /\ quiet \in [Lists -> BOOLEAN]
    /\ left \in [DOMAIN Bound -> Nat]

-----------------------------------------------------------------------------
(* Requests. *)

\* A request that tells itself apart from its like in flight.
Fresh(kind) ==
    CHOOSE n \in 0..Cardinality(calls): \A c \in calls: c.kind = kind => c.n # n

Request(kind) ==
    [kind |-> kind, item |-> None, name |-> None, cfg |-> NoConfig, prev |-> DefaultDays,
     was |-> {}, n |-> Fresh(kind), phase |-> "sent", out |-> Nowhere, clean |-> TRUE,
     ends |-> FALSE]

Changing(list) == \E c \in calls: list \in Changes(c.kind)

\* Listings of these lists are sent, beside the calls given.
Listing(lists, others) ==
    others \cup {[Request(l) EXCEPT !.clean =
                     ~\E c \in others: l \in Changes(c.kind)]: l \in lists}

\* A change is sent: the listings in flight may or may not show it.
Sending(c) ==
    {c} \cup {[d EXCEPT !.clean = @ /\ d.kind \notin Changes(c.kind)]: d \in calls}

\* Two changes of one list at a time leave the order of their answers open.
Overlap(c) == [l \in Lists |-> quiet[l] /\ ~(l \in Changes(c.kind) /\ Changing(l))]

-----------------------------------------------------------------------------
(* The general tab. *)

Trim(text) == text.value

FormConfig == [gotify |-> Trim(form.gotify), days |-> form.days]

\* Fields and buttons are disabled while a request of the form runs.
FormEnabled == tab = "general" /\ ~loading /\ ~isSaving /\ ~isTesting /\ pendingDestructive = Closed

Edit ==
    /\ FormEnabled
    /\ Spend("clicks")
    /\ \E text \in Text \ {form.gotify}: form' = [form EXCEPT !.gotify = text]
    /\ faithful' = FALSE
    /\ UNCHANGED <<stored, loading, isSaving, isTesting, banner, security, tab,
                   pendingDestructive, calls>>

handleSave ==
    /\ FormEnabled
    /\ Spend("clicks")
    /\ banner' = {}
    /\ isSaving' = TRUE
    /\ calls' = calls \cup {[Request("save") EXCEPT !.cfg = FormConfig]}
    /\ UNCHANGED <<stored, loading, form, isTesting, faithful, security, tab,
                   pendingDestructive>>

RetentionEnabled == FormEnabled

\* Picking a preset clears the verdict on the last save, not the test result.
ClearedVerdict == banner \ {"saved", "error"}

\* Picking a preset stores the whole form at once.
handleRetentionChange ==
    /\ RetentionEnabled
    /\ Spend("clicks")
    /\ \E days \in Days \ {form.days}:
          /\ form' = [form EXCEPT !.days = days]
          /\ calls' = calls \cup
                 {[Request("retention") EXCEPT !.cfg = [FormConfig EXCEPT !.days = days],
                                               !.prev = form.days]}
    /\ isSaving' = TRUE
    /\ banner' = ClearedVerdict
    /\ UNCHANGED <<stored, loading, isTesting, faithful, security, tab, pendingDestructive>>

handleTestConnection ==
    /\ FormEnabled
    /\ Spend("clicks")
    /\ banner' = {}
    /\ isTesting' = TRUE
    /\ calls' = calls \cup {[Request("test") EXCEPT !.cfg = FormConfig]}
    /\ UNCHANGED <<stored, loading, form, isSaving, faithful, security, tab,
                   pendingDestructive>>

\* loadSettings, once, when the page opens.
LoadLands(c) ==
    /\ c.kind = "load" /\ c.phase # "sent"
    /\ calls' = calls \ {c}
    /\ loading' = FALSE
    /\ IF c.phase = "ok"
       THEN /\ form' = [gotify |-> [value |-> c.cfg.gotify, padded |-> FALSE],
                        days |-> c.cfg.days]
            /\ UNCHANGED banner
       ELSE banner' = banner \cup {"error"} /\ UNCHANGED form
    /\ faithful' = (c.phase = "ok")
    /\ UNCHANGED <<stored, isSaving, isTesting, security, tab, pendingDestructive, left>>

\* Mutant: a failed retention change keeps the refused value.
RevertedNever(c) == form

\* A failed retention change puts the previous preset back.
Reverted(c) ==
    IF c.kind = "retention" /\ c.phase = "failed" THEN [form EXCEPT !.days = c.prev] ELSE form

SaveLands(c) ==
    /\ c.kind \in Writes /\ c.phase # "sent"
    /\ calls' = calls \ {c}
    /\ isSaving' = FALSE
    /\ form' = Reverted(c)
    /\ banner' = banner \cup (CASE c.phase = "failed" -> {"error"}
                                [] c.kind = "save"    -> {"saved"}
                                [] OTHER              -> {})
    /\ faithful' = (faithful \/ c.phase = "ok")
    /\ UNCHANGED <<stored, loading, isTesting, security, tab, pendingDestructive, left>>

TestLands(c) ==
    /\ c.kind = "test" /\ c.phase # "sent"
    /\ calls' = calls \ {c}
    /\ isTesting' = FALSE
    /\ banner' = banner \cup {IF c.phase = "ok" THEN "tested" ELSE "untested"}
    /\ UNCHANGED <<stored, loading, form, isSaving, faithful, security, tab,
                   pendingDestructive, left>>

-----------------------------------------------------------------------------
(* The security tab: lists, passkeys, sessions. *)

\* Opening the security tab loads its lists, again on every visit.
SwitchTab ==
    /\ Spend("clicks")
    /\ tab' = IF tab = "general" THEN "security" ELSE "general"
    /\ IF tab' = "security"
       THEN /\ calls' = Listing(Lists, calls)
            /\ fetching' = [l \in Lists |-> TRUE]
       ELSE UNCHANGED <<calls, fetching>>
    /\ UNCHANGED <<general, account, shown, isAddingPasskey, editing, deletingPasskeyId,
                   revokingSessionId, isRevokingOther, quiet, pendingDestructive>>

TabEnabled == tab = "security" /\ ~loading /\ pendingDestructive = Closed

Refresh(list) ==
    /\ TabEnabled /\ ~fetching[list]
    /\ Spend("clicks")
    /\ calls' = Listing({list}, calls)
    /\ fetching' = [fetching EXCEPT ![list] = TRUE]
    /\ UNCHANGED <<general, account, shown, isAddingPasskey, editing, deletingPasskeyId,
                   revokingSessionId, isRevokingOther, quiet, tab, pendingDestructive>>

handleAddPasskey ==
    /\ TabEnabled /\ ~isAddingPasskey
    /\ Spend("clicks")
    /\ \E k \in Keys, name \in Names:
          /\ k \notin {p.id: p \in account.passkeys \cup shown.passkeys}
          /\ calls' = calls \cup {[Request("begin") EXCEPT !.item = k, !.name = name]}
    /\ isAddingPasskey' = TRUE
    /\ UNCHANGED <<general, account, shown, fetching, editing, deletingPasskeyId,
                   revokingSessionId, isRevokingOther, quiet, tab, pendingDestructive>>

\* The pencil of a passkey, and the cross beside the text field.
EditName ==
    /\ TabEnabled
    /\ editing' \in ({p.id: p \in shown.passkeys} \cup {None}) \ {editing}
    /\ UNCHANGED <<general, account, shown, fetching, isAddingPasskey, deletingPasskeyId,
                   revokingSessionId, isRevokingOther, quiet, tab, pendingDestructive,
                   calls, left>>

handleRenamePasskey ==
    /\ TabEnabled /\ editing \in {p.id: p \in shown.passkeys}
    /\ Spend("clicks")
    /\ \E name \in Names:
          LET c == [Request("rename") EXCEPT !.item = editing, !.name = name]
          IN  calls' = Sending(c) /\ quiet' = Overlap(c)
    /\ UNCHANGED <<general, account, shown, fetching, isAddingPasskey, editing,
                   deletingPasskeyId, revokingSessionId, isRevokingOther, tab,
                   pendingDestructive>>

\* Every session but the one of this browser can be revoked.
Revocable == shown.sessions \ {Current}

Offers ==
    [kind: {"deletePasskey"}, item: {p.id: p \in shown.passkeys} \ {deletingPasskeyId}]
    \cup [kind: {"revoke"}, item: Revocable \ {revokingSessionId}]
    \cup [kind: {k \in {"revokeAll"}: /\ Cardinality(shown.sessions) > 1
                                      /\ ~isRevokingOther /\ ~fetching["sessions"]},
          item: {None}]

Arm ==
    /\ TabEnabled /\ left.clicks > 0
    /\ pendingDestructive' \in Offers
    /\ UNCHANGED <<general, security, tab, calls, left>>

\* destructiveBusy: the request the dialog asked for is in flight.
Locked ==
    \/ pendingDestructive.kind = "deletePasskey" /\ deletingPasskeyId = pendingDestructive.item
    \/ pendingDestructive.kind = "revoke" /\ revokingSessionId = pendingDestructive.item
    \/ pendingDestructive.kind = "revokeAll" /\ isRevokingOther

Dismiss ==
    /\ pendingDestructive # Closed /\ ~Locked
    /\ pendingDestructive' = Closed
    /\ UNCHANGED <<general, security, tab, calls, left>>

\* A revoked session leaves the list at once; the old list is kept to put back.
ShownAfterConfirm(c) ==
    IF c.kind = "revoke" THEN [shown EXCEPT !.sessions = @ \ {c.item}] ELSE shown

\* Mutant: the dialog closes while its request runs.
DialogWhileBusy == Closed

\* The dialog waits for the outcome.
DialogAfterConfirm == pendingDestructive

confirmDestructive ==
    /\ pendingDestructive # Closed /\ ~Locked
    /\ Spend("clicks")
    /\ LET c == [Request(pendingDestructive.kind) EXCEPT
                    !.item = pendingDestructive.item,
                    !.was = IF pendingDestructive.kind = "revoke" THEN shown.sessions ELSE {}]
       IN  /\ calls' = Sending(c)
           /\ quiet' = Overlap(c)
           /\ shown' = ShownAfterConfirm(c)
           /\ deletingPasskeyId' = IF c.kind = "deletePasskey" THEN c.item
                                                               ELSE deletingPasskeyId
           /\ revokingSessionId' = IF c.kind = "revoke" THEN c.item ELSE revokingSessionId
           /\ isRevokingOther' = (isRevokingOther \/ c.kind = "revokeAll")
    /\ pendingDestructive' = DialogAfterConfirm
    /\ UNCHANGED <<general, account, fetching, isAddingPasskey, editing, tab>>

-----------------------------------------------------------------------------
(* The answers of the security tab. *)

ListLands(c) ==
    /\ c.kind \in Lists /\ c.phase # "sent"
    /\ calls' = Listing({l \in {"events"}: c.ends}, calls \ {c})
    /\ fetching' = [fetching EXCEPT ![c.kind] = FALSE, !["events"] =
                       (@ /\ c.kind # "events") \/ c.ends]
    /\ IF c.phase = "ok"
       THEN /\ shown' = [shown EXCEPT ![c.kind] = c.out[c.kind]]
            /\ quiet' = [quiet EXCEPT ![c.kind] = c.clean]
       ELSE UNCHANGED <<shown, quiet>>
    /\ isRevokingOther' = (isRevokingOther /\ ~c.ends)
    /\ pendingDestructive' = IF c.ends THEN Closed ELSE pendingDestructive
    /\ UNCHANGED <<general, account, isAddingPasskey, editing, deletingPasskeyId,
                   revokingSessionId, tab, left>>

\* Mutant: a cancelled ceremony leaves the form busy.
BeginLandsStuck(c) ==
    /\ c.kind = "begin" /\ c.phase # "sent"
    /\ IF c.phase = "ok"
       THEN LET f == [Request("finish") EXCEPT !.item = c.item, !.name = c.name]
            IN  calls' = Sending(f) \ {c} /\ quiet' = Overlap(f)
       ELSE calls' = calls \ {c} /\ UNCHANGED quiet
    /\ UNCHANGED <<general, account, shown, fetching, isAddingPasskey, editing,
                   deletingPasskeyId, revokingSessionId, isRevokingOther, tab,
                   pendingDestructive, left>>

\* The authenticator has answered: the registration is finished.
BeginLands(c) ==
    /\ c.kind = "begin" /\ c.phase # "sent"
    /\ IF c.phase = "ok"
       THEN LET f == [Request("finish") EXCEPT !.item = c.item, !.name = c.name]
            IN  calls' = Sending(f) \ {c} /\ quiet' = Overlap(f) /\ UNCHANGED isAddingPasskey
       ELSE calls' = calls \ {c} /\ isAddingPasskey' = FALSE /\ UNCHANGED quiet
    /\ UNCHANGED <<general, account, shown, fetching, editing, deletingPasskeyId,
                   revokingSessionId, isRevokingOther, tab, pendingDestructive, left>>

\* Mutant: a rename is not patched into the list.
PatchedExceptRename(c) ==
    CASE c.kind = "finish" ->
           [shown EXCEPT !.passkeys = @ \cup {[id |-> c.item, name |-> c.name]}]
      [] c.kind = "deletePasskey" ->
           [shown EXCEPT !.passkeys = {p \in @: p.id # c.item}]
      [] OTHER -> shown

Patched(c) ==
    CASE c.kind = "finish" ->
           [shown EXCEPT !.passkeys = @ \cup {[id |-> c.item, name |-> c.name]}]
      [] c.kind = "rename" ->
           [shown EXCEPT !.passkeys = {IF p.id = c.item THEN [p EXCEPT !.name = c.name]
                                                        ELSE p: p \in @}]
      [] c.kind = "deletePasskey" ->
           [shown EXCEPT !.passkeys = {p \in @: p.id # c.item}]
      [] OTHER -> shown

\* A change succeeded: the list is patched, the events are loaded again.
ChangeLands(c) ==
    /\ c.kind \in {"finish", "rename", "deletePasskey", "revoke"} /\ c.phase = "ok"
    /\ shown' = Patched(c)
    /\ calls' = Listing({"events"} \cap Changes(c.kind), calls \ {c})
    /\ fetching' = [fetching EXCEPT !["events"] = @ \/ "events" \in Changes(c.kind)]
    /\ quiet' = [quiet EXCEPT !["events"] = @ /\ "events" \notin Changes(c.kind)]
    /\ isAddingPasskey' = (isAddingPasskey /\ c.kind # "finish")
    /\ editing' = IF c.kind = "rename" THEN None ELSE editing
    /\ deletingPasskeyId' = IF c.kind = "deletePasskey" THEN None ELSE deletingPasskeyId
    /\ revokingSessionId' = IF c.kind = "revoke" THEN None ELSE revokingSessionId
    /\ pendingDestructive' = IF c.kind \in Destructive THEN Closed ELSE pendingDestructive
    /\ UNCHANGED <<general, account, isRevokingOther, tab, left>>

\* All other sessions are gone: the sessions are loaded before anything else.
RevokedAll(c) ==
    /\ c.kind = "revokeAll" /\ c.phase = "ok"
    /\ LET l == [Request("sessions") EXCEPT !.ends = TRUE, !.clean =
                    ~\E d \in calls \ {c}: "sessions" \in Changes(d.kind)]
       IN  calls' = (calls \ {c}) \cup {l}
    /\ fetching' = [fetching EXCEPT !["sessions"] = TRUE]
    /\ quiet' = [quiet EXCEPT !["sessions"] = FALSE, !["events"] = FALSE]
    /\ UNCHANGED <<general, account, shown, isAddingPasskey, editing, deletingPasskeyId,
                   revokingSessionId, isRevokingOther, tab, pendingDestructive, left>>

RolledBack(c) ==
    IF c.kind = "revoke" THEN [shown EXCEPT !.sessions = c.was] ELSE shown

\* A change failed: a revoked session comes back; the rest stays as it was.
ChangeFails(c) ==
    /\ c.kind \in {"finish", "rename"} \cup Destructive /\ c.phase = "failed"
    /\ shown' = RolledBack(c)
    /\ calls' = calls \ {c}
    /\ isAddingPasskey' = (isAddingPasskey /\ c.kind # "finish")
    /\ deletingPasskeyId' = IF c.kind = "deletePasskey" THEN None ELSE deletingPasskeyId
    /\ revokingSessionId' = IF c.kind = "revoke" THEN None ELSE revokingSessionId
    /\ isRevokingOther' = (isRevokingOther /\ c.kind # "revokeAll")
    /\ pendingDestructive' = IF c.kind \in Destructive THEN Closed ELSE pendingDestructive
    /\ UNCHANGED <<general, account, fetching, editing, quiet, tab, left>>

-----------------------------------------------------------------------------
(* The server, as the requests of this page use it. *)

Answer(c, phase) == (calls \ {c}) \cup {[c EXCEPT !.phase = phase]}

ServeSettings(c) ==
    /\ c.phase = "sent" /\ c.kind \in {"load", "test"} \cup Writes
    /\ stored' = IF c.kind \in Writes
                 THEN [gotify |-> c.cfg.gotify, days |-> c.cfg.days, by |-> c.kind] ELSE stored
    /\ calls' = (calls \ {c}) \cup
           {[c EXCEPT !.phase = "ok",
                      !.cfg = IF c.kind = "load" THEN [gotify |-> stored.gotify,
                                                       days |-> stored.days] ELSE @]}
    /\ UNCHANGED <<loading, form, isSaving, isTesting, banner, faithful, security, tab,
                   pendingDestructive, left>>

ServeList(c) ==
    /\ c.phase = "sent" /\ c.kind \in Lists \cup {"begin"}
    /\ calls' = (calls \ {c}) \cup
           {[c EXCEPT !.phase = "ok",
                      !.out = [l \in Lists |-> IF l = c.kind THEN account[l] ELSE @[l]]]}
    /\ UNCHANGED <<general, security, tab, pendingDestructive, left>>

\* The account after a change, and whether the server accepts it.
Changed(c) ==
    LET a == IF c.kind = "rename" THEN account ELSE [account EXCEPT !.events = @ + 1]
        keys(S) == [a EXCEPT !.passkeys = S]
    IN  CASE c.kind = "finish" -> keys(a.passkeys \cup {[id |-> c.item, name |-> c.name]})
          [] c.kind = "rename" -> keys({IF p.id = c.item THEN [p EXCEPT !.name = c.name]
                                                         ELSE p: p \in a.passkeys})
          [] c.kind = "deletePasskey" -> keys({p \in a.passkeys: p.id # c.item})
          [] c.kind = "revoke" -> [a EXCEPT !.sessions = @ \ {c.item}]
          [] c.kind = "revokeAll" -> [a EXCEPT !.sessions = @ \cap {Current}]

Accepted(c) ==
    /\ c.kind \in {"rename", "deletePasskey"} => c.item \in {p.id: p \in account.passkeys}
    /\ c.kind = "revoke" => c.item \in account.sessions

ServeChange(c) ==
    /\ c.phase = "sent" /\ c.kind \in {"finish", "rename"} \cup Destructive
    /\ account' = IF Accepted(c) THEN Changed(c) ELSE account
    /\ calls' = Answer(c, IF Accepted(c) THEN "ok" ELSE "failed")
    /\ UNCHANGED <<general, shown, fetching, isAddingPasskey, editing, deletingPasskeyId,
                   revokingSessionId, isRevokingOther, quiet, tab, pendingDestructive, left>>

\* A request is refused, or its answer is lost after the server acted on it.
Refuse(c) ==
    /\ c.phase = "sent" /\ Spend("faults")
    /\ calls' = Answer(c, "failed")
    /\ UNCHANGED <<general, security, tab, pendingDestructive>>

Lose(c) ==
    /\ c.phase = "ok" /\ c.kind \in Writes \cup {"finish", "rename"} \cup Destructive
    /\ Spend("faults")
    /\ calls' = Answer(c, "failed")
    /\ faithful' = (faithful /\ c.kind \notin Writes)
    /\ quiet' = [l \in Lists |-> quiet[l] /\ l \notin Changes(c.kind)]
    /\ UNCHANGED <<stored, loading, form, isSaving, isTesting, banner, account, shown, fetching,
                   isAddingPasskey, editing, deletingPasskeyId, revokingSessionId,
                   isRevokingOther, tab, pendingDestructive>>

-----------------------------------------------------------------------------
Init ==
    /\ \E s \in Start:
          /\ stored = [gotify |-> s.cfg.gotify, days |-> s.cfg.days, by |-> "others"]
          /\ account = s.account
    /\ tab = "general" /\ loading = TRUE
    /\ form = [gotify |-> [value |-> Empty, padded |-> FALSE], days |-> DefaultDays]
    /\ isSaving = FALSE /\ isTesting = FALSE /\ banner = {}
    /\ shown = Nowhere /\ fetching = [l \in Lists |-> FALSE]
    /\ isAddingPasskey = FALSE /\ editing = None
    /\ deletingPasskeyId = None /\ revokingSessionId = None /\ isRevokingOther = FALSE
    /\ pendingDestructive = Closed
    /\ calls = {[kind |-> "load", item |-> None, name |-> None, cfg |-> NoConfig,
                 prev |-> DefaultDays, was |-> {}, n |-> 0, phase |-> "sent",
                 out |-> Nowhere, clean |-> TRUE, ends |-> FALSE]}
    /\ faithful = FALSE /\ quiet = [l \in Lists |-> FALSE]
    /\ left = Bound

GeneralStep == Edit \/ handleSave \/ handleRetentionChange \/ handleTestConnection

SecurityStep ==
    \/ SwitchTab \/ (\E l \in Lists: Refresh(l))
    \/ handleAddPasskey \/ EditName \/ handleRenamePasskey
    \/ Arm \/ Dismiss \/ confirmDestructive

Land(c) ==
    \/ LoadLands(c) \/ SaveLands(c) \/ TestLands(c)
    \/ ListLands(c) \/ BeginLands(c) \/ ChangeLands(c) \/ RevokedAll(c) \/ ChangeFails(c)

Serve(c) == ServeSettings(c) \/ ServeList(c) \/ ServeChange(c)

Next ==
    \/ GeneralStep \/ SecurityStep
    \/ \E c \in calls: Serve(c) \/ Land(c) \/ Refuse(c) \/ Lose(c)

\* Every request is answered and every answer handled.
Fairness == WF_vars(\E c \in calls: Serve(c) \/ Land(c))

Spec == Init /\ [][Next]_vars /\ Fairness

-----------------------------------------------------------------------------
(* Properties. *)

\* With nothing in flight and nothing typed since, the form shows what the
\* server stores: a saved text survives its trimming, a retention preset that
\* was refused is put back (Settings.tsx:288-313).
FormAgrees ==
    faithful /\ ~loading /\ ~isSaving =>
        stored.gotify = Trim(form.gotify) /\ stored.days = form.days

\* The page's writes run alone.  The form has one request at a time, and its busy
\* flag is set exactly while it runs, so that a second write never overtakes the
\* first.  "One modal at a time": a destructive request runs behind the locked
\* dialog that asked for it (Settings.tsx:140-149, 393-408).
SingleFlight ==
    LET of(K)   == Cardinality({c \in calls: c.kind \in K})
        running == {c \in calls: c.kind \in Destructive \/ c.ends}
    IN  /\ of(Writes) = (IF isSaving THEN 1 ELSE 0)
        /\ of({"test"}) = (IF isTesting THEN 1 ELSE 0)
        /\ of(Writes \cup {"test"}) <= 1
        /\ Cardinality(running) <= 1
        /\ \A c \in running: /\ pendingDestructive.kind = (IF c.ends THEN "revokeAll" ELSE c.kind)
                             /\ pendingDestructive.item = c.item
                             /\ Locked

\* The lists are patched rather than loaded again; they are still the server's
\* as long as no listing overlapped a change of the same list, no two changes
\* overlapped and no answer was lost.
ListsAgree ==
    \A l \in Lists: quiet[l] /\ ~Changing(l) => shown[l] = account[l]

\* Whatever happens to the requests, the page becomes usable again.
Settles ==
    (loading \/ isSaving \/ isTesting \/ isAddingPasskey \/ Locked)
        ~> ~(loading \/ isSaving \/ isTesting \/ isAddingPasskey \/ Locked)

\* Settings.tsx:288 "the loaded Gotify values ride along unchanged": a
\* retention change leaves the notification settings of the server alone.
RetentionRides ==
    [][stored'.by = "retention" /\ stored' # stored => stored'.gotify = stored.gotify]_vars
=============================================================================
