--------------------------------- MODULE Views ---------------------------------
(***************************************************************************)
(* The views that only read: the log tables, the log drawer, the status    *)
(* polls and the toasts.  Each is mounted by its own route or component    *)
(* and shares no state with the others, so a behaviour follows one of them *)
(* from its mounting; the others stay as they were mounted.                *)
(***************************************************************************)
EXTENDS LogTables, LogsDrawer, StatusPoll, Toasts

VARIABLE view   \* the view that is followed

viewVars == <<view, tableVars, drawerVars, pollVars, toastVars>>

\* Where the views that are not followed stand.
AtRest ==
    /\ view # "table" => table = "audit" /\ totals = CHOOSE t \in Boot : TRUE
    /\ view # "drawer" => options = CHOOSE o \in Options : TRUE
    /\ view # "poll" => hook = "engine" /\ ~hidden /\ ~engine

Init == /\ view \in {"table", "drawer", "poll", "toasts"}
        /\ TablesInit /\ DrawerInit /\ PollInit /\ ToastsInit
        /\ AtRest

Next ==
    \/ view = "table" /\ TablesNext /\ UNCHANGED <<view, drawerVars, pollVars, toastVars>>
    \/ view = "drawer" /\ DrawerNext /\ UNCHANGED <<view, tableVars, pollVars, toastVars>>
    \/ view = "poll" /\ PollNext /\ UNCHANGED <<view, tableVars, drawerVars, toastVars>>
    \/ view = "toasts" /\ ToastsNext /\ UNCHANGED <<view, tableVars, drawerVars, pollVars>>

\* Requests come back, aborts arrive and timers fire, in the view that is
\* followed.
Fairness ==
    /\ WF_tableVars(view = "table" /\ \E r \in requests : ListRows(r) \/ CountRows(r))
    /\ WF_tableVars(view = "table" /\ \E r \in requests : LandTable(r))
    /\ WF_drawerVars(view = "drawer" /\ \E s \in streams : AbortLands(s))
    /\ WF_pollVars(view = "poll" /\ \E c \in checks : AnswerCheck(c))
    /\ WF_pollVars(view = "poll" /\ \E c \in checks : LandCheck(c))
    /\ WF_toastVars(view = "toasts" /\ \E m \in timers : Expire(m))

Spec == Init /\ [][Next]_viewVars /\ Fairness
-----------------------------------------------------------------------------
(* Properties.                                                             *)

\* No log table loads for ever, also when requests fail or overtake each other
\* (the finally blocks of fetchLogs).
LoadingEnds == view = "table" /\ loading ~> ~loading

\* A closed drawer leaves no stream running, also when the container is silent
\* (the abort in the cleanup of the stream effect).
StreamsStop == containerId = NoContainer ~> (streams = {} \/ containerId # NoContainer)

\* The engine pill does not stay in its checking state: the first check, or the
\* one that overtook it, decides (useEngineStatus).
PillDecides ==
    view = "poll" /\ hook = "engine" /\ state.status = "checking"
        ~> (state.status # "checking" \/ ~mounted)

\* Toasts that expire are gone in the end, unless the pointer comes to rest on
\* them: leaving a toast starts its timer again.
ToastsGo == (\E t \in toasts : t.expires /\ ~t.hovered)
               ~> (\A t \in toasts : t.expires => t.hovered)

\* No view stays for ever in a state that is meant to pass: a table that loads, a
\* stream of a closed drawer, a pill that checks, a toast nobody points at.
ViewsSettle == LoadingEnds /\ StreamsStop /\ PillDecides /\ ToastsGo
=============================================================================
