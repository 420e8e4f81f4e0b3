-------------------------------- MODULE Toasts --------------------------------
(***************************************************************************)
(* The notifications of the web interface (ToastContext, ToastContainer):  *)
(* a toast goes away after its duration, unless the pointer rests on it,   *)
(* and at once when it is dismissed.                                       *)
(*                                                                         *)
(* timeoutRef is what the toast knows of its timer; timers are the timers  *)
(* that really run.                                                        *)
(***************************************************************************)
EXTENDS Naturals

CONSTANTS
    MaxToasts,     \* toasts added
    MaxStarts      \* timers started

ASSUME ToastAssumption == MaxToasts \in Nat \ {0} /\ MaxStarts \in Nat \ {0}

VARIABLES
    toasts,        \* on screen: identifier, does it expire, is it hovered, timeoutRef
    timers,        \* running: identifier and number
    added,         \* toasts so far
    started        \* timers so far

toastVars == <<toasts, timers, added, started>>

-----------------------------------------------------------------------------
\* startTimer: the toast with its new timer, the timers with it.
StartTimer(t, others, running) ==
    IF t.expires
    THEN /\ started < MaxStarts
         /\ started' = started + 1
         /\ toasts' = others \cup {[t EXCEPT !.timeoutRef = started']}
         /\ timers' = running \cup {[toast |-> t.id, n |-> started']}
    ELSE toasts' = others \cup {t} /\ timers' = running /\ UNCHANGED started

\* Mutant: clearing a timer forgets it without stopping it.
ClearedTimersNone(t) == timers

\* clearTimer.
ClearedTimers(t) == timers \ {[toast |-> t.id, n |-> t.timeoutRef]}

\* addToast, and the mounting effect of the toast.
AddToast(expires) ==
    /\ added < MaxToasts
    /\ added' = added + 1
    /\ StartTimer([id |-> added', expires |-> expires, hovered |-> FALSE, timeoutRef |-> 0],
                  toasts, timers)

MouseEnter(t) ==
    /\ ~t.hovered
    /\ toasts' = (toasts \ {t}) \cup {[t EXCEPT !.hovered = TRUE, !.timeoutRef = 0]}
    /\ timers' = ClearedTimers(t)
    /\ UNCHANGED <<added, started>>

MouseLeave(t) ==
    /\ t.hovered
    /\ StartTimer([t EXCEPT !.hovered = FALSE], toasts \ {t}, timers)
    /\ UNCHANGED added

\* removeToast, from the close button; the unmounting effect clears the timer.
Dismiss(t) ==
    /\ toasts' = toasts \ {t}
    /\ timers' = ClearedTimers(t)
    /\ UNCHANGED <<added, started>>

\* A timer fires and removes its toast.
Expire(m) ==
    /\ toasts' = {t \in toasts : t.id # m.toast}
    /\ timers' = timers \ {m}
    /\ UNCHANGED <<added, started>>

ToastsInit == toasts = {} /\ timers = {} /\ added = 0 /\ started = 0

ToastsNext ==
    \/ \E b \in BOOLEAN : AddToast(b)
    \/ \E t \in toasts : MouseEnter(t) \/ MouseLeave(t) \/ Dismiss(t)
    \/ \E m \in timers : Expire(m)

ToastsSpec == ToastsInit /\ [][ToastsNext]_toastVars

-----------------------------------------------------------------------------
(* Properties.                                                             *)

\* The timer that runs for a toast is the one it can stop, and a toast under
\* the pointer has none, so that nothing removes it while it is read.
TimersKnown ==
    timers = {[toast |-> t.id, n |-> t.timeoutRef] :
                 t \in {u \in toasts : u.expires /\ ~u.hovered}}
=============================================================================
