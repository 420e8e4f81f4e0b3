------------------------------ MODULE StatusPoll ------------------------------
(***************************************************************************)
(* The two status polls of the web interface: the engine pill of the       *)
(* sidebar (useEngineStatus) and the Tailscale card of the administration  *)
(* page (useTailscaleStatus).  They share their timers and listeners and   *)
(* differ in what a failed request does: the pill goes offline, the card   *)
(* keeps what it shows.                                                    *)
(*                                                                         *)
(* A check takes the next ticket; an answer whose ticket is not the newest *)
(* is dropped.  Unmounting takes a ticket as well.                         *)
(***************************************************************************)
EXTENDS Naturals

CONSTANTS
    MaxChecks,    \* checks
    MaxTurns      \* changes of the engine, failed requests

ASSUME PollAssumption == MaxChecks \in Nat \ {0} /\ MaxTurns \in Nat

VARIABLES
    hook,         \* which of the two hooks this is
    mounted,
    hidden,       \* document.hidden
    timerRef,     \* does the hook know an interval
    intervals,    \* intervals that are running
    inFlight,     \* newest ticket
    checks,       \* requests on their way
    state,        \* what is shown, and the ticket of the answer it is from
    engine,       \* is the engine (or the node) up
    turns         \* what is left of MaxTurns

pollVars == <<hook, mounted, hidden, timerRef, intervals, inFlight, checks, state, engine, turns>>

listeners == <<mounted, hidden, timerRef, intervals>>

-----------------------------------------------------------------------------
Check == [ticket: 1..MaxChecks, answer: {"none", "online", "offline", "failed"}]

Sent(n) == [ticket |-> n, answer |-> "none"]

PollTypeOK ==
    /\ hook \in {"engine", "tailscale"}
    /\ mounted \in BOOLEAN /\ hidden \in BOOLEAN
    /\ timerRef \in BOOLEAN /\ intervals \in Nat
    /\ inFlight \in 1..(MaxChecks + 1)
    /\ checks \subseteq Check
    /\ state \in [status: {"checking", "online", "offline"}, ticket: 0..MaxChecks]
    /\ engine \in BOOLEAN
    /\ turns \in 0..MaxTurns

\* check() up to its await.
StartCheck ==
    /\ inFlight < MaxChecks
    /\ inFlight' = inFlight + 1
    /\ checks' = checks \cup {Sent(inFlight')}

\* Mutant: a second interval is started while one is known.
SchedulePollAgain == timerRef' = TRUE /\ intervals' = intervals + 1

\* schedulePoll.
SchedulePoll ==
    /\ timerRef' = TRUE
    /\ intervals' = IF timerRef THEN intervals ELSE intervals + 1

\* stopPoll.
StopPoll ==
    /\ timerRef' = FALSE
    /\ intervals' = IF timerRef THEN intervals - 1 ELSE intervals

\* An interval fires; while the document is hidden it does nothing.
PollTick ==
    /\ intervals > 0
    /\ ~hidden
    /\ StartCheck
    /\ UNCHANGED <<hook, listeners, state, engine, turns>>

\* onVisibility.
VisibilityChange ==
    /\ mounted
    /\ hidden' = ~hidden
    /\ IF hidden' THEN StopPoll /\ UNCHANGED <<inFlight, checks>>
                  ELSE StartCheck /\ SchedulePoll
    /\ UNCHANGED <<hook, mounted, state, engine, turns>>

\* onFocus.
Focus ==
    /\ mounted
    /\ StartCheck
    /\ UNCHANGED <<hook, listeners, state, engine, turns>>

\* The cleanup of the effect.
Unmount ==
    /\ mounted
    /\ mounted' = FALSE
    /\ StopPoll
    /\ inFlight' = inFlight + 1
    /\ UNCHANGED <<hook, hidden, checks, state, engine, turns>>

-----------------------------------------------------------------------------
\* The server answers with the state of the engine of that moment.
AnswerCheck(c) ==
    /\ c.answer = "none"
    /\ checks' = (checks \ {c}) \cup
                   {[c EXCEPT !.answer = IF engine THEN "online" ELSE "offline"]}
    /\ UNCHANGED <<hook, listeners, inFlight, state, engine, turns>>

\* The request fails in transport.
FailCheck(c) ==
    /\ c.answer = "none"
    /\ turns > 0 /\ turns' = turns - 1
    /\ checks' = (checks \ {c}) \cup {[c EXCEPT !.answer = "failed"]}
    /\ UNCHANGED <<hook, listeners, inFlight, state, engine>>

EngineTurns ==
    /\ turns > 0 /\ turns' = turns - 1
    /\ engine' = ~engine
    /\ UNCHANGED <<hook, listeners, inFlight, checks, state>>

\* Mutant: the ticket is not compared.
OvertakenNever(c) == FALSE

\* An answer that a later check or the unmounting overtook.
Overtaken(c) == c.ticket # inFlight

\* What is shown after the answer of the newest check.
ShownFor(c) ==
    IF c.answer # "failed" THEN [status |-> c.answer, ticket |-> c.ticket]
    ELSE IF hook = "engine" THEN [status |-> "offline", ticket |-> c.ticket]
    ELSE state

LandCheck(c) ==
    /\ c.answer # "none"
    /\ state' = IF Overtaken(c) THEN state ELSE ShownFor(c)
    /\ checks' = checks \ {c}
    /\ UNCHANGED <<hook, listeners, inFlight, engine, turns>>

-----------------------------------------------------------------------------
\* The mounting effect has run: a first check is on its way and the interval
\* is running, also in a tab opened in the background.
PollInit ==
    /\ hook \in {"engine", "tailscale"}
    /\ mounted = TRUE
    /\ hidden \in BOOLEAN
    /\ timerRef = TRUE /\ intervals = 1
    /\ inFlight = 1 /\ checks = {Sent(1)}
    /\ state = [status |-> "checking", ticket |-> 0]
    /\ engine \in BOOLEAN
    /\ turns = MaxTurns

PollNext ==
    \/ PollTick \/ VisibilityChange \/ Focus \/ Unmount \/ EngineTurns
    \/ \E c \in checks : AnswerCheck(c) \/ FailCheck(c) \/ LandCheck(c)

PollSpec == PollInit /\ [][PollNext]_pollVars

-----------------------------------------------------------------------------
(* Properties.                                                             *)

\* However often the document is hidden and shown, at most one interval runs;
\* it is the one the hook can stop, and none outlives the component.
OneInterval ==
    /\ intervals = IF timerRef THEN 1 ELSE 0
    /\ ~mounted => intervals = 0

StatusSlice == INSTANCE LatestWins WITH issued <- inFlight, shown <- state.ticket

\* useEngineStatus.ts:34 "Ignore responses that were overtaken by a later check
\* or unmount": the status shown only ever turns to the answer of the newest
\* check, and an unmounted hook is not written to.
NewestStatusOnly == StatusSlice!Spec
=============================================================================
