----------------------------- MODULE Views_proofs -----------------------------
(***************************************************************************)
(* Proofs about the views that only read, each on its own and composed:    *)
(* the status polls run one interval and implement LatestWins, the log     *)
(* drawer shows the selection only, the timers of the toasts are known,    *)
(* and a log table that has the newest answer shows what is selected.  They *)
(* hold for any number of checks, streams, toasts, filters and requests.   *)
(***************************************************************************)
EXTENDS Views, TLAPS

-----------------------------------------------------------------------------
(* The status polls.                                                       *)

PollInv ==
    /\ timerRef \in BOOLEAN
    /\ inFlight \in Nat
    /\ ~mounted => ~timerRef
    /\ OneInterval

\* A check takes a new ticket.
LEMMA StartCheckIssues ==
    ASSUME inFlight \in Nat, StartCheck
    PROVE  inFlight' = inFlight + 1 /\ inFlight' \in Nat
BY DEF StartCheck

\* Starting and stopping the interval keep the count and the reference together.
LEMMA PollTimers ==
    ASSUME PollInv
    PROVE  /\ SchedulePoll => timerRef' = TRUE /\ intervals' = 1
           /\ StopPoll => timerRef' = FALSE /\ intervals' = 0
BY DEF PollInv, OneInterval, SchedulePoll, StopPoll

\* Every step of the hook keeps its interval known.
LEMMA PollInvNext ==
    ASSUME PollInv, [PollNext]_pollVars
    PROVE  PollInv'
<1> USE DEF listeners
<1>1. ASSUME PollTick \/ Focus
      PROVE  PollInv'
  BY <1>1, StartCheckIssues DEF PollTick, Focus, PollInv, OneInterval
<1>2. ASSUME VisibilityChange
      PROVE  PollInv'
  <2>1. mounted /\ mounted' = mounted
    BY <1>2 DEF VisibilityChange
  <2>2. ASSUME hidden' PROVE PollInv'
    BY <1>2, <2>1, <2>2, PollTimers, Zenon DEF VisibilityChange, PollInv, OneInterval
  <2>3. ASSUME ~hidden' PROVE PollInv'
    BY <1>2, <2>1, <2>3, PollTimers, StartCheckIssues DEF VisibilityChange, PollInv, OneInterval
  <2> QED BY <2>2, <2>3
<1>3. ASSUME Unmount
      PROVE  PollInv'
  BY <1>3, PollTimers DEF Unmount, PollInv, OneInterval
<1>4. ASSUME EngineTurns \/ UNCHANGED pollVars
      PROVE  PollInv'
  BY <1>4 DEF EngineTurns, pollVars, PollInv, OneInterval
<1>5. ASSUME NEW c \in checks, AnswerCheck(c) \/ FailCheck(c) \/ LandCheck(c)
      PROVE  PollInv'
  BY <1>5 DEF AnswerCheck, FailCheck, LandCheck, PollInv, OneInterval
<1> QED BY <1>1, <1>2, <1>3, <1>4, <1>5, Zenon DEF PollNext

\* The invariant of the hook holds always.
LEMMA PollInvAlways == PollSpec => []PollInv
<1>1. PollInit => PollInv
  BY DEF PollInit, PollInv, OneInterval
<1>2. PollInv /\ [PollNext]_pollVars => PollInv'
  BY PollInvNext
<1> QED BY <1>1, <1>2, PTL DEF PollSpec

\* However often the document is hidden, shown and focused, and whenever the
\* component unmounts, at most one interval of a status hook runs, and the
\* hook holds it.
THEOREM PollOneInterval == PollSpec => []OneInterval
<1>1. PollInv => OneInterval
  BY DEF PollInv
<1> QED BY <1>1, PollInvAlways, PTL

\* An answer is shown only with the newest ticket.
LEMMA PollStepIsSlice ==
    ASSUME PollInv, [PollNext]_pollVars
    PROVE  [StatusSlice!Next]_(StatusSlice!lwvars)
<1> USE DEF listeners, StatusSlice!lwvars, StatusSlice!Next
<1>1. ASSUME inFlight' = inFlight + 1, state' = state
      PROVE  StatusSlice!Issue
  BY <1>1 DEF StatusSlice!Issue
<1>2. ASSUME inFlight' = inFlight, state' = state
      PROVE  UNCHANGED StatusSlice!lwvars
  BY <1>2
<1>3. ASSUME PollTick \/ Focus \/ Unmount
      PROVE  inFlight' = inFlight + 1 /\ state' = state
  BY <1>3 DEF PollTick, Focus, Unmount, StartCheck
<1>4. ASSUME VisibilityChange
      PROVE  inFlight' \in {inFlight, inFlight + 1} /\ state' = state
  BY <1>4 DEF VisibilityChange, StartCheck
<1>5. ASSUME EngineTurns \/ UNCHANGED pollVars \/ \E c \in checks : AnswerCheck(c) \/ FailCheck(c)
      PROVE  inFlight' = inFlight /\ state' = state
  BY <1>5 DEF EngineTurns, AnswerCheck, FailCheck, pollVars
<1>6. ASSUME NEW c \in checks, LandCheck(c), ~(inFlight' = inFlight /\ state' = state)
      PROVE  StatusSlice!Show
  <2>1. c.ticket = inFlight /\ state' = ShownFor(c) /\ inFlight' = inFlight
    BY <1>6 DEF LandCheck, Overtaken
  <2>2. ShownFor(c).ticket = c.ticket \/ ShownFor(c) = state
    BY DEF ShownFor
  <2> QED BY <1>6, <2>1, <2>2 DEF StatusSlice!Show
<1> QED BY <1>1, <1>2, <1>3, <1>4, <1>5, <1>6 DEF PollNext

\* useEngineStatus.ts:34: a response that was overtaken by a later check or
\* by the unmounting is never shown.
THEOREM PollNewestStatusOnly == PollSpec => NewestStatusOnly
<1>1. PollInit => StatusSlice!Init
  BY DEF PollInit, StatusSlice!Init
<1>2. PollInv /\ [PollNext]_pollVars => [StatusSlice!Next]_(StatusSlice!lwvars)
  BY PollStepIsSlice
<1> QED BY <1>1, <1>2, PollInvAlways, PTL DEF PollSpec, NewestStatusOnly, StatusSlice!Spec

-----------------------------------------------------------------------------
(* The log drawer.                                                         *)

Shapes ==
    /\ containerId \in Containers \cup {NoContainer}
    /\ streams \subseteq Stream
    /\ opened \in 0..MaxStreams

\* The stream that is subscribed is the one for the selection; there is only
\* one, and none while the drawer is closed.
Subscribed ==
    /\ \A s \in streams : s.isSubscribed =>
          s.con = containerId /\ s.opt = options /\ containerId # NoContainer
    /\ \A s, t \in streams : s.isSubscribed /\ t.isSubscribed => s = t

ClosedIsEmpty == containerId = NoContainer => screen = {}

DrawerInv == Shapes /\ Subscribed /\ ClosedIsEmpty /\ OnlySelectedLines /\ BadgeTells

\* What the cleanup leaves of the streams.
LEMMA CleanedUpStreams ==
    ASSUME Shapes
    PROVE  CleanedUp \subseteq Stream /\ \A s \in CleanedUp : ~s.isSubscribed
BY Zenon DEF Shapes, CleanedUp, Stream

\* The effect leaves one subscribed stream, for the given selection.
LEMMA EffectSubscribes ==
    ASSUME DrawerAssumption, DrawerInv,
           NEW con \in Containers, NEW opt \in Options, RunStreamEffect(con, opt),
           containerId' = con, options' = opt
    PROVE  DrawerInv'
<1> DEFINE new == [n |-> opened + 1, con |-> con, opt |-> opt, phase |-> "connecting",
                   isSubscribed |-> TRUE, aborted |-> FALSE]
<1>1. /\ opened < MaxStreams /\ opened' = opened + 1 /\ streams' = CleanedUp \cup {new}
      /\ status' = "connecting" /\ screen' = {}
  BY DEF RunStreamEffect
<1>2. opened' \in 1..MaxStreams
  BY <1>1 DEF DrawerInv, Shapes, DrawerAssumption
<1>3. new \in Stream
  BY <1>1, <1>2 DEF Stream, StreamPhases
<1>4. new.isSubscribed /\ new.con = con /\ new.opt = opt /\ new.phase = "connecting"
  OBVIOUS
<1> HIDE DEF new
<1>5. CleanedUp \subseteq Stream /\ \A s \in CleanedUp : ~s.isSubscribed
  BY CleanedUpStreams DEF DrawerInv
<1>6. Shapes'
  BY <1>1, <1>2, <1>3, <1>5 DEF Shapes
<1>7. Subscribed'
  BY <1>1, <1>4, <1>5 DEF Subscribed, DrawerAssumption
<1>8. ClosedIsEmpty' /\ OnlySelectedLines'
  BY <1>1 DEF ClosedIsEmpty, OnlySelectedLines
<1>9. BadgeTells'
  BY <1>1, <1>4 DEF BadgeTells
<1> QED BY <1>6, <1>7, <1>8, <1>9 DEF DrawerInv

\* A stream that is over leaves the badge with a word of its own, if it was
\* the subscribed one.
LEMMA StreamLeaves ==
    ASSUME DrawerInv, NEW s \in streams, NEW word \in {"disconnected", "error"},
           streams' = streams \ {s}, status' = Reported(s, word),
           UNCHANGED <<containerId, options, screen, opened>>
    PROVE  DrawerInv'
<1>1. Shapes' /\ Subscribed' /\ ClosedIsEmpty' /\ OnlySelectedLines'
  BY DEF DrawerInv, Shapes, Subscribed, ClosedIsEmpty, OnlySelectedLines
<1>2. CASE s.isSubscribed
  <2>1. \A t \in streams' : ~t.isSubscribed
    BY <1>2 DEF DrawerInv, Subscribed
  <2>2. status' = word
    BY <1>2 DEF Reported
  <2> QED BY <1>1, <2>1, <2>2 DEF DrawerInv, BadgeTells
<1>3. CASE ~s.isSubscribed
  <2>1. status' = status
    BY <1>3 DEF Reported
  <2>2. BadgeTells'
    BY <1>3, <2>1 DEF DrawerInv, BadgeTells
  <2> QED BY <1>1, <2>2 DEF DrawerInv
<1> QED BY <1>2, <1>3

\* The subscribed stream is set up, or a replaced one notices.
LEMMA DrawerInvConnect ==
    ASSUME DrawerInv, NEW s \in streams, Connect(s)
    PROVE  DrawerInv'
<1>0. UNCHANGED <<containerId, options, screen, opened>> /\ s \in Stream
  BY DEF Connect, DrawerInv, Shapes
<1>1. CASE s.isSubscribed
  <2> DEFINE new == [s EXCEPT !.phase = "streaming"]
  <2>1. streams' = (streams \ {s}) \cup {new} /\ status' = "streaming"
    BY <1>1 DEF Connect, Reported
  <2>2. new \in Stream
    BY <1>0 DEF Stream, StreamPhases
  <2>3. new.con = s.con /\ new.opt = s.opt /\ new.phase = "streaming"
    BY <1>0 DEF Stream
  <2>4. new.isSubscribed
    BY <1>0, <1>1 DEF Stream
  <2> HIDE DEF new
  <2>5. \A t \in streams \ {s} : ~t.isSubscribed
    BY <1>1 DEF DrawerInv, Subscribed
  <2>6. Shapes' /\ ClosedIsEmpty' /\ OnlySelectedLines'
    BY <1>0, <2>1, <2>2 DEF DrawerInv, Shapes, ClosedIsEmpty, OnlySelectedLines
  <2>7. Subscribed'
    BY <1>0, <1>1, <2>1, <2>3, <2>5 DEF DrawerInv, Subscribed
  <2>8. BadgeTells'
    BY <2>1, <2>3, <2>4 DEF BadgeTells
  <2> QED BY <2>6, <2>7, <2>8 DEF DrawerInv
<1>2. CASE ~s.isSubscribed
  <2>1. streams' = streams \ {s} /\ status' = Reported(s, "error")
    BY <1>2 DEF Connect, Reported
  <2> QED BY <1>0, <2>1, StreamLeaves
<1> QED BY <1>1, <1>2

\* A line is written for the subscribed stream only, which is the selection's.
LEMMA DrawerInvChunk ==
    ASSUME DrawerInv, NEW s \in streams, Chunk(s)
    PROVE  DrawerInv'
<1>0. UNCHANGED <<containerId, options, status, opened>>
  BY DEF Chunk
<1>1. CASE s.isSubscribed
  <2>1. s.con = containerId /\ s.opt = options /\ containerId # NoContainer
    BY <1>1 DEF DrawerInv, Subscribed
  <2>2. streams' = streams /\ screen' = screen \cup {[con |-> containerId, opt |-> options]}
    BY <1>1, <2>1 DEF Chunk, Written
  <2>3. Shapes' /\ Subscribed' /\ ClosedIsEmpty' /\ OnlySelectedLines'
    BY <1>0, <2>1, <2>2 DEF DrawerInv, Shapes, Subscribed, ClosedIsEmpty, OnlySelectedLines
  <2>4. BadgeTells'
    BY <1>0, <2>2 DEF DrawerInv, BadgeTells
  <2> QED BY <2>3, <2>4 DEF DrawerInv
<1>2. CASE ~s.isSubscribed
  <2>1. streams' = streams \ {s} /\ screen' = screen /\ status' = Reported(s, "error")
    BY <1>0, <1>2 DEF Chunk, Written, Reported
  <2> QED BY <1>0, <2>1, StreamLeaves
<1> QED BY <1>1, <1>2

\* Every step of the drawer keeps the invariant.
LEMMA DrawerInvNext ==
    ASSUME DrawerAssumption, DrawerInv, options \in Options, [DrawerNext]_drawerVars
    PROVE  DrawerInv' /\ options' \in Options
<1>1. ASSUME NEW con \in Containers, OpenDrawer(con)
      PROVE  DrawerInv' /\ options' \in Options
  BY <1>1, EffectSubscribes DEF OpenDrawer
<1>2. ASSUME NEW opt \in Options, PickOptions(opt)
      PROVE  DrawerInv' /\ options' \in Options
  <2>1. containerId \in Containers
    BY <1>2 DEF PickOptions, DrawerInv, Shapes
  <2> QED BY <1>2, <2>1, EffectSubscribes DEF PickOptions
<1>3. ASSUME NEW opt \in Options, PickOptionsClosed(opt)
      PROVE  DrawerInv' /\ options' \in Options
  BY <1>3 DEF PickOptionsClosed, DrawerInv, Shapes, Subscribed, ClosedIsEmpty,
              OnlySelectedLines, BadgeTells
<1>4. ASSUME CloseDrawer
      PROVE  DrawerInv' /\ options' \in Options
  <2>1. CleanedUp \subseteq Stream /\ \A s \in CleanedUp : ~s.isSubscribed
    BY CleanedUpStreams DEF DrawerInv
  <2>2. Shapes' /\ Subscribed' /\ options' = options
    BY <1>4, <2>1 DEF CloseDrawer, DrawerInv, Shapes, Subscribed
  <2>3. ClosedIsEmpty' /\ OnlySelectedLines' /\ BadgeTells'
    BY <1>4 DEF CloseDrawer, ClosedIsEmpty, OnlySelectedLines, BadgeTells
  <2> QED BY <2>2, <2>3 DEF DrawerInv
<1>5. ASSUME ClearScreen \/ UNCHANGED drawerVars
      PROVE  DrawerInv' /\ options' \in Options
  BY <1>5 DEF ClearScreen, drawerVars, DrawerInv, Shapes, Subscribed, ClosedIsEmpty,
              OnlySelectedLines, BadgeTells
<1>6. ASSUME NEW s \in streams,
             Connect(s) \/ Chunk(s) \/ StreamCloses(s) \/ StreamBreaks(s) \/ AbortLands(s)
      PROVE  DrawerInv' /\ options' = options
  <2>1. options' = options
    BY <1>6 DEF Connect, Chunk, StreamCloses, StreamBreaks, AbortLands
  <2>2. CASE Connect(s) \/ Chunk(s)
    BY <2>1, <2>2, DrawerInvConnect, DrawerInvChunk
  <2>3. CASE StreamCloses(s) \/ StreamBreaks(s) \/ AbortLands(s)
    BY <2>1, <2>3, StreamLeaves DEF StreamCloses, StreamBreaks, AbortLands
  <2> QED BY <1>6, <2>2, <2>3
<1> QED BY <1>1, <1>2, <1>3, <1>4, <1>5, <1>6, Zenon DEF DrawerNext

\* The invariant of the drawer holds always.
LEMMA DrawerInvAlways == DrawerSpec => []DrawerInv
<1>1. DrawerInit => DrawerInv /\ options \in Options
  BY DrawerAssumption DEF DrawerInit, DrawerInv, Shapes, Subscribed, ClosedIsEmpty,
     OnlySelectedLines, BadgeTells, DrawerAssumption
<1>2. (DrawerInv /\ options \in Options) /\ [DrawerNext]_drawerVars
         => (DrawerInv /\ options \in Options)'
  BY DrawerAssumption, DrawerInvNext
<1> QED BY <1>1, <1>2, PTL DEF DrawerSpec

\* The terminal shows lines of the selected container with the selected
\* options only, whatever replaced streams still deliver.
THEOREM DrawerOnlySelectedLines == DrawerSpec => []OnlySelectedLines
<1>1. DrawerInv => OnlySelectedLines
  BY DEF DrawerInv
<1> QED BY <1>1, DrawerInvAlways, PTL

\* While the drawer is open its badge tells the state of the stream of the
\* selection.
THEOREM DrawerBadgeTells == DrawerSpec => []BadgeTells
<1>1. DrawerInv => BadgeTells
  BY DEF DrawerInv
<1> QED BY <1>1, DrawerInvAlways, PTL

-----------------------------------------------------------------------------
(* The toasts.                                                             *)

Toast == [id: Nat, expires: BOOLEAN, hovered: BOOLEAN, timeoutRef: Nat]

\* The identifiers are in use once, so that a timer names one toast.
ToastsInv ==
    /\ added \in Nat /\ started \in Nat
    /\ toasts \subseteq Toast
    /\ \A t \in toasts : t.id <= added
    /\ \A t, u \in toasts : t.id = u.id => t = u
    /\ TimersKnown

\* The timers of a set of toasts, as TimersKnown counts them.
TimersOf(set) ==
    {[toast |-> t.id, n |-> t.timeoutRef] : t \in {u \in set : u.expires /\ ~u.hovered}}

\* A timer that starts for a toast the pointer does not rest on is known to it.
LEMMA StartTimerKnown ==
    ASSUME started \in Nat,
           NEW t \in Toast, ~t.hovered,
           NEW others \in SUBSET Toast,
           NEW running, running = TimersOf(others),
           StartTimer(t, others, running)
    PROVE  /\ started' \in Nat
           /\ \E u \in Toast : u.id = t.id /\ toasts' = others \cup {u}
           /\ TimersKnown'
<1>1. CASE t.expires
  <2> DEFINE u == [t EXCEPT !.timeoutRef = started + 1]
  <2>1. /\ started' = started + 1
        /\ toasts' = others \cup {u}
        /\ timers' = running \cup {[toast |-> t.id, n |-> started + 1]}
    BY <1>1 DEF StartTimer
  <2>2. /\ u \in Toast /\ u.id = t.id /\ u.expires /\ ~u.hovered
        /\ u.timeoutRef = started + 1
    BY <1>1 DEF Toast
  <2> HIDE DEF u
  <2>3. TimersOf(others \cup {u}) = TimersOf(others) \cup {[toast |-> u.id, n |-> u.timeoutRef]}
    BY <2>2 DEF TimersOf
  <2>4. TimersKnown'
    BY <2>1, <2>2, <2>3 DEF TimersKnown, TimersOf
  <2> QED BY <2>1, <2>2, <2>4
<1>2. CASE ~t.expires
  <2>1. started' = started /\ toasts' = others \cup {t} /\ timers' = running
    BY <1>2 DEF StartTimer
  <2>2. TimersOf(others \cup {t}) = TimersOf(others)
    BY <1>2 DEF TimersOf
  <2> QED BY <2>1, <2>2 DEF TimersKnown, TimersOf
<1> QED BY <1>1, <1>2

\* Clearing the timer of a toast leaves the timers of the others.
LEMMA ClearedTimersKnown ==
    ASSUME ToastsInv, NEW t \in toasts
    PROVE  ClearedTimers(t) = TimersOf(toasts \ {t})
<1>1. timers = TimersOf(toasts)
  BY DEF ToastsInv, TimersKnown, TimersOf
<1>2. \A u \in toasts \ {t} : u.id # t.id
  BY DEF ToastsInv
<1> QED BY <1>1, <1>2 DEF TimersOf, ClearedTimers

\* Every step keeps the timers known.
LEMMA ToastsInvNext ==
    ASSUME ToastsInv, [ToastsNext]_toastVars
    PROVE  ToastsInv'
<1>1. ASSUME NEW b \in BOOLEAN, AddToast(b)
      PROVE  ToastsInv'
  <2> DEFINE t == [id |-> added + 1, expires |-> b, hovered |-> FALSE, timeoutRef |-> 0]
  <2>1. added' = added + 1 /\ StartTimer(t, toasts, timers)
    BY <1>1 DEF AddToast
  <2>2. t \in Toast /\ t.id = added + 1 /\ ~t.hovered
    BY DEF ToastsInv, Toast
  <2> HIDE DEF t
  <2>3. timers = TimersOf(toasts) /\ started \in Nat /\ toasts \in SUBSET Toast
    BY DEF ToastsInv, TimersKnown, TimersOf
  <2>4. /\ started' \in Nat /\ TimersKnown'
        /\ \E u \in Toast : u.id = t.id /\ toasts' = toasts \cup {u}
    BY <2>1, <2>2, <2>3, StartTimerKnown
  <2>5. PICK u \in Toast : u.id = added + 1 /\ toasts' = toasts \cup {u}
    BY <2>2, <2>4
  <2> QED BY <2>1, <2>4, <2>5 DEF ToastsInv, Toast
<1>2. ASSUME NEW t \in toasts, MouseEnter(t)
      PROVE  ToastsInv'
  <2> DEFINE u == [t EXCEPT !.hovered = TRUE, !.timeoutRef = 0]
  <2>1. /\ toasts' = (toasts \ {t}) \cup {u} /\ timers' = ClearedTimers(t)
        /\ added' = added /\ started' = started
    BY <1>2 DEF MouseEnter
  <2>2. u \in Toast /\ u.id = t.id /\ u.hovered
    BY Zenon DEF ToastsInv, Toast
  <2> HIDE DEF u
  <2>3. TimersOf(toasts \ {t}) = TimersOf((toasts \ {t}) \cup {u})
    BY <2>2 DEF TimersOf
  <2>4. TimersKnown'
    BY <2>1, <2>3, ClearedTimersKnown DEF TimersKnown, TimersOf
  <2> QED BY <2>1, <2>2, <2>4 DEF ToastsInv
<1>3. ASSUME NEW t \in toasts, MouseLeave(t)
      PROVE  ToastsInv'
  <2> DEFINE s == [t EXCEPT !.hovered = FALSE]
  <2>1. t.hovered /\ added' = added /\ StartTimer(s, toasts \ {t}, timers)
    BY <1>3 DEF MouseLeave
  <2>2. s \in Toast /\ s.id = t.id /\ ~s.hovered
    BY Zenon DEF ToastsInv, Toast
  <2> HIDE DEF s
  <2>3. timers = TimersOf(toasts \ {t}) /\ started \in Nat /\ toasts \ {t} \in SUBSET Toast
    BY <2>1 DEF ToastsInv, TimersKnown, TimersOf
  <2>4. /\ started' \in Nat /\ TimersKnown'
        /\ \E u \in Toast : u.id = s.id /\ toasts' = (toasts \ {t}) \cup {u}
    BY <2>1, <2>2, <2>3, StartTimerKnown
  <2>5. PICK u \in Toast : u.id = t.id /\ toasts' = (toasts \ {t}) \cup {u}
    BY <2>2, <2>4
  <2> QED BY <2>1, <2>4, <2>5 DEF ToastsInv
<1>4. ASSUME NEW t \in toasts, Dismiss(t)
      PROVE  ToastsInv'
  <2>1. /\ toasts' = toasts \ {t} /\ timers' = ClearedTimers(t)
        /\ added' = added /\ started' = started
    BY <1>4 DEF Dismiss
  <2>2. TimersKnown'
    BY <2>1, ClearedTimersKnown DEF TimersKnown, TimersOf
  <2> QED BY <2>1, <2>2 DEF ToastsInv
<1>5. ASSUME NEW m \in timers, Expire(m)
      PROVE  ToastsInv'
  <2>1. PICK t \in toasts : t.expires /\ ~t.hovered /\ m = [toast |-> t.id, n |-> t.timeoutRef]
    BY DEF ToastsInv, TimersKnown
  <2>2. m.toast = t.id
    BY <2>1
  <2>3. {u \in toasts : u.id # m.toast} = toasts \ {t}
    BY <2>2 DEF ToastsInv
  <2>4. /\ toasts' = toasts \ {t} /\ timers' = ClearedTimers(t)
        /\ added' = added /\ started' = started
    BY <1>5, <2>1, <2>3 DEF Expire, ClearedTimers
  <2>5. TimersKnown'
    BY <2>4, ClearedTimersKnown DEF TimersKnown, TimersOf
  <2> QED BY <2>4, <2>5 DEF ToastsInv
<1>6. ASSUME UNCHANGED toastVars
      PROVE  ToastsInv'
  BY <1>6 DEF toastVars, ToastsInv, TimersKnown
<1> QED BY <1>1, <1>2, <1>3, <1>4, <1>5, <1>6, Zenon DEF ToastsNext

\* However toasts come, are pointed at, left, dismissed and expire, the timers
\* that run are those of the toasts that wait, each known to its toast.
THEOREM ToastsTimersKnown == ToastsSpec => []TimersKnown
<1>1. ToastsInit => ToastsInv
  BY DEF ToastsInit, ToastsInv, TimersKnown
<1>2. ToastsInv /\ [ToastsNext]_toastVars => ToastsInv'
  BY ToastsInvNext
<1>3. ToastsInv => TimersKnown
  BY DEF ToastsInv
<1> QED BY <1>1, <1>2, <1>3, PTL DEF ToastsSpec

-----------------------------------------------------------------------------
(* The log tables.                                                         *)

\* A page that shows entries, or the first page.
InRange(page, total) == page = 0 \/ page * PageSize < total

Answers == [rows: Nat, total: Nat, listed: Nat]

TablesShapes ==
    LET Asked == [query: Queries, facet: Facets, page: Nat]
    IN  /\ queryInput \in Queries
        /\ args \in Asked
        /\ issued \in Nat
        /\ requests \subseteq [n: Nat, args: Asked, silent: BOOLEAN,
                               state: {"sent", "listed", "served", "failed"},
                               answer: Answers]
        /\ entries \in [n: Nat, args: Asked, answer: Answers]
        /\ totals \in [Filter -> Nat]

\* Requests are numbered, and the newest asks for what is selected, from the
\* interval too.
NewestAsks ==
    /\ ticker # Never => ticker = args
    /\ \A r \in requests : r.n <= issued /\ (r.n = issued => r.args = args)
    /\ \A r, s \in requests : r.n = s.n => r = s
    /\ entries.n <= issued
    /\ entries.n = issued => entries.args = args

\* The rows of an answer are a page of what the server held when it listed
\* them, and no more than it holds now.
Listed(answer, page, there) ==
    answer.listed <= there /\ answer.rows = PageOf(answer.listed, page)

\* A complete answer: the total was counted later than the rows were listed,
\* and has the page.
Complete(answer, page, there) ==
    /\ Listed(answer, page, answer.total)
    /\ answer.total <= there
    /\ InRange(page, answer.total)

\* While the answers come in order and no total shrinks, one request is on its
\* way, and the page that is selected exists in what the server holds, in the
\* answer on its way and in the answer on screen.
PagerInRange ==
    table = "audit" /\ steady =>
        LET there == totals[FilterOf(args)]
        IN  /\ InRange(args.page, there)
            /\ \A r \in requests :
                  /\ r.n = issued /\ r.state # "failed"
                  /\ r.state = "listed" => Listed(r.answer, args.page, there)
                  /\ r.state = "served" => Complete(r.answer, args.page, there)
            /\ requests = {} => entries.n = issued
            /\ entries.n = issued => Complete(entries.answer, args.page, there)

TablesInv == TablesShapes /\ NewestAsks /\ PagerInRange

\* A page number is below the number of pages when its first entry exists.
LEMMA PagesCount ==
    ASSUME NEW P \in Nat \ {0}, NEW total \in Nat, NEW page \in Nat
    PROVE  page < (total + P - 1) \div P <=> page * P < total
OBVIOUS

\* The page before one that exists exists.
LEMMA EarlierPage ==
    ASSUME NEW P \in Nat \ {0}, NEW total \in Nat, NEW page \in Nat, page > 0,
           page * P < total
    PROVE  (page - 1) * P < total
OBVIOUS

\* A larger total keeps a page in range.
LEMMA InRangeGrows ==
    ASSUME NEW page \in Nat, NEW total \in Nat, NEW more \in Nat,
           InRange(page, total), total <= more
    PROVE  InRange(page, more)
BY TablesAssumption DEF InRange

\* A request for what is selected keeps the invariant, when its page is in
\* range or the answers were out of order.
LEMMA FetchKeepsInv ==
    ASSUME TablesInv,
           NEW a \in [query: Queries, facet: Facets, page: Nat],
           NEW silent \in BOOLEAN,
           Fetch(a, silent), args' = a,
           ticker' # Never => ticker' = a,
           queryInput' \in Queries,
           UNCHANGED <<table, entries, totals>>,
           table = "audit" /\ steady /\ requests = {} => InRange(a.page, totals[FilterOf(a)])
    PROVE  TablesInv'
<1> DEFINE new == [n |-> issued + 1, args |-> a, silent |-> silent, state |-> "sent",
                   answer |-> NoAnswer]
<1>1. issued' = issued + 1 /\ requests' = requests \cup {new}
  BY DEF Fetch
<1>2. steady' = (steady /\ requests = {})
  BY DEF Fetch
<1>3. issued \in Nat /\ entries.n <= issued /\ entries.n \in Nat
  BY DEF TablesInv, TablesShapes, NewestAsks
<1>4. TablesShapes'
  <2>1. NoAnswer \in Answers
    BY DEF NoAnswer, Answers
  <2> HIDE DEF NoAnswer, Answers
  <2> QED BY <1>1, <2>1 DEF TablesInv, TablesShapes
<1>5. \A r \in requests : r.n \in Nat /\ r.n < issued + 1
  BY <1>3 DEF TablesInv, TablesShapes, NewestAsks
<1>6. NewestAsks'
  BY <1>1, <1>3, <1>5 DEF TablesInv, NewestAsks
<1>7. PagerInRange'
  <2> SUFFICES ASSUME table = "audit", steady, requests = {}
               PROVE  PagerInRange'
    BY <1>2, Zenon DEF PagerInRange
  <2>1. requests' = {new} /\ new.n = issued' /\ new.state = "sent" /\ entries'.n # issued'
    BY <1>1, <1>3
  <2>2. InRange(args.page, totals[FilterOf(args)])'
    BY DEF InRange, FilterOf
  <2> HIDE DEF new
  <2> QED BY <2>1, <2>2 DEF PagerInRange
<1> QED BY <1>4, <1>6, <1>7 DEF TablesInv

\* So does a render with new filters or a new page.
LEMMA CommitKeepsInv ==
    ASSUME TablesInv,
           NEW a \in [query: Queries, facet: Facets, page: Nat],
           Commit(a),
           queryInput' \in Queries,
           UNCHANGED <<table, entries, totals>>,
           table = "audit" /\ steady /\ requests = {} => InRange(a.page, totals[FilterOf(a)])
    PROVE  TablesInv'
<1>1. CASE a = args
  BY <1>1 DEF Commit, TablesInv, TablesShapes, NewestAsks, PagerInRange
<1>2. CASE a # args
  <2>1. args' = a /\ ticker' = Restarted(a) /\ Fetch(a, FALSE)
    BY <1>2, Zenon DEF Commit
  <2> QED BY <2>1, FetchKeepsInv, Zenon DEF Restarted
<1> QED BY <1>1, <1>2

\* The next page is enabled only when the answer on screen has it, and that
\* answer is the newest when the answers are in order.
LEMMA TurnedInRange ==
    ASSUME TablesInv, table = "audit", steady, requests = {}
    PROVE  /\ NextEnabled => InRange(args.page + 1, totals[FilterOf(args)])
           /\ PrevEnabled => InRange(args.page - 1, totals[FilterOf(args)])
<1> DEFINE there == totals[FilterOf(args)]
<1>1. /\ InRange(args.page, there)
      /\ entries.n = issued
      /\ entries.answer.total <= there
  BY DEF TablesInv, PagerInRange, Complete
<1>2. /\ args.page \in Nat /\ entries.answer.total \in Nat
      /\ there \in Nat
      /\ PageSize \in Nat \ {0}
  <2>1. entries.answer \in Answers /\ args.page \in Nat /\ there \in Nat
    BY Zenon DEF TablesInv, TablesShapes, Filter, FilterOf
  <2> QED BY <2>1, TablesAssumption DEF Answers
<1> HIDE DEF there
<1>3. ASSUME NextEnabled
      PROVE  InRange(args.page + 1, there)
  <2>1. args.page + 1 < Pages
    BY <1>3 DEF NextEnabled
  <2>2. entries.answer.total # 0 /\ Pages = (entries.answer.total + PageSize - 1) \div PageSize
    BY <1>2, <2>1 DEF Pages
  <2>3. (args.page + 1) * PageSize < entries.answer.total
    <3> DEFINE total == entries.answer.total
               next == args.page + 1
    <3>1. total \in Nat /\ next \in Nat /\ next < (total + PageSize - 1) \div PageSize
      BY <1>2, <2>1, <2>2
    <3> HIDE DEF total, next
    <3>2. next * PageSize < total
      BY <1>2, <3>1, PagesCount, Zenon
    <3> QED BY <3>2 DEF total, next
  <2>4. InRange(args.page + 1, entries.answer.total)
    BY <2>3 DEF InRange
  <2> QED BY <1>1, <1>2, <2>4, InRangeGrows
<1>4. ASSUME PrevEnabled
      PROVE  InRange(args.page - 1, there)
  BY <1>1, <1>2, <1>4, EarlierPage DEF PrevEnabled, InRange
<1> QED BY <1>3, <1>4 DEF there

\* The steps that ask: typing, filtering, turning a page, refreshing.
LEMMA AskingKeepsInv ==
    ASSUME TablesInv,
           \/ \E q \in Queries : TypeQuery(q)
           \/ \E f \in Facets : PickFacet(f)
           \/ DebounceFires \/ TurnPage \/ RefreshTable \/ RefreshTick
    PROVE  TablesInv'
<1> DEFINE Asked == [query: Queries, facet: Facets, page: Nat]
<1>1. args \in Asked /\ queryInput \in Queries
  BY DEF TablesInv, TablesShapes
<1>2. table = "audit" /\ steady => InRange(args.page, totals[FilterOf(args)])
  BY DEF TablesInv, PagerInRange
<1>3. ASSUME NEW q \in Queries, TypeQuery(q)
      PROVE  TablesInv'
  <2>1. CASE table = "system"
    <3>1. [args EXCEPT !.query = q] \in Asked /\ table # "audit"
      BY <1>1, <2>1
    <3>2. /\ Commit([args EXCEPT !.query = q])
          /\ queryInput' = q
          /\ UNCHANGED <<table, entries, totals>>
      BY <1>3, <2>1 DEF TypeQuery
    <3> QED BY <3>1, <3>2, CommitKeepsInv
  <2>2. CASE table # "system"
    BY <1>3, <2>2 DEF TypeQuery, TablesInv, TablesShapes, NewestAsks, PagerInRange
  <2> QED BY <2>1, <2>2
<1>4. ASSUME NEW f \in Facets, PickFacet(f)
      PROVE  TablesInv'
  <2>1. Refiltered(f) \in Asked /\ InRange(Refiltered(f).page, totals[FilterOf(Refiltered(f))])
    BY <1>1, Zenon DEF Refiltered, InRange
  <2>2. Commit(Refiltered(f)) /\ UNCHANGED <<table, queryInput, entries, totals>>
    BY <1>4 DEF PickFacet
  <2> QED BY <1>1, <2>1, <2>2, CommitKeepsInv
<1>5. ASSUME DebounceFires
      PROVE  TablesInv'
  <2> DEFINE a == [args EXCEPT !.query = queryInput, !.page = 0]
  <2>1. a \in Asked /\ InRange(a.page, totals[FilterOf(a)])
    BY <1>1, Zenon DEF InRange
  <2>2. Commit(a) /\ UNCHANGED <<table, queryInput, entries, totals>>
    BY <1>5 DEF DebounceFires
  <2> HIDE DEF a
  <2> QED BY <1>1, <2>1, <2>2, CommitKeepsInv
<1>6. ASSUME TurnPage
      PROVE  TablesInv'
  <2>1. table = "audit" /\ UNCHANGED <<table, queryInput, entries, totals>>
    BY <1>6 DEF TurnPage
  <2>2. ASSUME NextEnabled, Commit([args EXCEPT !.page = @ + 1])
        PROVE  TablesInv'
    <3> DEFINE a == [args EXCEPT !.page = @ + 1]
    <3>1. a \in Asked /\ a.page = args.page + 1 /\ FilterOf(a) = FilterOf(args)
      BY <1>1 DEF FilterOf
    <3>2. Commit(a)
      BY <2>2
    <3> HIDE DEF a
    <3> QED BY <1>1, <2>1, <2>2, <3>1, <3>2, TurnedInRange, CommitKeepsInv
  <2>3. ASSUME PrevEnabled, Commit([args EXCEPT !.page = @ - 1])
        PROVE  TablesInv'
    <3> DEFINE a == [args EXCEPT !.page = @ - 1]
    <3>1. a \in Asked /\ a.page = args.page - 1 /\ FilterOf(a) = FilterOf(args)
      BY <1>1, <2>3 DEF FilterOf, PrevEnabled
    <3>2. Commit(a)
      BY <2>3
    <3> HIDE DEF a
    <3> QED BY <1>1, <2>1, <2>3, <3>1, <3>2, TurnedInRange, CommitKeepsInv
  <2> QED BY <1>6, <2>2, <2>3 DEF TurnPage
<1>7. ASSUME RefreshTable \/ RefreshTick
      PROVE  TablesInv'
  <2>1. ticker # Never => ticker = args
    BY DEF TablesInv, NewestAsks
  <2>2. /\ Fetch(args, FALSE) \/ Fetch(args, TRUE)
        /\ UNCHANGED <<table, queryInput, args, ticker, entries, totals>>
    BY <1>7, <2>1, Zenon DEF RefreshTable, RefreshTick
  <2> QED BY <1>1, <1>2, <2>1, <2>2, FetchKeepsInv, Zenon
<1> QED BY <1>3, <1>4, <1>5, <1>6, <1>7, Zenon

\* A page of a result is a number of rows.
LEMMA PageIsNat ==
    ASSUME NEW total \in Nat, NEW page \in Nat
    PROVE  PageOf(total, page) \in Nat
<1> DEFINE offset == page * PageSize
<1>1. offset \in Nat /\ PageSize \in Nat
  BY TablesAssumption
<1> HIDE DEF offset
<1> QED BY <1>1 DEF PageOf, offset

\* A query of the server answers with what it holds.
LEMMA AnsweredKeepsInv ==
    ASSUME TablesInv, NEW r \in requests,
           NEW s \in {"listed", "served", "failed"}, NEW answer \in Answers,
           Answered(r, s, answer), totals' = totals,
           LET there == totals[FilterOf(r.args)]
           IN  \/ /\ steady' = steady
                  /\ table = "audit" /\ steady /\ r.args = args =>
                       \/ s = "listed" /\ Listed(answer, args.page, there)
                       \/ s = "served" /\ Complete(answer, args.page, there)
               \/ ~steady'
    PROVE  TablesInv'
<1> DEFINE a == [r EXCEPT !.state = s, !.answer = answer]
<1>1. /\ r.n \in Nat /\ r.n <= issued /\ (r.n = issued => r.args = args)
      /\ \A t \in requests : t.n = r.n => t = r
  BY DEF TablesInv, TablesShapes, NewestAsks
<1>2. a.n = r.n /\ a.args = r.args /\ a.state = s /\ a.answer = answer
  BY DEF TablesInv, TablesShapes
<1>3. a \in [n: Nat, args: [query: Queries, facet: Facets, page: Nat], silent: BOOLEAN,
             state: {"sent", "listed", "served", "failed"}, answer: Answers]
  BY ZenonT(30) DEF TablesInv, TablesShapes
<1>4. requests' = (requests \ {r}) \cup {a}
  BY DEF Answered
<1> HIDE DEF a
<1>5. UNCHANGED <<table, queryInput, debounce, args, ticker, issued, entries, loading, error>>
  BY DEF Answered
<1>6. TablesShapes'
  BY <1>3, <1>4, <1>5 DEF TablesInv, TablesShapes
<1>7. NewestAsks'
  BY <1>1, <1>2, <1>4, <1>5, Zenon DEF TablesInv, NewestAsks
<1>8. PagerInRange'
  <2> SUFFICES ASSUME table = "audit", steady, steady'
               PROVE  PagerInRange'
    BY <1>5, Zenon DEF PagerInRange
  <2> DEFINE there == totals[FilterOf(args)]
             Fits(t) == /\ t.n = issued /\ t.state # "failed"
                        /\ t.state = "listed" => Listed(t.answer, args.page, there)
                        /\ t.state = "served" => Complete(t.answer, args.page, there)
  <2>1. r.n = issued /\ r.args = args
    BY <1>1 DEF TablesInv, PagerInRange
  <2>2. /\ InRange(args.page, there)
        /\ \A t \in requests : Fits(t)
        /\ entries.n = issued => Complete(entries.answer, args.page, there)
    BY DEF TablesInv, PagerInRange
  <2>3. \/ s = "listed" /\ Listed(answer, args.page, there)
        \/ s = "served" /\ Complete(answer, args.page, there)
    BY <2>1
  <2>4. Fits(a)
    BY <1>2, <2>1, <2>3
  <2>5. (totals[FilterOf(args)])' = there
    BY <1>5, ZenonT(30) DEF FilterOf
  <2>6. \A t \in requests' : Fits(t)
    BY <1>4, <2>2, <2>4, Zenon
  <2>7. requests' # {}
    BY <1>4
  <2> HIDE DEF there
  <2> QED BY <1>5, <2>2, <2>5, <2>6, <2>7, Zenon DEF PagerInRange
<1> QED BY <1>6, <1>7, <1>8 DEF TablesInv

\* The list query, the count query and a failure keep the invariant.
LEMMA ServingKeepsInv ==
    ASSUME TablesInv, NEW r \in requests, ListRows(r) \/ CountRows(r) \/ FailTable(r)
    PROVE  TablesInv'
<1> DEFINE there == totals[FilterOf(r.args)]
<1>1. there \in Nat /\ r.args.page \in Nat /\ r.answer \in Answers
  BY Zenon DEF TablesInv, TablesShapes, FilterOf, Filter
<1>2. table = "audit" /\ steady =>
         /\ r.args = args => InRange(args.page, there)
         /\ r.args = args /\ r.state = "listed" => Listed(r.answer, args.page, there)
  BY DEF TablesInv, PagerInRange
<1> HIDE DEF there
<1>3. CASE ListRows(r)
  <2> DEFINE answer == [rows |-> PageOf(there, r.args.page), total |-> 0, listed |-> there]
             s == IF table = "system" THEN "served" ELSE "listed"
  <2>1. answer \in Answers
    <3>1. PageOf(there, r.args.page) \in Nat
      BY <1>1, PageIsNat, Zenon
    <3> QED BY <1>1, <3>1 DEF Answers
  <2>2. Answered(r, s, answer) /\ totals' = totals /\ steady' = steady
    BY <1>3, Zenon DEF ListRows, there
  <2>3. r.args = args => Listed(answer, args.page, there)
    BY <1>1 DEF Listed
  <2>4. s \in {"listed", "served", "failed"} /\ (table = "audit" => s = "listed")
    OBVIOUS
  <2> HIDE DEF answer, s
  <2> QED BY <2>1, <2>2, <2>3, <2>4, AnsweredKeepsInv DEF there
<1>4. CASE CountRows(r)
  <2> DEFINE answer == [r.answer EXCEPT !.total = there]
  <2>1. /\ answer \in Answers
        /\ answer.total = there /\ answer.rows = r.answer.rows /\ answer.listed = r.answer.listed
    BY <1>1 DEF Answers
  <2>2. Answered(r, "served", answer) /\ totals' = totals /\ steady' = steady /\ r.state = "listed"
    BY <1>4 DEF CountRows, there
  <2> HIDE DEF answer
  <2>3. table = "audit" /\ steady /\ r.args = args => Complete(answer, args.page, there)
    BY <1>1, <1>2, <2>1, <2>2 DEF Complete, Listed
  <2> QED BY <2>1, <2>2, <2>3, AnsweredKeepsInv DEF there
<1>5. CASE FailTable(r)
  <2>1. NoAnswer \in Answers
    BY DEF NoAnswer, Answers
  <2>2. Answered(r, "failed", NoAnswer) /\ totals' = totals /\ ~steady'
    BY <1>5 DEF FailTable
  <2> QED BY <2>1, <2>2, AnsweredKeepsInv
<1> QED BY <1>3, <1>4, <1>5

\* Every step of a log table keeps the invariant.
LEMMA TablesInvNext ==
    ASSUME TablesInv, [TablesNext]_tableVars
    PROVE  TablesInv'
<1>1. ASSUME NEW r \in requests, LandTable(r)
      PROVE  TablesInv'
  <2>1. /\ requests' = requests \ {r}
        /\ entries' = IF r.state = "served"
                      THEN [n |-> r.n, args |-> r.args, answer |-> r.answer] ELSE entries
        /\ r.state \in {"served", "failed"}
        /\ UNCHANGED <<table, queryInput, args, ticker, issued, totals, steady>>
    BY <1>1 DEF LandTable
  <2>2. TablesShapes'
    BY <2>1 DEF TablesInv, TablesShapes
  <2>3. NewestAsks'
    BY <2>1, SMTT(30) DEF TablesInv, NewestAsks
  <2>4. PagerInRange'
    <3> SUFFICES ASSUME table = "audit", steady PROVE PagerInRange'
      BY <2>1, Zenon DEF PagerInRange
    <3>1. /\ r.n = issued /\ r.state = "served"
          /\ Complete(r.answer, args.page, totals[FilterOf(args)])
          /\ InRange(args.page, totals[FilterOf(args)])
          /\ \A t \in requests : t.n = issued
      BY <2>1 DEF TablesInv, PagerInRange
    <3>2. requests' = {}
      BY <2>1, <3>1 DEF TablesInv, NewestAsks
    <3>3. entries'.n = issued /\ entries'.answer = r.answer
      BY <2>1, <3>1
    <3> QED BY <2>1, <3>1, <3>2, <3>3 DEF PagerInRange, FilterOf
  <2> QED BY <2>2, <2>3, <2>4 DEF TablesInv
<1>2. ASSUME ServerChanges
      PROVE  TablesInv'
  <2>1. PICK f \in Filter, n \in 0..MaxTotal :
           totals' = [totals EXCEPT ![f] = n] /\ steady' = (steady /\ n >= totals[f])
    BY <1>2, Zenon DEF ServerChanges
  <2>2. UNCHANGED <<table, queryInput, args, ticker, requests, issued, entries>>
    BY <1>2 DEF ServerChanges
  <2>3. totals \in [Filter -> Nat] /\ FilterOf(args) \in Filter
    BY DEF TablesInv, TablesShapes, FilterOf, Filter
  <2>4. n \in Nat
    BY TablesAssumption
  <2>5. TablesShapes'
    BY <2>1, <2>2, <2>3, <2>4, SMTT(30) DEF TablesInv, TablesShapes
  <2>6. NewestAsks'
    BY <2>2, SMTT(30) DEF TablesInv, NewestAsks
  <2>7. PagerInRange'
    <3> SUFFICES ASSUME table = "audit", steady, steady' PROVE PagerInRange'
      BY <2>1, <2>2, Zenon DEF PagerInRange
    <3> DEFINE old == totals[FilterOf(args)]
               new == totals'[FilterOf(args)]
    <3>0. n >= totals[f]
      BY <2>1, ZenonT(30)
    <3>1. old \in Nat /\ new \in Nat /\ old <= new
      <4>1. CASE f = FilterOf(args)
        BY <2>1, <2>3, <2>4, <3>0, <4>1
      <4>2. CASE f # FilterOf(args)
        BY <2>1, <2>3, <4>2
      <4> QED BY <4>1, <4>2
    <3>2. /\ args.page \in Nat /\ entries.answer \in Answers
          /\ \A r \in requests : r.answer \in Answers
      BY DEF TablesInv, TablesShapes
    <3>3. InRange(args.page, old)
      BY DEF TablesInv, PagerInRange
    <3>4. InRange(args.page, new)
      BY <3>1, <3>2, <3>3, InRangeGrows, Zenon
    <3>5. new = (totals[FilterOf(args)])'
      BY <2>2 DEF FilterOf
    <3> HIDE DEF new
    <3>6. \A answer \in Answers :
             /\ Listed(answer, args.page, old) => Listed(answer, args.page, new)
             /\ Complete(answer, args.page, old) => Complete(answer, args.page, new)
      BY <3>1 DEF Listed, Complete, Answers
    <3> HIDE DEF old
    <3> QED BY <2>2, <3>2, <3>4, <3>5, <3>6 DEF TablesInv, PagerInRange, old
  <2> QED BY <2>5, <2>6, <2>7 DEF TablesInv
<1>3. ASSUME SwitchAuto \/ UNCHANGED tableVars
      PROVE  TablesInv'
  <2>1. /\ UNCHANGED <<table, queryInput, args, requests, issued, entries, totals, steady>>
        /\ ticker' \in {ticker, args, Never}
    BY <1>3 DEF SwitchAuto, tableVars
  <2>2. TablesShapes'
    BY <2>1 DEF TablesInv, TablesShapes
  <2>3. NewestAsks'
    BY <2>1 DEF TablesInv, NewestAsks
  <2>4. PagerInRange'
    BY <2>1 DEF TablesInv, PagerInRange
  <2> QED BY <2>2, <2>3, <2>4 DEF TablesInv
<1> QED BY <1>1, <1>2, <1>3, ServingKeepsInv, AskingKeepsInv, Zenon DEF TablesNext

LEMMA TablesInvInit == TablesInit => TablesInv
<1> SUFFICES ASSUME TablesInit PROVE TablesInv
  OBVIOUS
<1>1. TablesShapes
  <2> DEFINE first == [query |-> Empty, facet |-> AllEntries, page |-> 0]
  <2>1. first \in [query: Queries, facet: Facets, page: Nat]
    BY TablesAssumption
  <2>2. /\ queryInput = Empty /\ args = first /\ issued = 1
        /\ requests = {[n |-> 1, args |-> first, silent |-> FALSE, state |-> "sent",
                        answer |-> NoAnswer]}
        /\ entries = [n |-> 0, args |-> first, answer |-> NoAnswer]
    BY DEF TablesInit
  <2>3. totals \in [Filter -> Nat]
    <3>1. totals \in [Filter -> 0..MaxTotal]
      BY TablesAssumption, Zenon DEF TablesInit, Filter
    <3> QED BY <3>1, TablesAssumption
  <2>4. NoAnswer \in Answers
    BY DEF NoAnswer, Answers
  <2> HIDE DEF first
  <2> QED BY <2>1, <2>2, <2>3, <2>4, TablesAssumption DEF TablesShapes
<1>2. NewestAsks
  BY DEF TablesInit, NewestAsks
<1>3. PagerInRange
  <2>1. InRange(args.page, totals[FilterOf(args)])
    BY DEF TablesInit, InRange
  <2>2. entries.n # issued /\ requests # {} /\ \A r \in requests : r.n = issued /\ r.state = "sent"
    BY DEF TablesInit
  <2> QED BY <2>1, <2>2, ZenonT(30) DEF PagerInRange
<1> QED BY <1>1, <1>2, <1>3 DEF TablesInv

\* What the invariant says of the answer on screen.
LEMMA TablesInvFresh == TablesInv => FreshIsCurrent
<1> SUFFICES ASSUME TablesInv, entries.n = issued PROVE FreshIsCurrent
  BY DEF FreshIsCurrent
<1> DEFINE total == entries.answer.total
<1>1. entries.args = args
  BY DEF TablesInv, NewestAsks
<1>2. /\ args.page \in Nat /\ total \in Nat
      /\ entries.answer.rows \in Nat /\ entries.answer.listed \in Nat
      /\ PageSize \in Nat \ {0}
  BY TablesAssumption DEF TablesInv, TablesShapes, Answers
<1>3. ASSUME table = "audit", steady
      PROVE  /\ args.page < Pages
             /\ entries.answer.rows <= Announced
             /\ Announced + entries.answer.listed <= entries.answer.rows + total
  <2>1. /\ InRange(args.page, total)
        /\ entries.answer.listed <= total
        /\ entries.answer.rows = PageOf(entries.answer.listed, args.page)
    BY <1>3 DEF TablesInv, PagerInRange, Complete, Listed
  <2>2. args.page < Pages
    <3>1. CASE total = 0
      BY <1>2, <2>1, <3>1 DEF InRange, Pages
    <3>2. CASE total # 0
      <4>1. args.page * PageSize < total
        BY <1>2, <2>1, <3>2 DEF InRange
      <4> QED BY <1>2, <3>2, <4>1, PagesCount DEF Pages
    <3> QED BY <3>1, <3>2
  <2> DEFINE offset == args.page * PageSize
             rows == entries.answer.rows
             listed == entries.answer.listed
  <2>3. offset \in Nat /\ (args.page + 1) * PageSize = offset + PageSize
    BY <1>2
  <2>4. offset < total \/ offset = 0
    BY <1>2, <2>1 DEF InRange
  <2>5. rows = IF listed <= offset THEN 0
               ELSE IF listed - offset < PageSize THEN listed - offset ELSE PageSize
    BY <2>1 DEF PageOf
  <2>6. Announced = IF total = 0 THEN 0
                    ELSE (IF total < offset + PageSize THEN total ELSE offset + PageSize) - offset
    BY <2>3 DEF Announced
  <2> HIDE DEF offset, rows, listed, total
  <2>7. rows <= Announced /\ Announced + listed <= rows + total
    BY <1>2, <2>1, <2>3, <2>4, <2>5, <2>6 DEF rows, listed, total
  <2> QED BY <2>2, <2>7 DEF rows, listed
<1> QED BY <1>1, <1>3 DEF FreshIsCurrent
\* A table that shows the newest answer shows the filters and the page that are
\* selected, and while the answers come in order the audit log's pager stays
\* inside the result, for every page size and every sequence of changes of the
\* filters, page turns, failures and changes on the server.
THEOREM TablesFreshIsCurrent == TablesSpec => []FreshIsCurrent
<1>1. TablesInv /\ [TablesNext]_tableVars => TablesInv'
  BY TablesInvNext
<1> QED BY <1>1, TablesInvInit, TablesInvFresh, PTL DEF TablesSpec

-----------------------------------------------------------------------------
(* The views together.                                                     *)

\* A behaviour of the composition is a behaviour of every view: the one that
\* is followed steps, the others stutter.
LEMMA ViewsAreEach == Spec => TablesSpec /\ DrawerSpec /\ PollSpec /\ ToastsSpec
<1>1. Init => TablesInit /\ DrawerInit /\ PollInit /\ ToastsInit
  BY DEF Init
<1>2. [Next]_viewVars => /\ [TablesNext]_tableVars /\ [DrawerNext]_drawerVars
                         /\ [PollNext]_pollVars /\ [ToastsNext]_toastVars
  <2> SUFFICES ASSUME [Next]_viewVars
               PROVE  /\ [TablesNext]_tableVars /\ [DrawerNext]_drawerVars
                      /\ [PollNext]_pollVars /\ [ToastsNext]_toastVars
    OBVIOUS
  <2>1. CASE UNCHANGED viewVars
    BY <2>1 DEF viewVars
  <2>2. CASE Next
    BY <2>2, Zenon DEF Next
  <2> QED BY <2>1, <2>2
<1> QED BY <1>1, <1>2, PTL DEF Spec, TablesSpec, DrawerSpec, PollSpec, ToastsSpec

\* In the composition every view keeps what it promises alone.
THEOREM ViewsCorrect ==
    Spec => /\ [](/\ FreshIsCurrent /\ OnlySelectedLines /\ BadgeTells
                  /\ OneInterval /\ TimersKnown)
            /\ NewestStatusOnly
BY ViewsAreEach, TablesFreshIsCurrent, DrawerOnlySelectedLines, DrawerBadgeTells,
   PollOneInterval, PollNewestStatusOnly, ToastsTimersKnown, PTL
=============================================================================
