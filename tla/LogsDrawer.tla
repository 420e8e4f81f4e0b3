------------------------------ MODULE LogsDrawer ------------------------------
(***************************************************************************)
(* The log drawer of the containers page (LogsDrawer.tsx): a terminal and  *)
(* a log stream of the selected container, replaced whenever the container *)
(* or the stream options change.  A replaced stream is aborted, and until  *)
(* the abort arrives it may still deliver lines, end or fail.              *)
(*                                                                         *)
(* A line is named by the container and the options of its stream.         *)
(***************************************************************************)
EXTENDS Naturals, FiniteSets

CONSTANTS
    Containers,
    Options,       \* number of lines and following, as one value
    NoContainer,
    MaxStreams     \* streams opened

ASSUME DrawerAssumption == NoContainer \notin Containers /\ MaxStreams \in Nat \ {0}

VARIABLES
    containerId,   \* the selected container; the drawer is open when there is one
    options,
    status,        \* the badge
    streams,       \* running streamLogs calls
    screen,        \* lines in the terminal
    opened         \* streams so far

drawerVars == <<containerId, options, status, streams, screen, opened>>

-----------------------------------------------------------------------------
StreamPhases == {"connecting", "streaming"}

Stream == [n: 1..MaxStreams, con: Containers, opt: Options, phase: StreamPhases,
           isSubscribed: BOOLEAN, aborted: BOOLEAN]

Line == [con: Containers, opt: Options]

DrawerTypeOK ==
    /\ containerId \in Containers \cup {NoContainer}
    /\ options \in Options
    /\ status \in StreamPhases \cup {"disconnected", "error"}
    /\ streams \subseteq Stream
    /\ screen \subseteq Line
    /\ opened \in 0..MaxStreams

\* The cleanup of the stream effect.
CleanedUp == {[s EXCEPT !.isSubscribed = FALSE, !.aborted = TRUE] : s \in streams}

\* The stream effect: clean up the last stream, then streamLogs up to its await.
RunStreamEffect(con, opt) ==
    /\ opened < MaxStreams
    /\ opened' = opened + 1
    /\ streams' = CleanedUp \cup {[n |-> opened', con |-> con, opt |-> opt,
                                   phase |-> "connecting", isSubscribed |-> TRUE,
                                   aborted |-> FALSE]}
    /\ status' = "connecting"
    /\ screen' = {}

\* The logs button of a card opens the drawer, its terminal effect before its
\* stream effect, or turns an open drawer to another container, with the stream
\* effect alone.
OpenDrawer(con) ==
    /\ con # containerId
    /\ containerId' = con
    /\ RunStreamEffect(con, options)
    /\ UNCHANGED options

PickOptions(opt) ==
    /\ containerId # NoContainer
    /\ opt # options
    /\ options' = opt
    /\ RunStreamEffect(containerId, opt)
    /\ UNCHANGED containerId

\* With the drawer closed the controls have no stream to restart.
PickOptionsClosed(opt) ==
    /\ containerId = NoContainer
    /\ opt # options
    /\ options' = opt
    /\ UNCHANGED <<containerId, status, streams, screen, opened>>

\* onClose: both effects clean up; the terminal is disposed of.
CloseDrawer ==
    /\ containerId # NoContainer
    /\ containerId' = NoContainer
    /\ streams' = CleanedUp
    /\ screen' = {}
    /\ UNCHANGED <<options, status, opened>>

\* handleClear.
ClearScreen ==
    /\ containerId # NoContainer
    /\ screen' = {}
    /\ UNCHANGED <<containerId, options, status, streams, opened>>

-----------------------------------------------------------------------------
\* Mutant: the flag is not looked at.
ReportedAlways(s, text) == text

\* A stream speaks through the badge while it is subscribed.
Reported(s, text) == IF s.isSubscribed THEN text ELSE status

\* Mutant: a line is written without looking at the flag.
WrittenAlways(s) == screen \cup {[con |-> s.con, opt |-> s.opt]}

\* The terminal after a line of a stream.
Written(s) == IF s.isSubscribed THEN screen \cup {[con |-> s.con, opt |-> s.opt]} ELSE screen

\* The call has been set up; a stream that was replaced meanwhile is left.
Connect(s) ==
    /\ s.phase = "connecting"
    /\ streams' = (streams \ {s}) \cup
                    IF s.isSubscribed THEN {[s EXCEPT !.phase = "streaming"]} ELSE {}
    /\ status' = Reported(s, "streaming")
    /\ UNCHANGED <<containerId, options, screen, opened>>

\* A line arrives.
Chunk(s) ==
    /\ s.phase = "streaming"
    /\ screen' = Written(s)
    /\ streams' = IF s.isSubscribed THEN streams ELSE streams \ {s}
    /\ UNCHANGED <<containerId, options, status, opened>>

\* The stream is closed by the server.
StreamCloses(s) ==
    /\ s.phase = "streaming"
    /\ streams' = streams \ {s}
    /\ status' = Reported(s, "disconnected")
    /\ UNCHANGED <<containerId, options, screen, opened>>

\* The call throws without having been aborted.
StreamBreaks(s) ==
    /\ ~s.aborted
    /\ streams' = streams \ {s}
    /\ status' = Reported(s, "error")
    /\ UNCHANGED <<containerId, options, screen, opened>>

\* The abort arrives.
AbortLands(s) ==
    /\ s.aborted
    /\ streams' = streams \ {s}
    /\ status' = Reported(s, "disconnected")
    /\ UNCHANGED <<containerId, options, screen, opened>>

-----------------------------------------------------------------------------
DrawerInit ==
    /\ containerId = NoContainer
    /\ options \in Options
    /\ status = "disconnected"
    /\ streams = {} /\ screen = {} /\ opened = 0

DrawerNext ==
    \/ \E con \in Containers : OpenDrawer(con)
    \/ \E opt \in Options : PickOptions(opt) \/ PickOptionsClosed(opt)
    \/ CloseDrawer \/ ClearScreen
    \/ \E s \in streams : Connect(s) \/ Chunk(s) \/ StreamCloses(s) \/ StreamBreaks(s)
                          \/ AbortLands(s)

DrawerSpec == DrawerInit /\ [][DrawerNext]_drawerVars

-----------------------------------------------------------------------------
(* Properties.                                                             *)

\* Every line in the terminal is from the container and with the options that
\* are selected, although replaced streams deliver lines until they notice.
OnlySelectedLines == screen \subseteq {[con |-> containerId, opt |-> options]}

\* While the drawer is open the badge tells the state of the stream for the
\* selection: a replaced stream that connects, ends or fails does not show.
BadgeTells ==
    containerId # NoContainer =>
        \/ \E s \in streams : s.isSubscribed /\ status = s.phase
        \/ status \in {"disconnected", "error"} /\ \A s \in streams : ~s.isSubscribed
=============================================================================
