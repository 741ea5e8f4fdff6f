--------------------------- MODULE RealtimeClient ---------------------------
(***************************************************************************)
(* RealtimeClient of web/src/core/websocket-client.ts: the one WebSocket   *)
(* of a browser tab, its reconnect and inactivity timers, and the          *)
(* connection label of the toolbar; driven by the browser's socket events, *)
(* by the Pause button, by the loads of app.ts that configure it, and by   *)
(* the one-slot queue the server keeps for each client.                    *)
(*                                                                         *)
(* Time is counted in sampling intervals.  A timestamp is the AGE of its   *)
(* sample: the number of samples published since, so 0 is the newest one   *)
(* and a smaller age is a newer sample.  Every new sample ages all the     *)
(* others, up to Old, which is also the age of "no timestamp yet".  A run  *)
(* never ends, and its states are still finitely many.                     *)
(*                                                                         *)
(* A socket the client has given up stays with the browser until its close *)
(* event, so events of an old socket arrive while a new one is in use.     *)
(***************************************************************************)
EXTENDS Integers, FiniteSets

CONSTANTS
  Sockets,         \* sockets the browser holds at a time
  NoSocket,        \* null
  Quiet,           \* websocket_inactivity_timeout_seconds, in intervals
  MaxDelay,        \* bound: intervals a message or a response is under way
  MaxAttempt,      \* bound: attempt is counted up to here
  MaxLoads         \* bound: loads of /api/status

ASSUME ClientAssumption ==
  /\ Sockets # {}
  /\ NoSocket \notin Sockets
  /\ Quiet \in Nat \ {0}
  /\ MaxDelay \in Nat
  /\ MaxAttempt \in Nat \ {0}
  /\ MaxLoads \in Nat

VARIABLES
  reachable,        \* whether the server can be reached
  conn,             \* the browser's view of each socket
  slot,             \* whether the server's queue for the client holds a sample
  wire,             \* age of the sample under way, or NoMessage
  socket,           \* this.socket
  reconnectTimer,   \* whether reconnectTimer is set
  inactivityTimer,  \* the armed socket and the intervals left, or NoTimer
  configured,       \* whether inactivityTimeoutMilliseconds is set
  latest,           \* age of latestTimestamp
  received,         \* hasReceivedStreamSnapshot
  attempt,
  started,          \* whether app.ts has called start()
  stopped,
  paused,
  label,            \* the last state given to callbacks.onState
  loads             \* loads so far

network == <<reachable, conn, slot, wire>>

timers == <<reconnectTimer, inactivityTimer>>

flags == <<started, stopped, paused>>

vars == <<network, socket, timers, configured, latest, received, attempt,
          flags, label, loads>>

Old == MaxDelay + 1

NoMessage == -1

NoTimer == [socket |-> NoSocket, left |-> 0]

Label == {"connecting", "connected", "reconnecting", "paused", "offline"}

TypeOK ==
  /\ reachable \in BOOLEAN
  /\ conn \in [Sockets -> {"gone", "connecting", "open", "stalled", "closing"}]
  /\ slot \in BOOLEAN
  /\ wire \in {NoMessage} \cup 0 .. MaxDelay
  /\ socket \in Sockets \cup {NoSocket}
  /\ reconnectTimer \in BOOLEAN
  /\ inactivityTimer \in {NoTimer} \cup [socket : Sockets, left : 0 .. Quiet]
  /\ configured \in BOOLEAN
  /\ latest \in 0 .. Old
  /\ received \in BOOLEAN
  /\ attempt \in 0 .. MaxAttempt
  /\ <<started, stopped, paused>> \in BOOLEAN \X BOOLEAN \X BOOLEAN
  /\ label \in Label
  /\ loads \in 0 .. MaxLoads

Init ==
  /\ reachable = TRUE
  /\ conn = [s \in Sockets |-> "gone"]
  /\ slot = FALSE
  /\ wire = NoMessage
  /\ socket = NoSocket
  /\ reconnectTimer = FALSE
  /\ inactivityTimer = NoTimer
  /\ configured = FALSE
  /\ latest = Old
  /\ received = FALSE
  /\ attempt = 0
  /\ started = FALSE
  /\ stopped = FALSE
  /\ paused = FALSE
  /\ label = "connecting"
  /\ loads = 0

-----------------------------------------------------------------------------
(* Parts of handlers: what connect, armInactivity and scheduleReconnect do. *)

FreeSockets == {s \in Sockets : conn[s] = "gone"}

\* armInactivity(s): any earlier timer is cleared; without a configured
\* timeout none is set.
Arm(s) ==
  inactivityTimer' =
    IF configured THEN [socket |-> s, left |-> Quiet] ELSE NoTimer

\* Mutant of ClearTimers: the inactivity timer is forgotten.
ClearReconnect ==
  /\ reconnectTimer' = FALSE
  /\ UNCHANGED inactivityTimer

\* What stop and setPaused clear.
ClearTimers ==
  /\ reconnectTimer' = FALSE
  /\ inactivityTimer' = NoTimer

\* Mutant of ScheduleReconnect: the timer is not set.
OnlySayReconnecting ==
  /\ label' = "reconnecting"
  /\ UNCHANGED <<reconnectTimer, attempt>>

\* scheduleReconnect, after the socket was given up.
ScheduleReconnect ==
  /\ reconnectTimer' = TRUE
  /\ attempt' = IF attempt < MaxAttempt THEN attempt + 1 ELSE attempt
  /\ label' = "reconnecting"

\* connect() as called by a handler that sets the other variables: skip is
\* its first return, tries the attempt counter it sees.
Connect(skip, tries, otherwise) ==
  IF skip \/ socket # NoSocket
  THEN /\ label' = otherwise
       /\ UNCHANGED <<conn, socket>>
  ELSE /\ label' = IF tries > 0 THEN "reconnecting" ELSE "connecting"
       /\ LET s == CHOOSE s \in FreeSockets : TRUE
          IN  /\ FreeSockets # {}
              /\ socket' = s
              /\ conn' = [conn EXCEPT ![s] = "connecting"]

\* socket.close(): the browser's close event comes later.  What was under way
\* to an open socket is not delivered any more.
GiveUpSocket ==
  /\ socket' = NoSocket
  /\ IF socket = NoSocket
     THEN UNCHANGED <<conn, slot, wire>>
     ELSE /\ conn' = [conn EXCEPT ![socket] = "closing"]
          /\ slot' = FALSE
          /\ wire' = NoMessage

-----------------------------------------------------------------------------
(* The operations of the client. *)

\* app.ts calls start once, when the first load is answered, has failed or
\* was superseded by a selection of the user.
Start ==
  /\ ~started /\ ~stopped
  /\ started' = TRUE
  /\ Connect(paused, attempt, label)
  /\ UNCHANGED <<reachable, slot, wire, timers, configured, latest, received,
                 attempt, stopped, paused, loads>>

\* beforeunload: destroy() of app.ts stops the client.
Stop ==
  /\ ~stopped
  /\ stopped' = TRUE
  /\ ClearTimers
  /\ GiveUpSocket
  /\ UNCHANGED <<reachable, configured, latest, received, attempt, started,
                 paused, label, loads>>

\* The Pause button.  It is bound before the first load, hence before start.
Pause ==
  /\ ~paused /\ ~stopped
  /\ paused' = TRUE
  /\ label' = "paused"
  /\ ClearTimers
  /\ GiveUpSocket
  /\ UNCHANGED <<reachable, configured, latest, received, attempt, started,
                 stopped, loads>>

Resume ==
  /\ paused /\ ~stopped
  /\ paused' = FALSE
  /\ attempt' = 0
  /\ Connect(FALSE, 0, "connecting")
  /\ UNCHANGED <<reachable, slot, wire, timers, configured, latest, received,
                 started, stopped, loads>>

\* reloadData of app.ts with an answer computed at most MaxDelay samples ago:
\* configureInactivityTimeout.  The timestamp may go back, and no timer is
\* armed.
LoadSucceeds(age) ==
  /\ loads < MaxLoads /\ ~stopped /\ reachable
  /\ loads' = loads + 1
  /\ configured' = TRUE
  /\ latest' = age
  /\ UNCHANGED <<network, socket, timers, received, attempt, flags, label>>

LoadFails ==
  /\ loads < MaxLoads /\ ~stopped
  /\ loads' = loads + 1
  /\ label' = "offline"
  /\ UNCHANGED <<network, socket, timers, configured, latest, received, attempt,
                 flags>>

ReconnectFires ==
  /\ reconnectTimer
  /\ reconnectTimer' = FALSE
  /\ Connect(stopped \/ paused, attempt, label)
  /\ UNCHANGED <<reachable, slot, wire, inactivityTimer, configured, latest,
                 received, attempt, flags, loads>>

InactivityFires ==
  /\ inactivityTimer # NoTimer
  /\ inactivityTimer.left = 0
  /\ inactivityTimer' = NoTimer
  /\ IF socket # inactivityTimer.socket \/ stopped \/ paused
     THEN UNCHANGED <<conn, slot, wire, socket, reconnectTimer, attempt, label>>
     ELSE GiveUpSocket /\ ScheduleReconnect
  /\ UNCHANGED <<reachable, configured, latest, received, flags, loads>>

-----------------------------------------------------------------------------
(* Socket events of the browser and their handlers. *)

\* onopen.  The server registers the client and queues its latest snapshot
\* (the dashboard is seeded when the server starts, so there is one).
OnOpen(s) ==
  /\ conn[s] = "connecting" /\ reachable
  /\ conn' = [conn EXCEPT ![s] = "open"]
  /\ slot' = TRUE
  /\ IF socket = s THEN Arm(s) ELSE UNCHANGED inactivityTimer
  /\ UNCHANGED <<reachable, wire, socket, reconnectTimer, configured, latest,
                 received, attempt, flags, label, loads>>

\* onmessage: the callback appends to the store (module DashboardLoads).
OnMessage(s) ==
  /\ conn[s] = "open"
  /\ wire # NoMessage
  /\ wire' = NoMessage
  /\ LET isNewer == wire < latest
     IN  IF socket = s
         THEN /\ latest' = IF isNewer THEN wire ELSE latest
              /\ IF isNewer \/ ~received
                 THEN /\ received' = TRUE
                      /\ attempt' = 0
                      /\ Arm(s)
                      /\ label' = "connected"
                 ELSE UNCHANGED <<received, attempt, inactivityTimer, label>>
         ELSE UNCHANGED <<latest, received, attempt, inactivityTimer, label>>
  /\ UNCHANGED <<reachable, conn, slot, socket, reconnectTimer, configured,
                 flags, loads>>

\* A connection that cannot be made or is reset.  onerror closes the socket,
\* as the browser does after an error of any socket.
OnError(s) ==
  /\ \/ conn[s] = "connecting" /\ ~reachable
     \/ conn[s] = "stalled"
  /\ conn' = [conn EXCEPT ![s] = "closing"]
  /\ UNCHANGED <<reachable, slot, wire, socket, timers, configured, latest,
                 received, attempt, flags, label, loads>>

\* Mutant of OnClose: the close of an earlier socket is taken for that of the
\* current one.
OnAnyClose(s) ==
  /\ conn[s] = "closing"
  /\ conn' = [conn EXCEPT ![s] = "gone"]
  /\ socket' = NoSocket
  /\ inactivityTimer' = NoTimer
  /\ IF stopped \/ paused THEN UNCHANGED <<reconnectTimer, attempt, label>>
     ELSE ScheduleReconnect
  /\ UNCHANGED <<reachable, slot, wire, configured, latest, received, flags,
                 loads>>

OnClose(s) ==
  /\ conn[s] = "closing"
  /\ conn' = [conn EXCEPT ![s] = "gone"]
  /\ IF socket # s
     THEN UNCHANGED <<socket, timers, attempt, label>>
     ELSE /\ socket' = NoSocket
          /\ inactivityTimer' = NoTimer
          /\ IF stopped \/ paused
             THEN UNCHANGED <<reconnectTimer, attempt, label>>
             ELSE ScheduleReconnect
  /\ UNCHANGED <<reachable, slot, wire, configured, latest, received, flags,
                 loads>>

-----------------------------------------------------------------------------
(* The network and the server. *)

\* Contact is lost: open connections go silent without an event.
Lose ==
  /\ reachable
  /\ reachable' = FALSE
  /\ conn' = [s \in Sockets |->
                IF conn[s] = "open" THEN "stalled" ELSE conn[s]]
  /\ slot' = FALSE
  /\ wire' = NoMessage
  /\ UNCHANGED <<socket, timers, configured, latest, received, attempt, flags,
                 label, loads>>

Regain ==
  /\ ~reachable
  /\ reachable' = TRUE
  /\ UNCHANGED <<conn, slot, wire, socket, timers, configured, latest, received,
                 attempt, flags, label, loads>>

\* A silent connection may work again.  Whether the server still knows the
\* client is unknown: if it does, its queue holds the newest sample.
Recover(s) ==
  /\ conn[s] = "stalled" /\ reachable
  /\ conn' = [conn EXCEPT ![s] = "open"]
  /\ slot' = TRUE
  /\ UNCHANGED <<reachable, wire, socket, timers, configured, latest, received,
                 attempt, flags, label, loads>>

\* _websocket_sender: the queue holds the newest sample only, so what is sent
\* has age 0.
ServerSends ==
  /\ slot /\ wire = NoMessage
  /\ slot' = FALSE
  /\ wire' = 0
  /\ UNCHANGED <<reachable, conn, socket, timers, configured, latest, received,
                 attempt, flags, label, loads>>

\* An interval passes, with a new sample or, when the monitor is late,
\* without one.  _enqueue_latest replaces what the client's slot holds.  The
\* sender task runs within an interval, and no message takes longer than
\* MaxDelay of them.
Tick(sampled) ==
  /\ slot => wire # NoMessage
  /\ IF sampled THEN wire < MaxDelay ELSE wire = NoMessage
  /\ IF sampled
     THEN /\ slot' = (\E s \in Sockets : conn[s] = "open")
          /\ wire' = IF wire = NoMessage THEN NoMessage ELSE wire + 1
          /\ latest' = IF latest = Old THEN Old ELSE latest + 1
     ELSE UNCHANGED <<slot, wire, latest>>
  /\ inactivityTimer' =
       IF inactivityTimer.left = 0 THEN inactivityTimer
       ELSE [inactivityTimer EXCEPT !.left = @ - 1]
  /\ UNCHANGED <<reachable, conn, socket, reconnectTimer, configured, received,
                 attempt, flags, label, loads>>

SocketEvent(s) ==
  \/ OnOpen(s)
  \/ OnMessage(s)
  \/ OnError(s)
  \/ OnClose(s)

UserStep == Start \/ Stop \/ Pause \/ Resume

Load == LoadFails \/ \E age \in 0 .. MaxDelay : LoadSucceeds(age)

TimerFires == ReconnectFires \/ InactivityFires

Next ==
  \/ UserStep
  \/ Load
  \/ TimerFires
  \/ \E s \in Sockets : SocketEvent(s) \/ Recover(s)
  \/ ServerSends
  \/ Lose
  \/ Regain
  \/ \E sampled \in BOOLEAN : Tick(sampled)

Spec == Init /\ [][Next]_vars

\* Timers fire, the browser dispatches its events, the server sends what it
\* has queued, time passes and samples keep coming.  Nothing is assumed of the
\* user, of the loads, or of the network; a silent connection need not recover.
Fairness ==
  /\ WF_vars(ReconnectFires)
  /\ WF_vars(InactivityFires)
  /\ WF_vars(Start)
  /\ \A s \in Sockets :
       /\ WF_vars(OnOpen(s))
       /\ WF_vars(OnMessage(s))
       /\ WF_vars(conn[s] = "connecting" /\ OnError(s))
       /\ WF_vars(OnClose(s))
  /\ WF_vars(ServerSends)
  /\ SF_vars(Tick(TRUE))

FairSpec == Spec /\ Fairness

-----------------------------------------------------------------------------
(* Properties. *)

\* The inactivity timer watches the socket in use, and only once it is open: a
\* timer left over from an earlier socket would tear down its successor.
TimerWatchesSocket ==
  inactivityTimer # NoTimer =>
    /\ inactivityTimer.socket = socket
    /\ conn[socket] # "connecting"

\* The toolbar does not claim a connection there is none of, and says paused
\* only while paused, whatever the order in which loads fail, sockets close
\* and the user presses the button.
LabelIsHonest ==
  /\ label = "connected" /\ ~stopped => socket # NoSocket /\ ~paused
  /\ label = "paused" => paused

\* Types, and what the timers and the toolbar say of the socket is so.
SocketIsTracked ==
  /\ TypeOK
  /\ TimerWatchesSocket
  /\ LabelIsHonest

\* While the user has paused, or the page is left, nothing is connected and
\* no timer is left that would connect: not by a late close event, not by the
\* start that follows a slow first load.
QuietWhenPaused ==
  paused \/ stopped => socket = NoSocket /\ ~reconnectTimer

\* A client that should be live is never stranded: it has a socket, or a
\* timer that will make one.
NeverStranded ==
  started /\ ~stopped /\ ~paused => socket # NoSocket \/ reconnectTimer

\* A tab keeps one connection (web/README.md:40): every socket that is not
\* the current one has been closed by the client, or is gone.  Five places
\* give up this.socket, and a close event of an old socket may come at any
\* time; a socket that is dropped without being closed would go on receiving
\* and never be closed.  There is none while there should be none,
\* and one, or the next one, while there should be.
OneLiveSocket ==
  /\ \A s \in Sockets :
       conn[s] \in {"connecting", "open", "stalled"} => s = socket
  /\ QuietWhenPaused
  /\ NeverStranded

\* An open socket without an inactivity timer: it was opened, and last heard
\* from, before a load had told the client the timeout.
Unwatched ==
  /\ socket # NoSocket
  /\ conn[socket] \in {"open", "stalled"}
  /\ inactivityTimer = NoTimer

\* When the server stays reachable and the user stays on the page without
\* pausing, the client shows "connected" again and again: it finds its way out
\* of every outage, silent connection, failed load and back-off.  The
\* exception is a connection that went silent while Unwatched: nothing ends it.
ReconnectsUnlessUnwatched ==
  <>[](reachable /\ ~paused /\ ~stopped) =>
    \/ []<>(label = "connected")
    \/ <>[]Unwatched

=============================================================================
