------------------------ MODULE RealtimeClientProofs ------------------------
(***************************************************************************)
(* What holds of the realtime client for any number of sockets, any        *)
(* inactivity timeout, any delay and any number of loads.                  *)
(*                                                                         *)
(* SocketIsTracked is not inductive alone: that a message shows the label  *)
(* "connected" of a client that is not paused rests on QuietWhenPaused,    *)
(* and OneLiveSocket in turn rests on the types.  Together they are.       *)
(***************************************************************************)
EXTENDS RealtimeClient, TLAPS

ClientInv ==
  /\ SocketIsTracked
  /\ OneLiveSocket

USE ClientAssumption DEF network, timers, flags

\* Nothing is connected before start.
LEMMA InitClient == Init => ClientInv
<1> SUFFICES ASSUME Init PROVE ClientInv
  OBVIOUS
<1> USE DEF Init
<1>1. TypeOK
  <2>1. conn \in [Sockets ->
           {"gone", "connecting", "open", "stalled", "closing"}]
    OBVIOUS
  <2>2. latest \in 0 .. Old
    BY DEF Old
  <2>3. 0 \in 0 .. MaxAttempt /\ 0 \in 0 .. MaxLoads
    OBVIOUS
  <2> QED
    BY <2>1, <2>2, <2>3 DEF TypeOK, Label
<1>2. TimerWatchesSocket /\ LabelIsHonest
  BY DEF TimerWatchesSocket, LabelIsHonest
<1>3. OneLiveSocket
  BY DEF OneLiveSocket, QuietWhenPaused, NeverStranded
<1> QED
  BY <1>1, <1>2, <1>3 DEF ClientInv, SocketIsTracked

LEMMA StutterKeeps == ClientInv /\ UNCHANGED vars => ClientInv'
BY DEF ClientInv, SocketIsTracked, TypeOK, TimerWatchesSocket, LabelIsHonest,
       OneLiveSocket, QuietWhenPaused, NeverStranded, vars

-----------------------------------------------------------------------------
(* The user.  Where connect() is called, the two cases are its early return *)
(* and a new socket.                                                        *)

LEMMA StartKeeps ==
  ASSUME ClientInv, Start
  PROVE  ClientInv'
<1> USE DEF Start, Connect, FreeSockets
<1>1. TypeOK'
  BY DEF ClientInv, SocketIsTracked, TypeOK, Label, Old, NoMessage, NoTimer
<1>2. TimerWatchesSocket'
  BY <1>1 DEF ClientInv, SocketIsTracked, TimerWatchesSocket, TypeOK, NoTimer
<1>3. LabelIsHonest'
  BY DEF ClientInv, SocketIsTracked, OneLiveSocket, LabelIsHonest,
         QuietWhenPaused, TypeOK
<1>4. OneLiveSocket'
  <2>1. CASE paused \/ socket # NoSocket
    BY <2>1 DEF ClientInv, SocketIsTracked, OneLiveSocket, QuietWhenPaused,
                NeverStranded
  <2>2. CASE ~(paused \/ socket # NoSocket)
    <3>1. \E s \in Sockets : /\ conn[s] = "gone"
                             /\ socket' = s
                             /\ conn' = [conn EXCEPT ![s] = "connecting"]
      BY <2>2
    <3> QED
      BY <2>2, <3>1 DEF ClientInv, SocketIsTracked, OneLiveSocket,
                        QuietWhenPaused, NeverStranded, TypeOK
  <2> QED
    BY <2>1, <2>2
<1> QED
  BY <1>1, <1>2, <1>3, <1>4 DEF ClientInv, SocketIsTracked

LEMMA StopKeeps ==
  ASSUME ClientInv, Stop
  PROVE  ClientInv'
<1> USE DEF Stop, ClearTimers, GiveUpSocket
<1>1. TypeOK'
  BY DEF ClientInv, SocketIsTracked, TypeOK, Label, Old, NoMessage, NoTimer
<1>2. TimerWatchesSocket'
  BY <1>1 DEF ClientInv, SocketIsTracked, TimerWatchesSocket, TypeOK, NoTimer
<1>3. LabelIsHonest'
  BY DEF ClientInv, SocketIsTracked, OneLiveSocket, LabelIsHonest,
         QuietWhenPaused, TypeOK
<1>4. OneLiveSocket'
  BY DEF ClientInv, SocketIsTracked, OneLiveSocket, QuietWhenPaused,
         NeverStranded, TypeOK, TimerWatchesSocket
<1> QED
  BY <1>1, <1>2, <1>3, <1>4 DEF ClientInv, SocketIsTracked

LEMMA PauseKeeps ==
  ASSUME ClientInv, Pause
  PROVE  ClientInv'
<1> USE DEF Pause, ClearTimers, GiveUpSocket
<1>1. TypeOK'
  BY DEF ClientInv, SocketIsTracked, TypeOK, Label, Old, NoMessage, NoTimer
<1>2. TimerWatchesSocket'
  BY <1>1 DEF ClientInv, SocketIsTracked, TimerWatchesSocket, TypeOK, NoTimer
<1>3. LabelIsHonest'
  BY DEF ClientInv, SocketIsTracked, OneLiveSocket, LabelIsHonest,
         QuietWhenPaused, TypeOK
<1>4. OneLiveSocket'
  BY DEF ClientInv, SocketIsTracked, OneLiveSocket, QuietWhenPaused,
         NeverStranded, TypeOK, TimerWatchesSocket
<1> QED
  BY <1>1, <1>2, <1>3, <1>4 DEF ClientInv, SocketIsTracked

LEMMA ResumeKeeps ==
  ASSUME ClientInv, Resume
  PROVE  ClientInv'
<1> USE DEF Resume, Connect, FreeSockets
<1>1. TypeOK'
  <2>1. conn' \in [Sockets ->
           {"gone", "connecting", "open", "stalled", "closing"}]
    BY DEF ClientInv, SocketIsTracked, TypeOK
  <2>2. socket' \in Sockets \cup {NoSocket}
    BY DEF ClientInv, SocketIsTracked, TypeOK
  <2>3. label' \in Label
    BY DEF ClientInv, SocketIsTracked, TypeOK, Label
  <2>4. attempt' \in 0 .. MaxAttempt
    BY DEF ClientInv, SocketIsTracked, TypeOK
  <2> QED
    BY <2>1, <2>2, <2>3, <2>4 DEF ClientInv, SocketIsTracked, TypeOK, Label
<1>2. TimerWatchesSocket'
  BY <1>1 DEF ClientInv, SocketIsTracked, TimerWatchesSocket, TypeOK, NoTimer
<1>3. LabelIsHonest'
  BY DEF ClientInv, SocketIsTracked, OneLiveSocket, LabelIsHonest,
         QuietWhenPaused, TypeOK
<1>4. OneLiveSocket'
  <2>1. CASE socket # NoSocket
    BY <2>1 DEF ClientInv, SocketIsTracked, OneLiveSocket, QuietWhenPaused,
                NeverStranded
  <2>2. CASE socket = NoSocket
    <3>1. \E s \in Sockets : /\ conn[s] = "gone"
                             /\ socket' = s
                             /\ conn' = [conn EXCEPT ![s] = "connecting"]
      BY <2>2
    <3> QED
      BY <2>2, <3>1 DEF ClientInv, SocketIsTracked, OneLiveSocket,
                        QuietWhenPaused, NeverStranded, TypeOK
  <2> QED
    BY <2>1, <2>2
<1> QED
  BY <1>1, <1>2, <1>3, <1>4 DEF ClientInv, SocketIsTracked

-----------------------------------------------------------------------------
(* Loads and timers. *)

LEMMA LoadSucceedsKeeps ==
  ASSUME NEW age \in 0 .. MaxDelay, ClientInv, LoadSucceeds(age)
  PROVE  ClientInv'
<1> USE DEF LoadSucceeds
<1>1. TypeOK'
  BY DEF ClientInv, SocketIsTracked, TypeOK, Label, Old, NoMessage, NoTimer
<1>2. TimerWatchesSocket'
  BY <1>1 DEF ClientInv, SocketIsTracked, TimerWatchesSocket, TypeOK, NoTimer
<1>3. LabelIsHonest'
  BY DEF ClientInv, SocketIsTracked, OneLiveSocket, LabelIsHonest,
         QuietWhenPaused, TypeOK
<1>4. OneLiveSocket'
  BY DEF ClientInv, SocketIsTracked, OneLiveSocket, QuietWhenPaused,
         NeverStranded, TypeOK, TimerWatchesSocket
<1> QED
  BY <1>1, <1>2, <1>3, <1>4 DEF ClientInv, SocketIsTracked

LEMMA LoadFailsKeeps ==
  ASSUME ClientInv, LoadFails
  PROVE  ClientInv'
<1> USE DEF LoadFails
<1>1. TypeOK'
  BY DEF ClientInv, SocketIsTracked, TypeOK, Label, Old, NoMessage, NoTimer
<1>2. TimerWatchesSocket'
  BY <1>1 DEF ClientInv, SocketIsTracked, TimerWatchesSocket, TypeOK, NoTimer
<1>3. LabelIsHonest'
  BY DEF ClientInv, SocketIsTracked, OneLiveSocket, LabelIsHonest,
         QuietWhenPaused, TypeOK
<1>4. OneLiveSocket'
  BY DEF ClientInv, SocketIsTracked, OneLiveSocket, QuietWhenPaused,
         NeverStranded, TypeOK, TimerWatchesSocket
<1> QED
  BY <1>1, <1>2, <1>3, <1>4 DEF ClientInv, SocketIsTracked

LEMMA ReconnectFiresKeeps ==
  ASSUME ClientInv, ReconnectFires
  PROVE  ClientInv'
<1> USE DEF ReconnectFires, Connect, FreeSockets
<1>1. TypeOK'
  BY DEF ClientInv, SocketIsTracked, TypeOK, Label, Old, NoMessage, NoTimer
<1>2. TimerWatchesSocket'
  BY <1>1 DEF ClientInv, SocketIsTracked, TimerWatchesSocket, TypeOK, NoTimer
<1>3. LabelIsHonest'
  BY DEF ClientInv, SocketIsTracked, OneLiveSocket, LabelIsHonest,
         QuietWhenPaused, TypeOK
<1>4. OneLiveSocket'
  <2>1. CASE (stopped \/ paused) \/ socket # NoSocket
    BY <2>1 DEF ClientInv, SocketIsTracked, OneLiveSocket, QuietWhenPaused,
                NeverStranded
  <2>2. CASE ~((stopped \/ paused) \/ socket # NoSocket)
    <3>1. \E s \in Sockets : /\ conn[s] = "gone"
                             /\ socket' = s
                             /\ conn' = [conn EXCEPT ![s] = "connecting"]
      BY <2>2
    <3> QED
      BY <2>2, <3>1 DEF ClientInv, SocketIsTracked, OneLiveSocket,
                        QuietWhenPaused, NeverStranded, TypeOK
  <2> QED
    BY <2>1, <2>2
<1> QED
  BY <1>1, <1>2, <1>3, <1>4 DEF ClientInv, SocketIsTracked

LEMMA InactivityFiresKeeps ==
  ASSUME ClientInv, InactivityFires
  PROVE  ClientInv'
<1> USE DEF InactivityFires, GiveUpSocket, ScheduleReconnect
<1>1. TypeOK'
  <2>1. inactivityTimer' \in {NoTimer}
    OBVIOUS
  <2>2. conn' \in [Sockets ->
           {"gone", "connecting", "open", "stalled", "closing"}]
    BY DEF ClientInv, SocketIsTracked, TypeOK
  <2>3. slot' \in BOOLEAN /\ wire' \in {NoMessage} \cup 0 .. MaxDelay
    BY DEF ClientInv, SocketIsTracked, TypeOK
  <2>4. socket' \in Sockets \cup {NoSocket}
    BY DEF ClientInv, SocketIsTracked, TypeOK
  <2>5. reconnectTimer' \in BOOLEAN /\ label' \in Label
    BY DEF ClientInv, SocketIsTracked, TypeOK, Label
  <2>6. attempt' \in 0 .. MaxAttempt
    BY DEF ClientInv, SocketIsTracked, TypeOK
  <2> QED
    BY <2>1, <2>2, <2>3, <2>4, <2>5, <2>6 DEF ClientInv, SocketIsTracked, TypeOK, Label
<1>2. TimerWatchesSocket'
  BY <1>1 DEF ClientInv, SocketIsTracked, TimerWatchesSocket, TypeOK, NoTimer
<1>3. LabelIsHonest'
  BY DEF ClientInv, SocketIsTracked, OneLiveSocket, LabelIsHonest,
         QuietWhenPaused, TypeOK
<1>4. OneLiveSocket'
  BY DEF ClientInv, SocketIsTracked, OneLiveSocket, QuietWhenPaused,
         NeverStranded, TypeOK, TimerWatchesSocket
<1> QED
  BY <1>1, <1>2, <1>3, <1>4 DEF ClientInv, SocketIsTracked

-----------------------------------------------------------------------------
(* Socket events. *)

LEMMA OnOpenKeeps ==
  ASSUME NEW s \in Sockets, ClientInv, OnOpen(s)
  PROVE  ClientInv'
<1> USE DEF OnOpen, Arm
<1>1. TypeOK'
  BY DEF ClientInv, SocketIsTracked, TypeOK, Label, Old, NoMessage, NoTimer
<1>2. TimerWatchesSocket'
  BY <1>1 DEF ClientInv, SocketIsTracked, TimerWatchesSocket, TypeOK, NoTimer
<1>3. LabelIsHonest'
  BY DEF ClientInv, SocketIsTracked, OneLiveSocket, LabelIsHonest,
         QuietWhenPaused, TypeOK
<1>4. OneLiveSocket'
  BY DEF ClientInv, SocketIsTracked, OneLiveSocket, QuietWhenPaused,
         NeverStranded, TypeOK, TimerWatchesSocket
<1> QED
  BY <1>1, <1>2, <1>3, <1>4 DEF ClientInv, SocketIsTracked

LEMMA OnMessageKeeps ==
  ASSUME NEW s \in Sockets, ClientInv, OnMessage(s)
  PROVE  ClientInv'
<1> USE DEF OnMessage, Arm
<1>1. TypeOK'
  <2>1. wire' \in {NoMessage} /\ latest' \in 0 .. Old
    BY DEF ClientInv, SocketIsTracked, TypeOK, Old, NoMessage
  <2>2. inactivityTimer' \in {NoTimer} \cup [socket : Sockets, left : 0 .. Quiet]
    BY DEF ClientInv, SocketIsTracked, TypeOK
  <2>3. received' \in BOOLEAN
    BY DEF ClientInv, SocketIsTracked, TypeOK
  <2>4. attempt' \in 0 .. MaxAttempt
    BY DEF ClientInv, SocketIsTracked, TypeOK
  <2>5. label' \in Label
    BY DEF ClientInv, SocketIsTracked, TypeOK, Label
  <2> QED
    BY <2>1, <2>2, <2>3, <2>4, <2>5 DEF ClientInv, SocketIsTracked, TypeOK, Label
<1>2. TimerWatchesSocket'
  BY <1>1 DEF ClientInv, SocketIsTracked, TimerWatchesSocket, TypeOK, NoTimer
<1>3. LabelIsHonest'
  BY DEF ClientInv, SocketIsTracked, OneLiveSocket, LabelIsHonest,
         QuietWhenPaused, TypeOK
<1>4. OneLiveSocket'
  BY DEF ClientInv, SocketIsTracked, OneLiveSocket, QuietWhenPaused,
         NeverStranded, TypeOK, TimerWatchesSocket
<1> QED
  BY <1>1, <1>2, <1>3, <1>4 DEF ClientInv, SocketIsTracked

LEMMA OnErrorKeeps ==
  ASSUME NEW s \in Sockets, ClientInv, OnError(s)
  PROVE  ClientInv'
<1> USE DEF OnError
<1>1. TypeOK'
  BY DEF ClientInv, SocketIsTracked, TypeOK, Label, Old, NoMessage, NoTimer
<1>2. TimerWatchesSocket'
  BY <1>1 DEF ClientInv, SocketIsTracked, TimerWatchesSocket, TypeOK, NoTimer
<1>3. LabelIsHonest'
  BY DEF ClientInv, SocketIsTracked, OneLiveSocket, LabelIsHonest,
         QuietWhenPaused, TypeOK
<1>4. OneLiveSocket'
  BY DEF ClientInv, SocketIsTracked, OneLiveSocket, QuietWhenPaused,
         NeverStranded, TypeOK, TimerWatchesSocket
<1> QED
  BY <1>1, <1>2, <1>3, <1>4 DEF ClientInv, SocketIsTracked

LEMMA OnCloseKeeps ==
  ASSUME NEW s \in Sockets, ClientInv, OnClose(s)
  PROVE  ClientInv'
<1> USE DEF OnClose, ScheduleReconnect
<1>1. TypeOK'
  <2>1. conn' \in [Sockets ->
           {"gone", "connecting", "open", "stalled", "closing"}]
    BY DEF ClientInv, SocketIsTracked, TypeOK
  <2>2. socket' \in Sockets \cup {NoSocket}
    BY DEF ClientInv, SocketIsTracked, TypeOK
  <2>3. inactivityTimer' \in {NoTimer} \cup [socket : Sockets, left : 0 .. Quiet]
    BY DEF ClientInv, SocketIsTracked, TypeOK
  <2>4. reconnectTimer' \in BOOLEAN /\ label' \in Label
    BY DEF ClientInv, SocketIsTracked, TypeOK, Label
  <2>5. attempt' \in 0 .. MaxAttempt
    BY DEF ClientInv, SocketIsTracked, TypeOK
  <2> QED
    BY <2>1, <2>2, <2>3, <2>4, <2>5 DEF ClientInv, SocketIsTracked, TypeOK, Label
<1>2. TimerWatchesSocket'
  BY <1>1 DEF ClientInv, SocketIsTracked, TimerWatchesSocket, TypeOK, NoTimer
<1>3. LabelIsHonest'
  BY DEF ClientInv, SocketIsTracked, OneLiveSocket, LabelIsHonest,
         QuietWhenPaused, TypeOK
<1>4. OneLiveSocket'
  BY DEF ClientInv, SocketIsTracked, OneLiveSocket, QuietWhenPaused,
         NeverStranded, TypeOK, TimerWatchesSocket
<1> QED
  BY <1>1, <1>2, <1>3, <1>4 DEF ClientInv, SocketIsTracked

-----------------------------------------------------------------------------
(* Network, server and time. *)

LEMMA RecoverKeeps ==
  ASSUME NEW s \in Sockets, ClientInv, Recover(s)
  PROVE  ClientInv'
<1> USE DEF Recover
<1>1. TypeOK'
  BY DEF ClientInv, SocketIsTracked, TypeOK, Label, Old, NoMessage, NoTimer
<1>2. TimerWatchesSocket'
  BY <1>1 DEF ClientInv, SocketIsTracked, TimerWatchesSocket, TypeOK, NoTimer
<1>3. LabelIsHonest'
  BY DEF ClientInv, SocketIsTracked, OneLiveSocket, LabelIsHonest,
         QuietWhenPaused, TypeOK
<1>4. OneLiveSocket'
  BY DEF ClientInv, SocketIsTracked, OneLiveSocket, QuietWhenPaused,
         NeverStranded, TypeOK, TimerWatchesSocket
<1> QED
  BY <1>1, <1>2, <1>3, <1>4 DEF ClientInv, SocketIsTracked

LEMMA ServerSendsKeeps ==
  ASSUME ClientInv, ServerSends
  PROVE  ClientInv'
<1> USE DEF ServerSends
<1>1. TypeOK'
  <2>1. wire' \in 0 .. MaxDelay
    BY DEF NoMessage
  <2>2. slot' \in BOOLEAN
    OBVIOUS
  <2> QED
    BY <2>1, <2>2 DEF ClientInv, SocketIsTracked, TypeOK, Label
<1>2. TimerWatchesSocket'
  BY <1>1 DEF ClientInv, SocketIsTracked, TimerWatchesSocket, TypeOK, NoTimer
<1>3. LabelIsHonest'
  BY DEF ClientInv, SocketIsTracked, OneLiveSocket, LabelIsHonest,
         QuietWhenPaused, TypeOK
<1>4. OneLiveSocket'
  BY DEF ClientInv, SocketIsTracked, OneLiveSocket, QuietWhenPaused,
         NeverStranded, TypeOK, TimerWatchesSocket
<1> QED
  BY <1>1, <1>2, <1>3, <1>4 DEF ClientInv, SocketIsTracked

LEMMA LoseKeeps ==
  ASSUME ClientInv, Lose
  PROVE  ClientInv'
<1> USE DEF Lose
<1>1. TypeOK'
  BY DEF ClientInv, SocketIsTracked, TypeOK, Label, Old, NoMessage, NoTimer
<1>2. TimerWatchesSocket'
  BY <1>1 DEF ClientInv, SocketIsTracked, TimerWatchesSocket, TypeOK, NoTimer
<1>3. LabelIsHonest'
  BY DEF ClientInv, SocketIsTracked, OneLiveSocket, LabelIsHonest,
         QuietWhenPaused, TypeOK
<1>4. OneLiveSocket'
  BY DEF ClientInv, SocketIsTracked, OneLiveSocket, QuietWhenPaused,
         NeverStranded, TypeOK, TimerWatchesSocket
<1> QED
  BY <1>1, <1>2, <1>3, <1>4 DEF ClientInv, SocketIsTracked

LEMMA RegainKeeps ==
  ASSUME ClientInv, Regain
  PROVE  ClientInv'
<1> USE DEF Regain
<1>1. TypeOK'
  BY DEF ClientInv, SocketIsTracked, TypeOK, Label, Old, NoMessage, NoTimer
<1>2. TimerWatchesSocket'
  BY <1>1 DEF ClientInv, SocketIsTracked, TimerWatchesSocket, TypeOK, NoTimer
<1>3. LabelIsHonest'
  BY DEF ClientInv, SocketIsTracked, OneLiveSocket, LabelIsHonest,
         QuietWhenPaused, TypeOK
<1>4. OneLiveSocket'
  BY DEF ClientInv, SocketIsTracked, OneLiveSocket, QuietWhenPaused,
         NeverStranded, TypeOK, TimerWatchesSocket
<1> QED
  BY <1>1, <1>2, <1>3, <1>4 DEF ClientInv, SocketIsTracked

LEMMA TickKeeps ==
  ASSUME NEW sampled \in BOOLEAN, ClientInv, Tick(sampled)
  PROVE  ClientInv'
<1> USE DEF Tick
<1>1. TypeOK'
  <2>1. wire \in {NoMessage} \cup 0 .. MaxDelay /\ latest \in 0 .. Old
    BY DEF ClientInv, SocketIsTracked, TypeOK
  <2>2. slot' \in BOOLEAN
    BY DEF ClientInv, SocketIsTracked, TypeOK
  <2>3. wire' \in {NoMessage} \cup 0 .. MaxDelay
    <3>1. CASE sampled
      BY <2>1, <3>1 DEF NoMessage
    <3>2. CASE ~sampled
      BY <2>1, <3>2
    <3> QED
      BY <3>1, <3>2
  <2>4. latest' \in 0 .. Old
    <3>1. CASE sampled
      BY <2>1, <3>1 DEF Old
    <3>2. CASE ~sampled
      BY <2>1, <3>2
    <3> QED
      BY <3>1, <3>2
  <2>5. inactivityTimer' \in {NoTimer} \cup [socket : Sockets, left : 0 .. Quiet]
    BY DEF ClientInv, SocketIsTracked, TypeOK, NoTimer
  <2> QED
    BY <2>2, <2>3, <2>4, <2>5 DEF ClientInv, SocketIsTracked, TypeOK, Label
<1>2. TimerWatchesSocket'
  BY <1>1 DEF ClientInv, SocketIsTracked, TimerWatchesSocket, TypeOK, NoTimer
<1>3. LabelIsHonest'
  BY DEF ClientInv, SocketIsTracked, OneLiveSocket, LabelIsHonest,
         QuietWhenPaused, TypeOK
<1>4. OneLiveSocket'
  BY DEF ClientInv, SocketIsTracked, OneLiveSocket, QuietWhenPaused,
         NeverStranded, TypeOK, TimerWatchesSocket
<1> QED
  BY <1>1, <1>2, <1>3, <1>4 DEF ClientInv, SocketIsTracked

-----------------------------------------------------------------------------
(* The theorems. *)

LEMMA StepKeeps == ClientInv /\ [Next]_vars => ClientInv'
<1> SUFFICES ASSUME ClientInv, [Next]_vars PROVE ClientInv'
  OBVIOUS
<1>1. CASE UserStep
  BY <1>1, StartKeeps, StopKeeps, PauseKeeps, ResumeKeeps DEF UserStep
<1>2. CASE Load
  BY <1>2, LoadSucceedsKeeps, LoadFailsKeeps DEF Load
<1>3. CASE TimerFires
  BY <1>3, ReconnectFiresKeeps, InactivityFiresKeeps DEF TimerFires
<1>4. ASSUME NEW s \in Sockets, SocketEvent(s) \/ Recover(s)
      PROVE  ClientInv'
  BY <1>4, OnOpenKeeps, OnMessageKeeps, OnErrorKeeps, OnCloseKeeps,
     RecoverKeeps DEF SocketEvent
<1>5. CASE ServerSends \/ Lose \/ Regain
  BY <1>5, ServerSendsKeeps, LoseKeeps, RegainKeeps
<1>6. ASSUME NEW sampled \in BOOLEAN, Tick(sampled)
      PROVE  ClientInv'
  BY <1>6, TickKeeps
<1>7. CASE UNCHANGED vars
  BY <1>7, StutterKeeps
<1> QED
  BY <1>1, <1>2, <1>3, <1>4, <1>5, <1>6, <1>7 DEF Next

\* The strengthened invariant: each of its parts rests on the others.
THEOREM ClientInvariant == Spec => []ClientInv
<1>1. Init => ClientInv
  BY InitClient
<1>2. ClientInv /\ [Next]_vars => ClientInv'
  BY StepKeeps
<1> QED
  BY <1>1, <1>2, PTL DEF Spec

\* The inactivity timer watches the socket in use, and the toolbar says
\* nothing of it that is not so.
THEOREM SocketAlwaysTracked == Spec => []SocketIsTracked
<1>1. ClientInv => SocketIsTracked
  BY DEF ClientInv
<1> QED
  BY <1>1, ClientInvariant, PTL

\* A tab keeps one connection, none while paused, and is never stranded.
THEOREM AlwaysOneLiveSocket == Spec => []OneLiveSocket
<1>1. ClientInv => OneLiveSocket
  BY DEF ClientInv
<1> QED
  BY <1>1, ClientInvariant, PTL

=============================================================================
