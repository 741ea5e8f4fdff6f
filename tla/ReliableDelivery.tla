-------------------------- MODULE ReliableDelivery --------------------------
(***************************************************************************)
(* What the alert outbox promises, without its tables: an accepted message *)
(* is owed to each of its channels, an obligation is discharged only after *)
(* the message was transmitted, a discharged obligation is never           *)
(* transmitted again, and a message is forgotten only when none of its     *)
(* obligations is left.  Transmission is at least once.                    *)
(***************************************************************************)
CONSTANTS Events, Channels

VARIABLES
  owed,        \* obligations accepted and not discharged
  discharged,  \* obligations discharged and not forgotten
  transmitted  \* obligations transmitted at least once and not forgotten

deliveryVars == <<owed, discharged, transmitted>>

Of(e) == {e} \X Channels

Init ==
  /\ owed = {}
  /\ discharged = {}
  /\ transmitted = {}

Accept(e) ==
  /\ \E targets \in SUBSET Channels :
       owed' = owed \cup (({e} \X targets) \ discharged)
  /\ UNCHANGED <<discharged, transmitted>>

Transmit(d) ==
  /\ d \in owed
  /\ transmitted' = transmitted \cup {d}
  /\ UNCHANGED <<owed, discharged>>

Discharge(d) ==
  /\ d \in owed \cap transmitted
  /\ owed' = owed \ {d}
  /\ discharged' = discharged \cup {d}
  /\ UNCHANGED transmitted

Forget(E) ==
  /\ \A e \in E : Of(e) \cap owed = {}
  /\ discharged' = discharged \ (E \X Channels)
  /\ transmitted' = transmitted \ (E \X Channels)
  /\ UNCHANGED owed

Next ==
  \/ \E e \in Events : Accept(e)
  \/ \E d \in Events \X Channels : Transmit(d) \/ Discharge(d)
  \/ \E E \in SUBSET Events : Forget(E)

Spec == Init /\ [][Next]_deliveryVars

=============================================================================
