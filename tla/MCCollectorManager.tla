------------------------- MODULE MCCollectorManager -------------------------
(* TLC instances of CollectorManager: a required local collector and an     *)
(* optional remote one.                                                     *)
EXTENDS CollectorManager, TLC

CONSTANTS local, remote

\* What the collectors can produce in the run at hand.
CONSTANTS LocalKinds, RemoteKinds

MCOrder == <<local, remote>>

MCDeadline == (local :> 1) @@ (remote :> 1)

MCMaxStale == (local :> 0) @@ (remote :> 1)

MCKinds == (local :> LocalKinds) @@ (remote :> RemoteKinds)

\* The local collector may report a name that the remote one always reports.
MCReports == (local :> SUBSET Labels) @@ (remote :> {Labels})

=============================================================================
