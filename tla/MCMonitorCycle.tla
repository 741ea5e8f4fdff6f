--------------------------- MODULE MCMonitorCycle ---------------------------
(* TLC instance of MonitorCycle: a rule with a working and a dead channel,  *)
(* and one that names an unknown channel.                                   *)
EXTENDS MonitorCycle, TLC

CONSTANTS cpu, stray, ops

MCRules == {cpu, stray}

MCChannels == {ops}

MCTargets == (cpu :> {ops}) @@ (stray :> {ops})

MCEvents == MCRules \X (0 .. MaxFires - 1)

=============================================================================
