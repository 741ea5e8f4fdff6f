SPECIFICATION FairSpec
CONSTANTS
  local = local
  remote = remote
  LocalKinds = {"refreshed", "unmergeable"}
  RemoteKinds = {"refreshed", "cached", "raised", "timeout_error", "unmergeable"}
  Order <- MCOrder
  Required = {local}
  Deadline <- MCDeadline
  MaxStale <- MCMaxStale
  Kinds <- MCKinds
  Labels = {shared}
  Reports <- MCReports
  MaxTime = 2
  MaxFailures = 2
INVARIANTS TypeOK OneThreadPerCollector FailuresAreInvocations ReturnedSampleIsUsable
PROPERTIES AbortsAreJustified CollectReturns FinishedIsHarvested
