SPECIFICATION FairSpec
CONSTANTS
  local = local
  remote = remote
  LocalKinds = {"refreshed", "raised"}
  RemoteKinds = {"refreshed", "unmergeable"}
  Order <- MCOrder
  Required = {local}
  Deadline <- MCDeadline
  MaxStale <- MCMaxStale
  Kinds <- MCKinds
  Labels = {}
  Reports <- MCReports
  MaxTime = 2
  MaxFailures = 2
PROPERTY OptionalFailuresAreIsolated
