SPECIFICATION FairSpec
CONSTANTS
  cpu = cpu
  stray = stray
  ops = ops
  Rules <- MCRules
  Channels <- MCChannels
  Targets <- MCTargets
  Events <- MCEvents
  DeadChannels = {}
  Unroutable = {stray}
  Limit = 2
  MaxDelay = 1
  MaxExponent = 1
  Retention = 0
  MaxAbandoned = 2
  MaxFires = 2
  MaxStep = 1
  MaxFaults = 2
PROPERTY FailedDeliveryIsRetried
