SPECIFICATION FairOutboxSpec
CONSTANTS
  Events = {e1, e2}
  Channels = {ops, pager}
  DeadChannels = {pager}
  Limit = 3
  MaxDelay = 1
  MaxExponent = 1
  Retention = 1
  MaxAbandoned = 1
INVARIANTS OutboxTypeOK SendLedger
PROPERTIES NoSendAfterDelivered PruneForgetsNothingOwed HealthyChannelsDrain ImplementsReliableDelivery

