SPECIFICATION FairSpec
CONSTANTS
  Sockets = {s1, s2, s3}
  NoSocket = NoSocket
  Quiet = 2
  MaxDelay = 1
  MaxAttempt = 2
  MaxLoads = 2
INVARIANTS SocketIsTracked OneLiveSocket
PROPERTIES ReconnectsUnlessUnwatched
