SPECIFICATION FairSpec
CONSTANTS
  Appender = {a1, a2, a3}
  Payload = {v1, v2}
  Digest <- MCDigest
  Hash <- MCHash
  GenesisHash <- MCGenesis
  Nobody = Nobody
  NoRow = NoRow
  MaxRequests = 3
INVARIANTS ChainIntact EditDetected RemovalDetected
PROPERTIES ImplementsHashChain AppendReturns
CHECK_DEADLOCK FALSE
