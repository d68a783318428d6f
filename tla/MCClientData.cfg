SPECIFICATION Spec
CONSTANTS
  Cases <- MCCases
  Tag <- MCTag
  MaxSegment <- MCMaxSegment
  MaxInline <- MCMaxInline
  Codes <- MCCodes
  Buckets <- MCBuckets
  Paths <- MCPaths
  Shares <- MCShares
  OverridePrefixes <- MCOverridePrefixes
  PathCiphers <- MCPathCiphers
  MaxOps = 3
  Bytes <- MCBytes
  MaxSegmentBytes = 4
INVARIANTS ObjectExact SearchComplete CodeDecodes HolderKeysExact HolderConfined PathsExact
CHECK_DEADLOCK FALSE
