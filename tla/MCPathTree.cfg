CONSTANTS
  Schema <- MCSchema
  Root = "document"
  Paths <- MCPaths
  Values <- MCValues
  MaxObjects = 4
  MaxIndex = 2
  MaxTokens = 20
  Buffers <- MCBuffers
  Numbers <- MCNumbers
  MaxDepth = 3
  NameSize = 11
SPECIFICATION Spec
INVARIANTS SetThenGet SetListThenGet RoundTrip NothingElseLost JsonReadsBack EditsAgree
