CONSTANTS
  Schema <- MCSchema
  Root = "document"
  Paths <- MCPaths
  Values <- MCValues
  MaxObjects = 2
  MaxIndex = 1
  MaxTokens = 20
  Buffers <- MCBuffers
  Numbers <- MCNumbers
  MaxDepth = 3
  NameSize = 11
SPECIFICATION Spec
INVARIANT DeletesOnlyNamed
