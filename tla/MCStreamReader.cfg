SPECIFICATION Spec
CONSTANTS
  e1 = e1
  i1 = i1
  v1 = v1
  Exports = {e1}
  Imports = {i1}
  Vals = {v1}
  Memories = {}
  Globals = {}
  Documents <- MCDocuments
  MaxChunk = 5
INVARIANTS StreamedIsPrefixOfBatch EndClassified
PROPERTIES GroupsDelivered EndReported
