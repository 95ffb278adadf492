SPECIFICATION MCSpec
CONSTANTS
  e1 = e1
  i1 = i1
  i2 = i2
  g1 = g1
  Memories = {}
  Globals = {g1}
  Exports = {e1, e2}
  Imports = {i1, i2}
  Vals = {v1}
  MaxSlots = 1
  HostRecords <- MCHostRecords
  MaxRecords = 5
INVARIANTS StructureSound OneTopLevelExportPerGroup WitnessesAgree
PROPERTIES GroupsFrozen
CHECK_DEADLOCK FALSE
