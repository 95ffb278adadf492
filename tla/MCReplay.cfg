SPECIFICATION Spec
CONSTANTS
  e1 = e1
  e2 = e2
  i0 = i0
  iv = iv
  v1 = v1
  v2 = v2
  m1 = m1
  g1 = g1
  Exports = {e1, e2}
  Imports = {i0, iv}
  Vals = {v1, v2}
  Memories = {m1}
  Globals = {g1}
  ImportSig <- MCImportSig
  ExportSig <- MCExportSig
  NeededMemories = {m1}
  NeededGlobals = {g1}
  StartImports = 1
  MaxImports = 3
  Recordings <- MCRecordings
  Ranges <- MCRanges
INVARIANTS AcceptsExactlyTheRecorded DriversAgree ReportsSound DivergenceReported
CHECK_DEADLOCK FALSE
