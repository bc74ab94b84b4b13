CONSTANTS
  Descriptors <- MCDescriptors
  Ids = {0, 1}
  Reports <- MCReports
CHECK_DEADLOCK FALSE
SPECIFICATION ParserSpec
INVARIANTS FieldsFit DecodesWhatWasMeant
