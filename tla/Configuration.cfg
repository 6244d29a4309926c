CONSTANTS
  Text <- MCText
  Fails = Fails
  HasPoint <- MCHasPoint
  StoI <- MCStoI
  StoF <- MCStoF
  RawLine <- MCRawLine
  HeaderLine <- MCHeaderLine
  EntryLines <- MCEntryLines
  Read <- MCRead
  CutShort <- MCCutShort
  CategoryOrder <- MCCategoryOrder
  KeyOrder <- MCKeyOrder
  Parameters <- MCParameters
  Edits <- MCEdits
  UserFiles <- MCUserFiles
  MaxOps = 5
SPECIFICATION ConfigurationSpec
PROPERTIES SavesAreConsistent LoadRestoresSaved
CHECK_DEADLOCK FALSE
