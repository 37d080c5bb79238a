SPECIFICATION LinkSpec
CONSTANTS
  ObjectFiles <- MCObjectFiles
  MaxObjects = 3
  EntryName = "main"
  SectionAlignment = 16
  AllowUnresolved = FALSE
INVARIANTS
  ContributionsPlaced
  SymbolsFollowTheirSection
  OutcomeAsSpecified
CHECK_DEADLOCK FALSE
