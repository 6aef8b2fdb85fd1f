\* A description and its section are written and read once.
CONSTANTS
  Description <- MCDescription
  ForeignSection <- MCForeignSection
  LongName = {"long"}
  ByteMod = 4
  PhyMax = 2
  RegisterOperatorMax = 2
SPECIFICATION Spec
INVARIANTS
  DescriptionRoundTrips
  UsableOrRefused
CHECK_DEADLOCK FALSE
