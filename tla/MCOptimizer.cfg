SPECIFICATION Spec
CONSTANTS
    W = 4
    Fuel = 200
    Sources <- Programs
    Inputs <- Starts
    Table <- PassTable
    Always <- Unconditional
    SkipList = {}
    MaxRounds = 8
    Before <- FuseRotateAdd
    Apply <- ApplyPass
    Features <- FeaturesOf
    Gate <- GateOf
INVARIANTS
  SkippedPassesAreIdle
  StopsAtFixpoint
  EnabledPassesAreDone
PROPERTIES
  PassesKeepMeaning
CHECK_DEADLOCK FALSE
