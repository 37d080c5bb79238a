SPECIFICATION Spec
CONSTANTS
    W = 12
    Fuel = 40
    StackTop = 1600
    GlobalAt = 104
    Junk = 1777
    Functions <- AliasFunctions
    Signatures <- MCSignatures
    ArgWords <- MCArgWords
    GlobalWords <- MCGlobalWords
INVARIANTS
  AliasKeepsItsValue
CHECK_DEADLOCK FALSE
