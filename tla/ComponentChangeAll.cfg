SPECIFICATION Spec
CONSTANTS
    ob = ob  base = base  user = user  s = s  t = t
    Sites <- MCSites
    Initial <- MCInitial
    Declared <- MCDeclared
    Pulled <- MCPulled
    Talks <- MCDeclared
    Erasable <- MCErasable
    Growable <- MCGrowable
    Main = ob
    Kinds <- MCKinds
    MaxMishaps = 1
INVARIANTS TypeOK RecordedConfigured
PROPERTIES ErasesOnlyNamed DeletedIsGone NeededStays
CHECK_DEADLOCK FALSE
