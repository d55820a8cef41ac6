SPECIFICATION FairSpec
CONSTANTS
    Admins = {a1, a2}
    Watcher = w
    Invalid <- MCInvalid
    MaxChanges = 3
    Catalogue <- MCCatalogue
    Inputs <- MCInputs
INVARIANTS AppliedMark LiveIsSound LoadAsDeclared
PROPERTIES RealTimeOrder MainConvergesBarRace
CHECK_DEADLOCK FALSE
