SPECIFICATION FairSpec
CONSTANTS
    Main = Main
    Tasks = {t1, t2}
    Root = Root
    Children = {c}
    Resources = {r}
    Options <- Handle
    Modes = {"any"}
    MaxGroup = 2
    MaxUses = 1
INVARIANTS
    ScopesDieEmpty
    CleanupTold
PROPERTIES
    ClosedOnce
    RootEnds
CHECK_DEADLOCK FALSE
