SPECIFICATION Spec
CONSTANTS
    Main = Main
    Tasks = {t1, t2}
    Root = Root
    Children = {c}
    Resources = {r}
    Options <- Managed
    Modes = {"all", "race", "settled", "native"}
    MaxGroup = 2
    MaxUses = 1
INVARIANTS
    NotClosedInUse
    LeasesExact
    LateFailuresReported
CHECK_DEADLOCK FALSE
