SPECIFICATION Spec
CONSTANTS
    s1 = s1  s2 = s2  d1 = d1  d2 = d2
    t1 = t1  t2 = t2  tu = tu  p1 = p1  p2 = p2  pu = pu
    Inputs <- ThreeInputs
    Sources = {s1, s2}
    TestOf <- TestIds
    ProdOf <- ProdIds
    Digests = {d1, d2}
    Served <- OneAssetEach
    Children = {c1, c2}
    MaxEdits = 3
    MaxFaults = 0
    MaxCrashes = 0
    MaxCommands = 3
    None = None
SYMMETRY Alike
INVARIANTS
    LeasedWhole
CHECK_DEADLOCK FALSE
