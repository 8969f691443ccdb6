CONSTANTS
    Aggregators = {g1, g2}
    Agents = {a}
    Entities = {m1, m2, d}
    Dashboards = {d}
    m1 = m1
    m2 = m2
    d = d
    Values <- EntityValues
    MaxVersion = 3
    MaxFaults = 1
SPECIFICATION Spec
SYMMETRY Symmetry
INVARIANTS
    NothingOldAdded
    NothingMissed
    ClientsWaitRightly
    DiffersOnlyIfSkipped
