SPECIFICATION Spec
CONSTANTS
    k1 = k1
    k2 = k2
    v1 = v1
    v2 = v2
    c1 = c1
    c2 = c2
    Nil = Nil
    NoClient = NoClient
    Clients = {c1, c2}
    Keys = {k1}
    Vals = {v1, v2}
    Dbs <- DbsTwo
    Ttls = {1}
    Commands <- MoveCommands
    SlaveLag = 0
    SaveParams = FALSE
    IntHalf = 128
    MaxQueue = 1
    MaxDirty = 2
    MaxTime = 2
SYMMETRY Symmetry
INVARIANT MovesNoticed
