SPECIFICATION Spec
CONSTANTS
    f1 = f1
    f2 = f2
    i1 = i1
    i2 = i2
    lib1 = lib1
    lib2 = lib2
    Files <- MCFiles
    Inodes <- MCInodes
    Libs <- MCLibs
    Names <- MCNames
    NameOf <- MCNameOf
    Broken = Broken
    MenuItems = 2
    MaxLoads = 3
    NONE = NONE
SYMMETRY MCSymmetry
INVARIANTS
    TypeOK
    CountsMatch
    HandlesMatch
    CleanedOnlyIfDoubled
    OffMeansOff
CHECK_DEADLOCK FALSE
