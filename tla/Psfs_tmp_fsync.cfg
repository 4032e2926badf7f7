SPECIFICATION Spec
CONSTANTS
    Procs = {p1}
    Keys = {k1}
    Vals = {v1}
    Inodes = {i1, i2, i3, i4, i5, i6}
    NoVal = NoVal
    NoKey = NoKey
    NoInode = NoInode
    MaxLen = 2
    MaxOlder = 1
    MaxMishaps = 2
    Faults = {"tmp_fsync"}
    FsyncSavesName = TRUE
VIEW View
SYMMETRY Symmetry
INVARIANTS CrashSafe
