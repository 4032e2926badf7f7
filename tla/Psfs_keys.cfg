SPECIFICATION Spec
CONSTANTS
    Procs = {p1}
    Keys = {k1, k2}
    Vals = {v1}
    Inodes = {i1, i2, i3, i4, i5, i6}
    NoVal = NoVal
    NoKey = NoKey
    NoInode = NoInode
    MaxLen = 2
    MaxOlder = 1
    MaxMishaps = 1
    Faults = {"interrupt", "append_write", "tmp_open"}
    FsyncSavesName = TRUE
VIEW View
SYMMETRY Symmetry
INVARIANTS CrashSafe CacheCoherent
