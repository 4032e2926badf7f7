SPECIFICATION Spec
CONSTANTS
    Procs = {p1, p2}
    Keys = {k1}
    Vals = {v1}
    Inodes = {i1, i2, i3, i4, i5, i6}
    NoVal = NoVal
    NoKey = NoKey
    NoInode = NoInode
    MaxLen = 1
    MaxOlder = 0
    MaxMishaps = 1
    Faults = {"interrupt", "encrypt", "append_write", "append_fsync", "tmp_open", "prune_write", "tmp_fsync", "rename", "dir_fsync", "wipe"}
    FsyncSavesName = TRUE
VIEW View
SYMMETRY Symmetry
INVARIANTS LockExcludes ReaderSnapshot
