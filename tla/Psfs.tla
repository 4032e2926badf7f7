-------------------------------- MODULE Psfs --------------------------------
(***************************************************************************)
(* One store of libpsfs (src/src/lib/psfs/src/psfs.c): a key/value journal *)
(* in one file, shared by several processes, each with at most one handle. *)
(*                                                                         *)
(* The steps between which another process, a kill or a power loss can     *)
(* come are the system calls, so a library call is the sequence of actions *)
(* that the program counter pc[p] runs through.  The file system is        *)
(* modelled from how psfs.c uses it: a directory entry names an inode, an  *)
(* inode outlives its name while a descriptor is open, data reach the      *)
(* medium at an fsync of the file, a name at an fsync of the directory,    *)
(* and what a power loss leaves of anything younger is not determined.     *)
(***************************************************************************)
EXTENDS Integers, Sequences, FiniteSets

CONSTANTS
    Procs,      \* processes that use the store
    Keys,       \* record keys
    Vals,       \* record values
    Inodes,     \* inode numbers of the file system
    NoVal,      \* the value of a record with pr_datasz = 0: the key is deleted
    NoKey,      \* the key of a record that fails its magic, size or CRC check
    NoInode,    \* no such file, no such descriptor
    MaxLen,     \* bound: a journal longer than this is not appended to
    MaxOlder,   \* bound: contents that a truncation may have to undo
    MaxMishaps, \* bound: failed calls, kills and power losses in a behaviour
    Faults,     \* the system calls that may fail, and outside interference
    FsyncSavesName  \* does fsync of a new file also save its directory entry?

(* Everything that Faults may name.                                        *)
AllFaults == {"interrupt", "encrypt", "append_write", "append_fsync", "tmp_open",
              "prune_write", "tmp_fsync", "rename", "dir_fsync", "wipe"}

(* The failures after which psfs.c keeps every promise of its interface.   *)
HandledFaults == {"interrupt", "append_write", "tmp_open"}

ASSUME ConstantsAssumption ==
    /\ NoVal \notin Vals
    /\ NoKey \notin Keys
    /\ NoInode \notin Inodes
    /\ MaxLen \in Nat /\ MaxOlder \in Nat /\ MaxMishaps \in Nat
    /\ Faults \subseteq AllFaults
    /\ FsyncSavesName \in BOOLEAN

VARIABLES
    store,      \* inode that the store's name refers to
    tmp,        \* inode that the name of the temporary file refers to
    storeDur,   \* inodes the store's name may refer to after a power loss
    data,       \* inode -> the records in the file, as every process reads them
    safe,       \* inode -> length of the prefix that is on the medium
    older,      \* inode -> contents older than a truncation not yet on the medium
    pc,         \* process -> where it is in libpsfs
    mode,       \* process -> OSP_PS_READ or OSP_PS_WRITE of psfs_flags
    fd,         \* process -> psfs_fd
    tfd,        \* process -> descriptor of the temporary file in a prune
    root,       \* process -> psfs_root, the cached records
    todo,       \* process -> keys the loop of psfs_sync_prune has yet to visit
    closing,    \* process -> is the sync the one inside psfs_close?
    leaked,     \* process -> locked descriptors that a failed psfs_open left open
    mishaps,    \* number of failed calls, kills and power losses so far
    legal       \* key -> values the interface allows a power loss to leave

files  == <<store, tmp, storeDur, data, safe, older>>
procs  == <<pc, mode, fd, tfd, root, todo, closing, leaked>>
vars   == <<store, tmp, storeDur, data, safe, older,
            pc, mode, fd, tfd, root, todo, closing, leaked, mishaps, legal>>

-----------------------------------------------------------------------------
(* Records and journals                                                    *)

ValsOrNone == Vals \cup {NoVal}
InodesOrNone == Inodes \cup {NoInode}

Rec(k, v) == [key |-> k, val |-> v]
Torn == Rec(NoKey, NoVal)
Records == [key : Keys \cup {NoKey}, val : ValsOrNone]

(* Mutant: the scan gives up at the first thing that is not a record.      *)
IsValOf_StopsAtTorn(f, k, v) ==
    \/ \E j \in 1..Len(f) :
          /\ f[j].key = k
          /\ f[j].val = v
          /\ \A i \in 1..j : f[i].key # NoKey
          /\ \A i \in j+1..Len(f) : f[i].key # k \/ \E h \in 1..i : f[h].key = NoKey
    \/ v = NoVal /\ \A i \in 1..Len(f) : f[i].key # k \/ \E h \in 1..i : f[h].key = NoKey

(* Mutant: the first record of a key wins.                                 *)
IsValOf_FirstWins(f, k, v) ==
    \/ \E j \in 1..Len(f) :
          /\ f[j].key = k
          /\ f[j].val = v
          /\ \A i \in 1..j-1 : f[i].key # k
    \/ v = NoVal /\ \A i \in 1..Len(f) : f[i].key # k

(* psfs_load makes v of key k in journal f: the last record wins, one with *)
(* no data deletes the key, and psfs_record_read steps over anything that  *)
(* is not a record.                                                        *)
IsValOf(f, k, v) ==
    \/ \E j \in 1..Len(f) :
          /\ f[j].key = k
          /\ f[j].val = v
          /\ \A i \in j+1..Len(f) : f[i].key # k
    \/ v = NoVal /\ \A i \in 1..Len(f) : f[i].key # k

ValsOf(f, k) == {v \in ValsOrNone : IsValOf(f, k, v)}

(* A cached record, and the mark of a key that has none.  A tombstone is a *)
(* cached record whose value is NoVal.                                     *)
Entries == [cached : BOOLEAN, val : ValsOrNone, dirty : BOOLEAN]
Absent == [cached |-> FALSE, val |-> NoVal, dirty |-> FALSE]
Cached(v, d) == [cached |-> TRUE, val |-> v, dirty |-> d]

Dirty(p) == {k \in Keys : root[p][k].dirty}

(* What a power loss may leave of the file of inode i.                     *)
CrashContents(i) == older[i] \cup {SubSeq(data[i], 1, n) : n \in safe[i]..Len(data[i])}

(* Is there a write to the file of inode i that is not on the medium?      *)
Unsaved(i) == \/ safe[i] < Len(data[i])
              \/ \E p \in Procs : fd[p] = i /\ pc[p] = "append"

(* The file of inode i after a power loss: a record in flight may be torn. *)
Leftovers(i) ==
    CrashContents(i) \cup
    {Append(c, Torn) : c \in {d \in CrashContents(i) : Unsaved(i) /\ Len(d) < MaxLen}}

(* An inode that no name, saved name or descriptor refers to.              *)
FreeInode(i) == /\ i # store /\ i # tmp /\ i \notin storeDur
                /\ \A p \in Procs : /\ fd[p] # i /\ tfd[p] # i
                                    /\ \A m \in {"R", "W"} : <<i, m>> \notin leaked[p]

(* The handle is open and its lock has been checked against a prune.       *)
Loaded(p) == pc[p] \in {"ready", "append", "prune", "copy", "rename", "dirsync"}
Open(p) == Loaded(p) \/ pc[p] = "opened"

-----------------------------------------------------------------------------
Init ==
    /\ store = NoInode /\ tmp = NoInode /\ storeDur = {NoInode}
    /\ data = [i \in Inodes |-> <<>>]
    /\ safe = [i \in Inodes |-> 0]
    /\ older = [i \in Inodes |-> {}]
    /\ pc = [p \in Procs |-> "closed"]
    /\ mode = [p \in Procs |-> "R"]
    /\ fd = [p \in Procs |-> NoInode]
    /\ tfd = [p \in Procs |-> NoInode]
    /\ root = [p \in Procs |-> [k \in Keys |-> Absent]]
    /\ todo = [p \in Procs |-> {}]
    /\ closing = [p \in Procs |-> FALSE]
    /\ leaked = [p \in Procs |-> {}]
    /\ mishaps = 0
    /\ legal = [k \in Keys |-> {NoVal}]

(* Something goes wrong.                                                   *)
Mishap == mishaps < MaxMishaps /\ mishaps' = mishaps + 1
Fault(f) == f \in Faults /\ Mishap

(* A file that has just been created.                                      *)
Create(i) ==
    /\ FreeInode(i)
    /\ data' = [data EXCEPT ![i] = <<>>]
    /\ safe' = [safe EXCEPT ![i] = 0]
    /\ older' = [older EXCEPT ![i] = {}]

-----------------------------------------------------------------------------
(* psfs_open                                                               *)

(* The call, or a turn of its retry loop, as far as openat(): a writer     *)
(* creates a store that is not there.                                      *)
OpenFile(p, m) ==
    /\ pc[p] = "closed" \/ (pc[p] = "reopen" /\ mode[p] = m)
    /\ \/ /\ store # NoInode
          /\ fd' = [fd EXCEPT ![p] = store]
          /\ pc' = [pc EXCEPT ![p] = "wait"]
          /\ UNCHANGED files
       \/ /\ store = NoInode /\ m = "W"
          /\ \E i \in Inodes :
                /\ Create(i)
                /\ store' = i
                /\ storeDur' = storeDur \cup {i}
                /\ fd' = [fd EXCEPT ![p] = i]
          /\ pc' = [pc EXCEPT ![p] = "wait"]
          /\ UNCHANGED tmp
       \/ /\ store = NoInode /\ m = "R"
          /\ pc[p] = "reopen"
          /\ pc' = [pc EXCEPT ![p] = "closed"]
          /\ UNCHANGED <<files, fd>>
    /\ mode' = [mode EXCEPT ![p] = m]
    /\ UNCHANGED <<tfd, root, todo, closing, leaked, legal, mishaps>>

(* Mutant: the temporary file of a prune is not locked.                    *)
Blocks_NoTmpLock(q, p) ==
    /\ q # p
    /\ fd[q] = fd[p] /\ pc[q] \notin {"closed", "wait", "reopen"}
    /\ "W" \in {mode[p], mode[q]}

(* Mutant: a reader does not wait for a writer.                            *)
Blocks_NotReaders(q, p) ==
    /\ q # p
    /\ \/ fd[q] = fd[p] /\ pc[q] \notin {"closed", "wait", "reopen"} /\ mode[p] = "W"
       \/ tfd[q] = fd[p]

(* Does a record lock of q stop p from locking the file it has open?       *)
Blocks(q, p) ==
    /\ q # p
    /\ \/ fd[q] = fd[p] /\ pc[q] \notin {"closed", "wait", "reopen"}
                        /\ "W" \in {mode[p], mode[q]}
       \/ tfd[q] = fd[p]
       \/ \E m \in {"R", "W"} : /\ <<fd[p], m>> \in leaked[q]
                               /\ "W" \in {mode[p], m}

(* psfs_file_lock: F_SETLKW returns once no other lock is in the way.      *)
LockFile(p) ==
    /\ pc[p] = "wait"
    /\ \A q \in Procs : ~Blocks(q, p)
    /\ pc' = [pc EXCEPT ![p] = "locked"]
    /\ UNCHANGED <<files, mode, fd, tfd, root, todo, closing, leaked, legal, mishaps>>

(* A signal ends the wait: the test for EINTR looks at the return value,   *)
(* which is -1, and psfs_open takes its error exit.                        *)
LockInterrupted(p) ==
    /\ Fault("interrupt")
    /\ pc[p] = "wait"
    /\ pc' = [pc EXCEPT ![p] = "closed"]
    /\ fd' = [fd EXCEPT ![p] = NoInode]
    /\ UNCHANGED <<files, mode, tfd, root, todo, closing, leaked, legal>>

(* Mutant: the file is not checked once it is locked.                      *)
CheckInode_Unchecked(p) ==
    /\ pc[p] = "locked"
    /\ pc' = [pc EXCEPT ![p] = "opened"]
    /\ UNCHANGED <<files, mode, fd, tfd, root, todo, closing, leaked, legal, mishaps>>

(* The name and the descriptor are compared by inode number: a file that   *)
(* was pruned away meanwhile is closed and the loop starts over.  A store  *)
(* that was wiped meanwhile ends the call, which forgets the descriptor    *)
(* and leaves it open and locked.                                          *)
CheckInode(p) ==
    /\ pc[p] = "locked"
    /\ \/ /\ store = NoInode
          /\ pc' = [pc EXCEPT ![p] = "closed"]
          /\ fd' = [fd EXCEPT ![p] = NoInode]
          /\ leaked' = [leaked EXCEPT ![p] = @ \cup {<<fd[p], mode[p]>>}]
       \/ /\ store # NoInode /\ fd[p] # store
          /\ pc' = [pc EXCEPT ![p] = "reopen"]
          /\ fd' = [fd EXCEPT ![p] = NoInode]
          /\ UNCHANGED leaked
       \/ /\ store # NoInode /\ fd[p] = store
          /\ pc' = [pc EXCEPT ![p] = "opened"]
          /\ UNCHANGED <<fd, leaked>>
    /\ UNCHANGED <<files, mode, tfd, root, todo, closing, legal, mishaps>>

(* psfs_load, which osp_ps_open calls next: later records replace earlier  *)
(* ones and deleted keys are not cached.                                   *)
Load(p) ==
    /\ pc[p] = "opened"
    /\ \E val \in [Keys -> ValsOrNone] :
          /\ \A k \in Keys : IsValOf(data[fd[p]], k, val[k])
          /\ root' = [root EXCEPT ![p] = [k \in Keys |->
                         IF val[k] = NoVal THEN Absent ELSE Cached(val[k], FALSE)]]
    /\ pc' = [pc EXCEPT ![p] = "ready"]
    /\ UNCHANGED <<files, mode, fd, tfd, todo, closing, leaked, legal, mishaps>>

-----------------------------------------------------------------------------
(* psfs_set and psfs_erase                                                 *)

(* Deleting a key that is not cached does nothing; otherwise the old       *)
(* record is dropped and a dirty one, a tombstone for NoVal, takes its     *)
(* place.                                                                  *)
Set(p, k, v) ==
    /\ pc[p] = "ready" /\ mode[p] = "W"
    /\ v # NoVal \/ root[p][k].cached
    /\ root' = [root EXCEPT ![p][k] = Cached(v, TRUE)]
    /\ legal' = [legal EXCEPT ![k] = @ \cup {v}]
    /\ UNCHANGED <<files, pc, mode, fd, tfd, todo, closing, leaked, mishaps>>

(* osp_sec_encrypt fails: the old record is gone, the call returns -1.     *)
SetFails(p, k) ==
    /\ Fault("encrypt")
    /\ pc[p] = "ready" /\ mode[p] = "W"
    /\ root' = [root EXCEPT ![p][k] = Absent]
    /\ UNCHANGED <<files, pc, mode, fd, tfd, todo, closing, leaked, legal>>

(* Mutant: the records are freed and the tree is not initialised again.    *)
Erase_NoTree(p) ==
    /\ pc[p] = "ready" /\ mode[p] = "W"
    /\ root' = [root EXCEPT ![p] = <<>>]
    /\ UNCHANGED <<files, pc, mode, fd, tfd, todo, closing, leaked, legal, mishaps>>

(* psfs_erase truncates the file there and then.                           *)
Erase(p) ==
    /\ pc[p] = "ready" /\ mode[p] = "W"
    /\ Cardinality(CrashContents(fd[p])) <= MaxOlder
    /\ older' = [older EXCEPT ![fd[p]] = CrashContents(fd[p])]
    /\ data' = [data EXCEPT ![fd[p]] = <<>>]
    /\ safe' = [safe EXCEPT ![fd[p]] = 0]
    /\ root' = [root EXCEPT ![p] = [k \in Keys |-> Absent]]
    /\ legal' = [k \in Keys |-> legal[k] \cup {NoVal}]
    /\ UNCHANGED <<store, tmp, storeDur, pc, mode, fd, tfd, todo, closing, leaked, mishaps>>

-----------------------------------------------------------------------------
(* psfs_sync and psfs_close                                                *)

(* The end of a sync: psfs_close goes on to unlock and close the file and  *)
(* frees the cache, psfs_sync leaves the handle open.  newRoot and newFd   *)
(* are what the sync has made of the cache and the descriptor.             *)
Finish(p, newRoot, newFd) ==
    /\ pc' = [pc EXCEPT ![p] = IF closing[p] THEN "closed" ELSE "ready"]
    /\ fd' = [fd EXCEPT ![p] = IF closing[p] THEN NoInode ELSE newFd]
    /\ root' = [root EXCEPT ![p] = IF closing[p] THEN [k \in Keys |-> Absent]
                                                 ELSE newRoot]
    /\ tfd' = [tfd EXCEPT ![p] = NoInode]
    /\ todo' = [todo EXCEPT ![p] = {}]
    /\ closing' = [closing EXCEPT ![p] = FALSE]
    /\ UNCHANGED leaked

(* The call returned true: what the handle holds is now promised to be on  *)
(* the medium.  psfs_close still returns false over a dirty record.        *)
Promise(p) ==
    legal' = IF closing[p] /\ Dirty(p) # {}
             THEN legal
             ELSE [k \in Keys |-> {root[p][k].val}]

(* psfs_close of a handle that was opened for reading.                     *)
CloseReader(p) ==
    /\ pc[p] \in {"opened", "ready"} /\ mode[p] = "R"
    /\ pc' = [pc EXCEPT ![p] = "closed"]
    /\ fd' = [fd EXCEPT ![p] = NoInode]
    /\ root' = [root EXCEPT ![p] = [k \in Keys |-> Absent]]
    /\ UNCHANGED <<files, mode, tfd, todo, closing, leaked, legal, mishaps>>

(* psfs_sync and the call of it in psfs_close, up to the choice of the     *)
(* mode.  Byte counts and free space are abstracted: whatever they are,    *)
(* the outcome is one of append, prune and, on a full file system, refuse. *)
SyncAppend(p, close) ==
    /\ pc[p] = "ready" /\ mode[p] = "W"
    /\ Len(data[fd[p]]) < MaxLen
    /\ pc' = [pc EXCEPT ![p] = "append"]
    /\ closing' = [closing EXCEPT ![p] = close]
    /\ UNCHANGED <<files, mode, fd, tfd, root, todo, leaked, legal, mishaps>>

SyncPrune(p, close) ==
    /\ pc[p] = "ready" /\ mode[p] = "W"
    /\ pc' = [pc EXCEPT ![p] = "prune"]
    /\ closing' = [closing EXCEPT ![p] = close]
    /\ UNCHANGED <<files, mode, fd, tfd, root, todo, leaked, legal, mishaps>>

(* Refused for want of space: psfs_sync returns false with nothing done,   *)
(* psfs_close drops the cache.                                             *)
CloseRefused(p) ==
    /\ pc[p] = "ready" /\ mode[p] = "W"
    /\ pc' = [pc EXCEPT ![p] = "closed"]
    /\ fd' = [fd EXCEPT ![p] = NoInode]
    /\ root' = [root EXCEPT ![p] = [k \in Keys |-> Absent]]
    /\ UNCHANGED <<files, mode, tfd, todo, closing, leaked, legal, mishaps>>

(* psfs_sync_append: one turn of the loop, psfs_record_write of a dirty    *)
(* record to the end of the journal.                                       *)
AppendRecord(p, k) ==
    /\ pc[p] = "append" /\ root[p][k].dirty
    /\ data' = [data EXCEPT ![fd[p]] = Append(@, Rec(k, root[p][k].val))]
    /\ root' = [root EXCEPT ![p][k].dirty = FALSE]
    /\ UNCHANGED <<store, tmp, storeDur, safe, older,
                   pc, mode, fd, tfd, todo, closing, leaked, legal, mishaps>>

(* Mutant: records are marked clean before they are written.               *)
AppendFails_MarksClean(p) ==
    /\ Fault("append_write")
    /\ pc[p] = "append" /\ Dirty(p) # {}
    /\ Finish(p, [k \in Keys |-> [root[p][k] EXCEPT !.dirty = FALSE]], fd[p])
    /\ UNCHANGED <<files, mode, legal>>

(* writev() fails or is short, which leaves part of a record.              *)
AppendFails(p) ==
    /\ Fault("append_write")
    /\ pc[p] = "append" /\ Dirty(p) # {}
    /\ \/ data' = [data EXCEPT ![fd[p]] = Append(@, Torn)]
       \/ UNCHANGED data
    /\ Finish(p, root[p], fd[p])
    /\ UNCHANGED <<store, tmp, storeDur, safe, older, mode, legal>>

(* Everything is written and fsync() returns.                              *)
AppendFsync(p) ==
    /\ pc[p] = "append" /\ Dirty(p) = {}
    /\ safe' = [safe EXCEPT ![fd[p]] = Len(data[fd[p]])]
    /\ older' = [older EXCEPT ![fd[p]] = {}]
    /\ storeDur' = IF FsyncSavesName /\ fd[p] = store THEN {store} ELSE storeDur
    /\ Promise(p)
    /\ Finish(p, root[p], fd[p])
    /\ UNCHANGED <<store, tmp, data, mode, mishaps>>

(* fsync() fails, which is logged and not reported.                        *)
AppendFsyncFails(p) ==
    /\ Fault("append_fsync")
    /\ pc[p] = "append" /\ Dirty(p) = {}
    /\ Promise(p)
    /\ Finish(p, root[p], fd[p])
    /\ UNCHANGED <<files, mode>>

-----------------------------------------------------------------------------
(* psfs_sync_prune                                                         *)

(* A stale temporary file is removed, a new one created and locked; the    *)
(* lock of a file nobody else can have open is granted at once.            *)
PruneOpen(p) ==
    /\ pc[p] = "prune"
    /\ \E i \in Inodes :
          /\ Create(i)
          /\ tmp' = i
          /\ tfd' = [tfd EXCEPT ![p] = i]
    /\ todo' = [todo EXCEPT ![p] = {k \in Keys : root[p][k].cached}]
    /\ pc' = [pc EXCEPT ![p] = "copy"]
    /\ UNCHANGED <<store, storeDur, mode, fd, root, closing, leaked, legal, mishaps>>

PruneOpenFails(p) ==
    /\ Fault("tmp_open")
    /\ pc[p] = "prune"
    /\ tmp' = NoInode
    /\ Finish(p, root[p], fd[p])
    /\ UNCHANGED <<store, storeDur, data, safe, older, mode, legal>>

(* One turn of the copy loop: a tombstone is dropped, any other record is  *)
(* written to the temporary file and marked clean.                         *)
PruneRecord(p, k) ==
    /\ pc[p] = "copy" /\ k \in todo[p]
    /\ todo' = [todo EXCEPT ![p] = @ \ {k}]
    /\ \/ /\ root[p][k].val = NoVal
          /\ root' = [root EXCEPT ![p][k] = Absent]
          /\ UNCHANGED data
       \/ /\ root[p][k].val # NoVal
          /\ data' = [data EXCEPT ![tfd[p]] = Append(@, Rec(k, root[p][k].val))]
          /\ root' = [root EXCEPT ![p][k].dirty = FALSE]
    /\ UNCHANGED <<store, tmp, storeDur, safe, older,
                   pc, mode, fd, tfd, closing, leaked, legal, mishaps>>

(* The write fails: the loop goes on to the next record.                   *)
PruneRecordFails(p, k) ==
    /\ Fault("prune_write")
    /\ pc[p] = "copy" /\ k \in todo[p] /\ root[p][k].val # NoVal
    /\ todo' = [todo EXCEPT ![p] = @ \ {k}]
    /\ \/ data' = [data EXCEPT ![tfd[p]] = Append(@, Torn)]
       \/ UNCHANGED data
    /\ UNCHANGED <<store, tmp, storeDur, safe, older,
                   pc, mode, fd, tfd, root, closing, leaked, legal>>

(* Mutant: the temporary file is renamed before it is on the medium.       *)
PruneFsync_Skipped(p) ==
    /\ pc[p] = "copy" /\ todo[p] = {}
    /\ pc' = [pc EXCEPT ![p] = "rename"]
    /\ UNCHANGED <<files, mode, fd, tfd, root, todo, closing, leaked, legal, mishaps>>

(* fsync() of the temporary file.                                          *)
PruneFsync(p) ==
    /\ pc[p] = "copy" /\ todo[p] = {}
    /\ safe' = [safe EXCEPT ![tfd[p]] = Len(data[tfd[p]])]
    /\ pc' = [pc EXCEPT ![p] = "rename"]
    /\ UNCHANGED <<store, tmp, storeDur, data, older,
                   mode, fd, tfd, root, todo, closing, leaked, legal, mishaps>>

PruneFsyncFails(p) ==
    /\ Fault("tmp_fsync")
    /\ pc[p] = "copy" /\ todo[p] = {}
    /\ Finish(p, root[p], fd[p])
    /\ UNCHANGED <<files, mode, legal>>

(* renameat() makes the temporary file the store.                          *)
PruneRename(p) ==
    /\ pc[p] = "rename" /\ tmp # NoInode
    /\ store' = tmp
    /\ storeDur' = storeDur \cup {tmp}
    /\ tmp' = NoInode
    /\ pc' = [pc EXCEPT ![p] = "dirsync"]
    /\ UNCHANGED <<data, safe, older, mode, fd, tfd, root, todo, closing, leaked, legal, mishaps>>

(* The temporary file is gone, or the call fails.                          *)
PruneRenameFails(p) ==
    /\ pc[p] = "rename"
    /\ \/ tmp = NoInode /\ UNCHANGED mishaps
       \/ Fault("rename")
    /\ Finish(p, root[p], fd[p])
    /\ UNCHANGED <<files, mode, legal>>

(* fsync() of the directory, after which the old file is closed and the    *)
(* handle goes on with the new one.                                        *)
PruneDirFsync(p) ==
    /\ pc[p] = "dirsync"
    /\ storeDur' = {store}
    /\ Promise(p)
    /\ Finish(p, root[p], tfd[p])
    /\ UNCHANGED <<store, tmp, data, safe, older, mode, mishaps>>

(* The new file is closed: the handle goes on with the old one, which has  *)
(* no name any more.                                                       *)
PruneDirFsyncFails(p) ==
    /\ Fault("dir_fsync")
    /\ pc[p] = "dirsync"
    /\ Finish(p, root[p], fd[p])
    /\ UNCHANGED <<files, mode, legal>>

-----------------------------------------------------------------------------
(* What comes from outside                                                 *)

(* psfs_wipe, as far as this store is concerned: its files are unlinked,   *)
(* with no regard to locks.                                                *)
Wipe ==
    /\ Fault("wipe")
    /\ store' = NoInode
    /\ tmp' = NoInode
    /\ storeDur' = storeDur \cup {NoInode}
    /\ legal' = [k \in Keys |-> legal[k] \cup {NoVal}]
    /\ UNCHANGED <<data, safe, older, procs>>

(* A process ends anywhere: the kernel closes its descriptors, which ends  *)
(* its locks.  Files stay as they are.                                     *)
Kill(p) ==
    /\ Mishap
    /\ pc[p] # "closed" \/ leaked[p] # {}
    /\ leaked' = [leaked EXCEPT ![p] = {}]
    /\ pc' = [pc EXCEPT ![p] = "closed"]
    /\ fd' = [fd EXCEPT ![p] = NoInode]
    /\ tfd' = [tfd EXCEPT ![p] = NoInode]
    /\ root' = [root EXCEPT ![p] = [k \in Keys |-> Absent]]
    /\ todo' = [todo EXCEPT ![p] = {}]
    /\ closing' = [closing EXCEPT ![p] = FALSE]
    /\ UNCHANGED <<files, mode, legal>>

(* Power is lost: the medium decides what the store's name refers to and   *)
(* what of its file is left.  What is then found stays.  A temporary file  *)
(* may be found too; it is never read.                                     *)
PowerLoss ==
    /\ Mishap
    /\ \E s \in storeDur :
          /\ store' = s
          /\ storeDur' = {s}
          /\ \/ /\ s = NoInode
                /\ legal' = [k \in Keys |-> {NoVal}]
                /\ UNCHANGED <<data, safe, older>>
             \/ /\ s # NoInode
                /\ \E f \in Leftovers(s) :
                      /\ data' = [data EXCEPT ![s] = f]
                      /\ safe' = [safe EXCEPT ![s] = Len(f)]
                      /\ older' = [older EXCEPT ![s] = {}]
                      /\ legal' = [k \in Keys |-> ValsOf(f, k)]
    /\ tmp' = NoInode
    /\ pc' = [p \in Procs |-> "closed"]
    /\ fd' = [p \in Procs |-> NoInode]
    /\ tfd' = [p \in Procs |-> NoInode]
    /\ root' = [p \in Procs |-> [k \in Keys |-> Absent]]
    /\ todo' = [p \in Procs |-> {}]
    /\ closing' = [p \in Procs |-> FALSE]
    /\ leaked' = [p \in Procs |-> {}]
    /\ UNCHANGED mode

-----------------------------------------------------------------------------
Step(p) ==
    \/ \E m \in {"R", "W"} : OpenFile(p, m)
    \/ LockFile(p) \/ LockInterrupted(p) \/ CheckInode(p) \/ Load(p)
    \/ \E k \in Keys, v \in ValsOrNone : Set(p, k, v)
    \/ \E k \in Keys : SetFails(p, k)
    \/ Erase(p) \/ CloseReader(p) \/ CloseRefused(p)
    \/ \E close \in BOOLEAN : SyncAppend(p, close) \/ SyncPrune(p, close)
    \/ \E k \in Keys : AppendRecord(p, k)
    \/ AppendFails(p) \/ AppendFsync(p) \/ AppendFsyncFails(p)
    \/ PruneOpen(p) \/ PruneOpenFails(p)
    \/ \E k \in Keys : PruneRecord(p, k) \/ PruneRecordFails(p, k)
    \/ PruneFsync(p) \/ PruneFsyncFails(p)
    \/ PruneRename(p) \/ PruneRenameFails(p)
    \/ PruneDirFsync(p) \/ PruneDirFsyncFails(p)
    \/ Kill(p)

Next == (\E p \in Procs : Step(p)) \/ Wipe \/ PowerLoss

Spec == Init /\ [][Next]_vars

-----------------------------------------------------------------------------
(* Properties                                                              *)

(* The variables hold what the declarations of psfs.h allow.               *)
PcValues == {"closed", "reopen", "wait", "locked", "opened", "ready",
             "append", "prune", "copy", "rename", "dirsync"}
FilesTypeOK ==
    /\ store \in InodesOrNone /\ tmp \in InodesOrNone
    /\ storeDur \subseteq InodesOrNone
    /\ data \in [Inodes -> Seq(Records)]
    /\ safe \in [Inodes -> Nat]
    /\ older \in [Inodes -> SUBSET Seq(Records)]
HandlesTypeOK ==
    /\ pc \in [Procs -> PcValues]
    /\ mode \in [Procs -> {"R", "W"}]
    /\ fd \in [Procs -> InodesOrNone]
    /\ tfd \in [Procs -> InodesOrNone]
    /\ root \in [Procs -> [Keys -> Entries]]
    /\ todo \in [Procs -> SUBSET Keys]
    /\ closing \in [Procs -> BOOLEAN]
    /\ leaked \in [Procs -> SUBSET (Inodes \X {"R", "W"})]
TypeOK ==
    /\ FilesTypeOK
    /\ HandlesTypeOK
    /\ mishaps \in 0..MaxMishaps
    /\ legal \in [Keys -> SUBSET ValsOrNone]

(* Durability, the promise of psfs_sync and psfs_close: whenever power is  *)
(* lost, each key is left with the value of the last sync that returned    *)
(* true or with one that was set after it, whatever the store's name and   *)
(* its file come back as.                                                  *)
CrashSafe ==
    \A i \in storeDur :
        IF i = NoInode
        THEN \A k \in Keys : NoVal \in legal[k]
        ELSE \A c \in CrashContents(i), k \in Keys : ValsOf(c, k) \subseteq legal[k]

(* The lock of psfs_file_lock: two processes have handles on one file only *)
(* if both read, a prune that moves the lock to a new file included.       *)
LockExcludes ==
    \A p, q \in Procs :
        p # q /\ Open(p) /\ Open(q) /\ fd[p] = fd[q] => mode[p] = "R" /\ mode[q] = "R"

(* The retry loop of psfs_open does its job: a handle that is open is on   *)
(* the file that has the store's name, so a writer excludes every other    *)
(* handle and nothing is ever written to a file that was pruned away.      *)
OneStore ==
    \A p \in Procs :
        Open(p) => store = IF pc[p] = "dirsync" THEN tfd[p] ELSE fd[p]

(* A handle's cache is the store: what psfs_get returns for a key that has *)
(* not been set through this handle is what the journal holds, for as long *)
(* as the handle is open.                                                  *)
CacheCoherent ==
    \A p \in Procs, k \in Keys :
        pc[p] \in {"ready", "append", "prune"} /\ ~root[p][k].dirty =>
            IsValOf(data[fd[p]], k, root[p][k].val)

(* A reader's cache is its file, whatever fails: no writer gets at a file  *)
(* that a reader has locked.                                               *)
ReaderSnapshot ==
    \A p \in Procs, k \in Keys :
        pc[p] = "ready" /\ mode[p] = "R" => IsValOf(data[fd[p]], k, root[p][k].val)
=============================================================================
