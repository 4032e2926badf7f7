--------------------------- MODULE PsfsDataProofs ---------------------------
(* Proofs about what Psfs keeps: the cache of a handle, the journal, and   *)
(* what a power loss leaves of it.                                         *)
EXTENDS PsfsProofs, SequenceTheorems

-----------------------------------------------------------------------------
(* What psfs_load makes of a journal                                       *)

(* The journal has no record of key k.                                     *)
Without(f, k) == \A i \in 1..Len(f) : f[i].key # k

(* A journal without a record of the key gives it no value.                *)
LEMMA WithoutNoVal ==
    ASSUME NEW f \in Seq(Records), NEW k \in Keys, Without(f, k)
    PROVE  IsValOf(f, k, NoVal)
BY Zenon DEF IsValOf, Without

(* The last record decides, so psfs_load has no choice.                    *)
LEMMA ValUnique ==
    ASSUME NEW f \in Seq(Records), NEW k \in Keys, NEW v, NEW w,
           IsValOf(f, k, v), IsValOf(f, k, w)
    PROVE  v = w
BY DEF IsValOf

(* A record at the end of the journal is the value of its key.             *)
LEMMA AppendSets ==
    ASSUME NEW f \in Seq(Records), NEW k \in Keys, NEW v \in ValsOrNone
    PROVE  IsValOf(Append(f, Rec(k, v)), k, v)
<1>1. Rec(k, v) \in Records
  BY RecType, Zenon
<1>2. /\ Len(Append(f, Rec(k, v))) = Len(f) + 1
      /\ Append(f, Rec(k, v))[Len(f) + 1] = Rec(k, v)
  BY <1>1
<1>3. Len(f) \in Nat
  OBVIOUS
<1>. QED BY <1>2, <1>3 DEF IsValOf, Rec

(* A record of another key, or a torn one, changes nothing for the key.    *)
LEMMA AppendKeeps ==
    ASSUME NEW f \in Seq(Records), NEW r \in Records, NEW k \in Keys, r.key # k
    PROVE  /\ Without(Append(f, r), k) <=> Without(f, k)
           /\ \A v : IsValOf(Append(f, r), k, v) <=> IsValOf(f, k, v)
<1> DEFINE g == Append(f, r)
<1>1. /\ Len(f) \in Nat /\ Len(g) = Len(f) + 1 /\ g[Len(f) + 1] = r
      /\ \A i \in 1..Len(f) : g[i] = f[i]
  OBVIOUS
<1> HIDE DEF g
<1>2. Without(g, k) <=> Without(f, k)
  BY <1>1 DEF Without
<1>3. ASSUME NEW v PROVE IsValOf(g, k, v) <=> IsValOf(f, k, v)
  <2>1. ASSUME NEW j \in 1..Len(f)
        PROVE  (\A i \in j+1..Len(g) : g[i].key # k) <=> (\A i \in j+1..Len(f) : f[i].key # k)
    BY <1>1
  <2>2. (\E j \in 1..Len(g) : g[j].key = k /\ g[j].val = v /\ \A i \in j+1..Len(g) : g[i].key # k)
        <=> (\E j \in 1..Len(f) : f[j].key = k /\ f[j].val = v /\ \A i \in j+1..Len(f) : f[i].key # k)
    <3>1. \A j \in 1..Len(g) : j \in 1..Len(f) \/ g[j].key # k
      BY <1>1
    <3>2. \A j \in 1..Len(f) : j \in 1..Len(g)
      BY <1>1
    <3>. QED BY <1>1, <2>1, <3>1, <3>2, Zenon
  <2>. QED BY <1>2, <2>2, Zenon DEF IsValOf, Without
<1>. QED BY <1>2, <1>3, Zenon DEF g
-----------------------------------------------------------------------------
(* The caches                                                              *)

Copying(p) == pc[p] \in {"copy", "rename", "dirsync"}

(* A reader's cache is its file.                                           *)
SnapshotAt(p) ==
    pc[p] = "ready" /\ mode[p] = "R" => \A k \in Keys : IsValOf(data[fd[p]], k, root[p][k].val)

(* A handle's cache and the file it belongs to: the journal, or during a   *)
(* prune the copy, which has the keys the loop has visited and no others.  *)
CacheAt(p) ==
    /\ \A k \in Keys : ~root[p][k].cached => root[p][k] = Absent
    /\ pc[p] \in {"ready", "append", "prune"} =>
          \A k \in Keys : ~root[p][k].dirty => IsValOf(data[fd[p]], k, root[p][k].val)
    /\ Copying(p) =>
          \A k \in Keys :
              IF k \in todo[p]
              THEN root[p][k].cached /\ Without(data[tfd[p]], k)
              ELSE ~root[p][k].dirty /\ IsValOf(data[tfd[p]], k, root[p][k].val)
    /\ pc[p] \in {"rename", "dirsync"} => todo[p] = {}

CacheInv == \A p \in Procs : CacheAt(p)

-----------------------------------------------------------------------------
(* The medium                                                              *)

(* What the promise of the interface rests on: the name that is in use is  *)
(* one that may be found again, no more of a file is on the medium than is *)
(* in it, every value a writer has cached is one that may be left, and the *)
(* copy of a prune reaches the medium before the name can refer to it.     *)
MediumAt(p) ==
    /\ Loaded(p) => \A k \in Keys : root[p][k].val \in legal[k]
    /\ Copying(p) => older[tfd[p]] = {}
    /\ pc[p] \in {"copy", "rename"} => tfd[p] \notin storeDur
    /\ pc[p] \in {"rename", "dirsync"} => safe[tfd[p]] = Len(data[tfd[p]])

MediumInv ==
    /\ store \in storeDur
    /\ \A i \in Inodes : safe[i] <= Len(data[i])
    /\ \A p \in Procs : MediumAt(p)
-----------------------------------------------------------------------------
(* A step of one process leaves the handles of the others and the files    *)
(* they have locked alone                                                  *)

OthersSame(p) ==
    \A q \in Procs \ {p} :
        /\ pc'[q] = pc[q] /\ mode'[q] = mode[q] /\ fd'[q] = fd[q] /\ tfd'[q] = tfd[q]
        /\ root'[q] = root[q] /\ todo'[q] = todo[q]

(* The only file a step of p may change.                                   *)
Touches(p, i) ==
    \/ FreeInode(i)
    \/ i = fd[p] /\ Holds(p) /\ mode[p] = "W"
    \/ i = tfd[p] /\ tfd[p] # NoInode

FilesSameBut(i) ==
    \A j \in Inodes \ {i} : data'[j] = data[j] /\ safe'[j] = safe[j] /\ older'[j] = older[j]

(* A step of a process changes at most one file, and one that it may       *)
(* touch.                                                                  *)
LEMMA StepTouches ==
    ASSUME TypeOK, HandleOK, NEW p \in Procs, Step(p)
    PROVE  \/ UNCHANGED <<data, safe, older>>
           \/ \E i \in Inodes : Touches(p, i) /\ FilesSameBut(i)
<1>a. FilesTypeOK /\ HandlesTypeOK
  BY Zenon DEF TypeOK
<1>1. CASE \/ (\E m \in {"R", "W"} : OpenFile(p, m)) \/ PruneOpen(p)
  <2>1. UNCHANGED <<data, safe, older>> \/ \E i \in Inodes : Create(i)
    BY <1>1, Zenon DEF OpenFile, PruneOpen, files
  <2>2. ASSUME NEW i \in Inodes, Create(i) PROVE Touches(p, i) /\ FilesSameBut(i)
    BY <1>a, <2>2, Zenon DEF Create, Touches, FilesSameBut, FilesTypeOK
  <2>. QED BY <2>1, <2>2, Zenon
<1>2. CASE \/ LockFile(p) \/ LockInterrupted(p) \/ CheckInode(p) \/ Load(p)
           \/ (\E k \in Keys, v \in ValsOrNone : Set(p, k, v))
           \/ (\E k \in Keys : SetFails(p, k)) \/ CloseReader(p) \/ CloseRefused(p)
           \/ (\E close \in BOOLEAN : SyncAppend(p, close) \/ SyncPrune(p, close))
           \/ AppendFsyncFails(p) \/ PruneOpenFails(p) \/ PruneFsyncFails(p) \/ PruneRename(p)
           \/ PruneRenameFails(p) \/ PruneDirFsync(p) \/ PruneDirFsyncFails(p) \/ Kill(p)
  BY <1>2, Zenon DEF LockFile, LockInterrupted, CheckInode, Load, Set, SetFails, CloseReader,
     CloseRefused, SyncAppend, SyncPrune, AppendFsyncFails, PruneOpenFails, PruneFsyncFails,
     PruneRename, PruneRenameFails, PruneDirFsync, PruneDirFsyncFails, Kill, files
<1>3. CASE \/ Erase(p) \/ (\E k \in Keys : AppendRecord(p, k)) \/ AppendFails(p) \/ AppendFsync(p)
  <2>1. pc[p] \in {"ready", "append"} /\ mode[p] = "W"
    BY <1>3, Zenon DEF Erase, AppendRecord, AppendFails, AppendFsync, HandleOK
  <2>2. fd[p] \in Inodes
    BY <1>a, <2>1, Zenon DEF HandleOK, HandlesTypeOK, InodesOrNone
  <2>3. /\ data' = data \/ \E f : data' = [data EXCEPT ![fd[p]] = f]
        /\ safe' = safe \/ \E n : safe' = [safe EXCEPT ![fd[p]] = n]
        /\ older' = older \/ \E o : older' = [older EXCEPT ![fd[p]] = o]
    BY <1>3, Zenon DEF Erase, AppendRecord, AppendFails, AppendFsync
  <2>4. FilesSameBut(fd[p])
    BY <1>a, <2>2, <2>3, Zenon DEF FilesSameBut, FilesTypeOK
  <2>. QED BY <2>1, <2>2, <2>4, Zenon DEF Touches, Holds
<1>4. CASE \/ PruneFsync(p) \/ \E k \in Keys : PruneRecord(p, k) \/ PruneRecordFails(p, k)
  <2>1. pc[p] = "copy"
    BY <1>4, Zenon DEF PruneFsync, PruneRecord, PruneRecordFails
  <2>2. tfd[p] \in Inodes /\ tfd[p] # NoInode
    BY <1>a, <2>1, Zenon DEF HandleOK, HandlesTypeOK, InodesOrNone
  <2>3. /\ data' = data \/ \E f : data' = [data EXCEPT ![tfd[p]] = f]
        /\ safe' = safe \/ \E n : safe' = [safe EXCEPT ![tfd[p]] = n]
        /\ older' = older
    BY <1>4, Zenon DEF PruneFsync, PruneRecord, PruneRecordFails
  <2>4. FilesSameBut(tfd[p])
    BY <1>a, <2>2, <2>3, Zenon DEF FilesSameBut, FilesTypeOK
  <2>. QED BY <2>2, <2>4, Zenon DEF Touches
<1>. QED BY <1>1, <1>2, <1>3, <1>4, Zenon DEF Step

(* A step of a process leaves the handles of the others alone.             *)
LEMMA StepIsLocal ==
    ASSUME TypeOK, NEW p \in Procs, Step(p)
    PROVE  OthersSame(p)
<1>a. HandlesTypeOK
  BY Zenon DEF TypeOK
<1>1. /\ pc' = pc \/ \E x : pc' = [pc EXCEPT ![p] = x]
      /\ mode' = mode \/ \E x : mode' = [mode EXCEPT ![p] = x]
      /\ fd' = fd \/ \E x : fd' = [fd EXCEPT ![p] = x]
      /\ tfd' = tfd \/ \E x : tfd' = [tfd EXCEPT ![p] = x]
      /\ root' = root \/ \E x : root' = [root EXCEPT ![p] = x]
      /\ todo' = todo \/ \E x : todo' = [todo EXCEPT ![p] = x]
  <2>1. CASE \/ (\E m \in {"R", "W"} : OpenFile(p, m))
             \/ LockFile(p) \/ LockInterrupted(p) \/ CheckInode(p) \/ Load(p)
    BY <2>1, Zenon DEF OpenFile, LockFile, LockInterrupted, CheckInode, Load
  <2>2. CASE \/ (\E k \in Keys, v \in ValsOrNone : Set(p, k, v))
             \/ (\E k \in Keys : SetFails(p, k))
             \/ Erase(p) \/ CloseReader(p) \/ CloseRefused(p)
             \/ \E close \in BOOLEAN : SyncAppend(p, close) \/ SyncPrune(p, close)
    BY <2>2, Zenon DEF Set, SetFails, Erase, CloseReader, CloseRefused, SyncAppend, SyncPrune
  <2>3. CASE \E k \in Keys : AppendRecord(p, k) \/ PruneRecord(p, k) \/ PruneRecordFails(p, k)
    BY <2>3, Zenon DEF AppendRecord, PruneRecord, PruneRecordFails
  <2>4. CASE \/ AppendFails(p) \/ AppendFsync(p) \/ AppendFsyncFails(p) \/ PruneOpenFails(p)
             \/ PruneFsyncFails(p) \/ PruneRenameFails(p) \/ PruneDirFsyncFails(p)
             \/ PruneDirFsync(p)
    <3>1. \E f : Finish(p, root[p], f) /\ mode' = mode
      BY <2>4, Zenon DEF AppendFails, AppendFsync, AppendFsyncFails, PruneOpenFails,
         PruneFsyncFails, PruneRenameFails, PruneDirFsyncFails, PruneDirFsync
    <3>. QED BY <3>1, Zenon DEF Finish
  <2>5. CASE PruneOpen(p) \/ PruneFsync(p) \/ PruneRename(p) \/ Kill(p)
    BY <2>5, Zenon DEF PruneOpen, PruneFsync, PruneRename, Kill
  <2>. QED BY <2>1, <2>2, <2>3, <2>4, <2>5, Zenon DEF Step
<1>. QED BY <1>a, <1>1, Zenon DEF HandlesTypeOK, OthersSame

(* The file a process has locked, and the copy it is writing, are its own. *)
LEMMA OthersKept ==
    ASSUME TypeOK, HandleOK, LockInv, NEW p \in Procs, Step(p),
           NEW q \in Procs, q # p
    PROVE  /\ Holds(q) => data'[fd[q]] = data[fd[q]]
           /\ tfd[q] # NoInode => /\ data'[tfd[q]] = data[tfd[q]]
                                  /\ safe'[tfd[q]] = safe[tfd[q]]
                                  /\ older'[tfd[q]] = older[tfd[q]]
<1>a. HandlesTypeOK
  BY Zenon DEF TypeOK
<1>1. CASE UNCHANGED <<data, safe, older>>
  BY <1>1, Zenon
<1>2. ASSUME NEW i \in Inodes, Touches(p, i), FilesSameBut(i)
      PROVE  /\ Holds(q) => data'[fd[q]] = data[fd[q]]
             /\ tfd[q] # NoInode => /\ data'[tfd[q]] = data[tfd[q]]
                                    /\ safe'[tfd[q]] = safe[tfd[q]]
                                    /\ older'[tfd[q]] = older[tfd[q]]
  <2>1. Holds(q) => fd[q] \in Inodes /\ fd[q] # i
    <3>1. Holds(q) => fd[q] \in Inodes
      BY <1>a, Zenon DEF HandleOK, Holds, HandlesTypeOK, InodesOrNone
    <3>2. CASE FreeInode(i)
      BY <3>1, <3>2, Zenon DEF FreeInode
    <3>3. CASE i = fd[p] /\ Holds(p) /\ mode[p] = "W"
      BY <3>1, <3>3, Zenon DEF LockInv
    <3>4. CASE i = tfd[p] /\ tfd[p] # NoInode
      BY <3>1, <3>4, Zenon DEF LockInv
    <3>. QED BY <1>2, <3>2, <3>3, <3>4, Zenon DEF Touches
  <2>2. tfd[q] # NoInode => tfd[q] \in Inodes /\ tfd[q] # i
    <3>1. tfd[q] # NoInode => tfd[q] \in Inodes
      BY <1>a, Zenon DEF HandlesTypeOK, InodesOrNone
    <3>2. CASE FreeInode(i)
      BY <3>1, <3>2, Zenon DEF FreeInode
    <3>3. CASE i = fd[p] /\ Holds(p) /\ mode[p] = "W"
      BY <3>1, <3>3, Zenon DEF LockInv
    <3>4. CASE i = tfd[p] /\ tfd[p] # NoInode
      BY <3>1, <3>4, Zenon DEF LockInv
    <3>. QED BY <1>2, <3>2, <3>3, <3>4, Zenon DEF Touches
  <2>. QED BY <1>2, <2>1, <2>2, Zenon DEF FilesSameBut
<1>. QED BY <1>1, <1>2, StepTouches, Zenon
-----------------------------------------------------------------------------
(* Readers, whatever fails                                                 *)

(* What psfs_load puts into the cache is what the journal holds.           *)
LEMMA LoadReads ==
    ASSUME TypeOK, HandleOK, NEW p \in Procs, Load(p)
    PROVE  /\ pc[p] = "opened" /\ pc'[p] = "ready" /\ fd'[p] = fd[p] /\ data' = data
           /\ \A k \in Keys : /\ IsValOf(data[fd[p]], k, root'[p][k].val)
                              /\ ~root'[p][k].dirty
                              /\ ~root'[p][k].cached => root'[p][k] = Absent
<1>a. HandlesTypeOK
  BY Zenon DEF TypeOK
<1>1. PICK val \in [Keys -> ValsOrNone] :
          /\ \A k \in Keys : IsValOf(data[fd[p]], k, val[k])
          /\ root' = [root EXCEPT ![p] = [k \in Keys |->
                         IF val[k] = NoVal THEN Absent ELSE Cached(val[k], FALSE)]]
  BY Zenon DEF Load
<1>2. \A k \in Keys : root'[p][k] = IF val[k] = NoVal THEN Absent ELSE Cached(val[k], FALSE)
  BY <1>a, <1>1, Zenon DEF HandlesTypeOK
<1>3. \A k \in Keys : /\ root'[p][k].val = val[k] /\ ~root'[p][k].dirty
                      /\ ~root'[p][k].cached => root'[p][k] = Absent
  <2>1. /\ Absent.val = NoVal /\ ~Absent.dirty
        /\ \A v : LET e == Cached(v, FALSE) IN e.val = v /\ ~e.dirty /\ e.cached
    BY Zenon DEF Absent, Cached
  <2>2. ASSUME NEW k \in Keys
        PROVE  /\ root'[p][k].val = val[k] /\ ~root'[p][k].dirty
               /\ ~root'[p][k].cached => root'[p][k] = Absent
    BY <1>2, <2>1, Zenon
  <2>. QED BY <2>2, Zenon
<1>4. pc[p] = "opened" /\ pc'[p] = "ready" /\ fd'[p] = fd[p] /\ data' = data
  BY <1>a, Zenon DEF Load, files, HandlesTypeOK
<1>. QED BY <1>1, <1>3, <1>4, Zenon

(* No step but psfs_load makes a handle of a reader usable.                *)
LEMMA SnapshotStep ==
    ASSUME TypeOK, HandleOK, LockInv, \A p \in Procs : SnapshotAt(p), [Next]_vars
    PROVE  \A p \in Procs : SnapshotAt(p)'
<1>a. HandlesTypeOK
  BY Zenon DEF TypeOK
<1>1. ASSUME NEW p \in Procs, Step(p), NEW q \in Procs, q # p PROVE SnapshotAt(q)'
  <2>1. /\ pc'[q] = pc[q] /\ mode'[q] = mode[q] /\ fd'[q] = fd[q] /\ root'[q] = root[q]
        /\ Holds(q) => data'[fd[q]] = data[fd[q]]
    BY <1>1, StepIsLocal, OthersKept, Zenon DEF OthersSame
  <2>. QED BY <2>1, Zenon DEF SnapshotAt, Holds
<1>2. ASSUME NEW p \in Procs, Step(p) PROVE SnapshotAt(p)'
  <2>1. CASE Load(p)
    BY <2>1, LoadReads, Zenon DEF SnapshotAt
  <2>2. CASE (\E m \in {"R", "W"} : OpenFile(p, m)) \/ LockFile(p) \/ LockInterrupted(p)
             \/ CheckInode(p) \/ CloseReader(p) \/ CloseRefused(p) \/ Kill(p)
    <3>1. \E x \in {"closed", "reopen", "wait", "locked", "opened"} : pc' = [pc EXCEPT ![p] = x]
      BY <2>2, Zenon DEF OpenFile, LockFile, LockInterrupted, CheckInode, CloseReader,
         CloseRefused, Kill
    <3>. QED BY <1>a, <3>1, Zenon DEF SnapshotAt, HandlesTypeOK
  <2>3. CASE \/ (\E k \in Keys, v \in ValsOrNone : Set(p, k, v))
             \/ (\E k \in Keys : SetFails(p, k)) \/ Erase(p)
             \/ (\E close \in BOOLEAN : SyncAppend(p, close) \/ SyncPrune(p, close))
             \/ (\E k \in Keys : AppendRecord(p, k) \/ PruneRecord(p, k) \/ PruneRecordFails(p, k))
             \/ AppendFails(p) \/ AppendFsync(p) \/ AppendFsyncFails(p) \/ PruneOpenFails(p)
             \/ PruneFsyncFails(p) \/ PruneRenameFails(p) \/ PruneDirFsyncFails(p)
             \/ PruneDirFsync(p) \/ PruneOpen(p) \/ PruneFsync(p) \/ PruneRename(p)
    <3>1. /\ pc[p] \in {"append", "prune", "copy", "rename", "dirsync"} \/ mode[p] = "W"
          /\ mode' = mode
      BY <2>3, Zenon DEF Set, SetFails, Erase, SyncAppend, SyncPrune, AppendRecord, PruneRecord,
         PruneRecordFails, AppendFails, AppendFsync, AppendFsyncFails, PruneOpenFails,
         PruneFsyncFails, PruneRenameFails, PruneDirFsyncFails, PruneDirFsync, PruneOpen,
         PruneFsync, PruneRename
    <3>. QED BY <1>a, <3>1, Zenon DEF SnapshotAt, HandleOK
  <2>. QED BY <1>2, <2>1, <2>2, <2>3, Zenon DEF Step
<1>3. ASSUME PowerLoss PROVE \A p \in Procs : SnapshotAt(p)'
  BY <1>3, Zenon DEF PowerLoss, SnapshotAt
<1>4. ASSUME Wipe \/ UNCHANGED vars PROVE \A p \in Procs : SnapshotAt(p)'
  BY <1>4, Zenon DEF Wipe, vars, procs, SnapshotAt
<1>. QED BY <1>1, <1>2, <1>3, <1>4, Zenon DEF Next

(* Whatever fails, and whatever other processes do meanwhile, a reader's   *)
(* psfs_get answers from the file it has locked.                           *)
THEOREM SnapshotCorrect == Spec => []ReaderSnapshot
<1> DEFINE Inv == TypeOK /\ HandleOK /\ LockInv /\ \A p \in Procs : SnapshotAt(p)
<1>1. Init => Inv
  BY InitType DEF Init, LockInv, Holds, SnapshotAt
<1>2. Inv /\ [Next]_vars => Inv'
  BY TypeStep, LockStep, SnapshotStep, Zenon
<1>3. Inv => ReaderSnapshot
  BY Zenon DEF SnapshotAt, ReaderSnapshot
<1>. QED BY <1>1, <1>2, <1>3, PTL DEF Spec
-----------------------------------------------------------------------------
(* The caches, with the failures psfs.c recovers from                      *)

(* With the failures that are handled, nothing wipes the store and no      *)
(* other call fails.                                                       *)
LEMMA NoOtherFailures ==
    ASSUME Faults \subseteq HandledFaults, HandleOK, StoreInv
    PROVE  /\ ~Wipe
           /\ \A p \in Procs :
                 /\ ~AppendFsyncFails(p) /\ ~PruneFsyncFails(p) /\ ~PruneRenameFails(p)
                 /\ ~PruneDirFsyncFails(p)
                 /\ \A k \in Keys : ~SetFails(p, k) /\ ~PruneRecordFails(p, k)
<1>1. Faults \cap {"encrypt", "append_fsync", "prune_write", "tmp_fsync", "rename", "dir_fsync",
                   "wipe"} = {}
  BY Zenon DEF HandledFaults
<1>2. \A p \in Procs : pc[p] = "rename" => tmp # NoInode
  BY Zenon DEF HandleOK, StoreInv, StoreAt
<1>3. ~Wipe
  BY <1>1, Zenon DEF Wipe, Fault
<1>4. ASSUME NEW p \in Procs
      PROVE  ~AppendFsyncFails(p) /\ ~PruneFsyncFails(p) /\ ~PruneRenameFails(p)
             /\ ~PruneDirFsyncFails(p)
  BY <1>1, <1>2, Zenon
  DEF AppendFsyncFails, PruneFsyncFails, PruneRenameFails, PruneDirFsyncFails, Fault
<1>5. ASSUME NEW p \in Procs, NEW k \in Keys PROVE ~SetFails(p, k) /\ ~PruneRecordFails(p, k)
  BY <1>1, Zenon DEF SetFails, PruneRecordFails, Fault
<1>. QED BY <1>3, <1>4, <1>5, Zenon

(* A sync that ends leaves the handle closed, with an empty cache, or      *)
(* ready.                                                                  *)
LEMMA FinishEnds ==
    ASSUME TypeOK, NEW p \in Procs, NEW f, Finish(p, root[p], f)
    PROVE  \/ pc'[p] = "closed" /\ \A k \in Keys : root'[p][k] = Absent
           \/ pc'[p] = "ready" /\ root'[p] = root[p] /\ fd'[p] = f
<1>a. HandlesTypeOK
  BY Zenon DEF TypeOK
<1>1. CASE closing[p]
  <2>1. pc'[p] = "closed" /\ root'[p] = [k \in Keys |-> Absent]
    BY <1>a, <1>1, Zenon DEF Finish, HandlesTypeOK
  <2>. QED BY <2>1, Zenon
<1>2. CASE ~closing[p]
  <2>1. pc'[p] = "ready" /\ root'[p] = root[p] /\ fd'[p] = f
    BY <1>a, <1>2, Zenon DEF Finish, HandlesTypeOK
  <2>. QED BY <2>1, Zenon
<1>. QED BY <1>1, <1>2, Zenon

(* A step of a process keeps its own cache and its file in agreement.      *)
LEMMA CacheOwnStep ==
    ASSUME Faults \subseteq HandledFaults, TypeOK, HandleOK, LockInv, StoreInv,
           NEW p \in Procs, CacheAt(p), Step(p)
    PROVE  CacheAt(p)'
<1>a. HandlesTypeOK /\ FilesTypeOK
  BY Zenon DEF TypeOK
<1>b. Absent.val = NoVal /\ Absent.dirty = FALSE
  BY Zenon DEF Absent
<1>c. root[p] \in [Keys -> Entries] /\ \A k \in Keys : root[p][k] \in Entries
      /\ root[p][k].val \in ValsOrNone
  BY <1>a, EntryType, Zenon DEF HandlesTypeOK
<1>d. ASSUME NEW k \in Keys PROVE IsValOf(<<>>, k, NoVal) /\ Without(<<>>, k)
  BY DEF IsValOf, Without
<1>1. CASE (\E m \in {"R", "W"} : OpenFile(p, m)) \/ LockFile(p) \/ LockInterrupted(p)
           \/ CheckInode(p)
  <2>1. \E x \in {"closed", "reopen", "wait", "locked", "opened"} : pc' = [pc EXCEPT ![p] = x]
    BY <1>1, Zenon DEF OpenFile, LockFile, LockInterrupted, CheckInode
  <2>2. root' = root
    BY <1>1, Zenon DEF OpenFile, LockFile, LockInterrupted, CheckInode
  <2>. QED BY <1>a, <2>1, <2>2, Zenon DEF CacheAt, HandlesTypeOK, Copying
<1>2. CASE CloseReader(p) \/ CloseRefused(p) \/ Kill(p)
  <2>1. pc'[p] = "closed" /\ root'[p] = [k \in Keys |-> Absent]
    BY <1>a, <1>2, Zenon DEF CloseReader, CloseRefused, Kill, HandlesTypeOK
  <2>. QED BY <2>1, Zenon DEF CacheAt, Copying
<1>3. CASE Load(p)
  BY <1>3, LoadReads, Zenon DEF CacheAt, Copying
<1>4. ASSUME NEW k \in Keys, NEW v \in ValsOrNone, Set(p, k, v) PROVE CacheAt(p)'
  <2>1. /\ pc[p] = "ready" /\ pc' = pc /\ fd' = fd /\ data' = data
        /\ root' = [root EXCEPT ![p][k] = Cached(v, TRUE)]
    BY <1>4, Zenon DEF Set, files
  <2>2. root'[p] = [root[p] EXCEPT ![k] = Cached(v, TRUE)]
    BY <1>a, <2>1, Zenon DEF HandlesTypeOK
  <2>3. root'[p][k] = Cached(v, TRUE) /\ \A j \in Keys \ {k} : root'[p][j] = root[p][j]
    BY <1>c, <2>2, Zenon
  <2>4. root'[p][k].dirty /\ root'[p][k].cached
    BY <2>3 DEF Cached
  <2>5. \A j \in Keys : ~root'[p][j].cached => root'[p][j] = Absent
    BY <2>3, <2>4, Zenon DEF CacheAt
  <2>6. \A j \in Keys : ~root'[p][j].dirty => IsValOf(data'[fd'[p]], j, root'[p][j].val)
    BY <2>1, <2>3, <2>4, Zenon DEF CacheAt
  <2>. QED BY <2>1, <2>5, <2>6, Zenon DEF CacheAt, Copying
<1>5. ASSUME NEW close \in BOOLEAN, SyncAppend(p, close) \/ SyncPrune(p, close) PROVE CacheAt(p)'
  <2>1. /\ pc[p] = "ready" /\ pc'[p] \in {"append", "prune"}
        /\ UNCHANGED <<data, fd, root>>
    BY <1>a, <1>5, Zenon DEF SyncAppend, SyncPrune, files, HandlesTypeOK
  <2>. QED BY <2>1, Zenon DEF CacheAt, Copying
<1>6. CASE Erase(p)
  <2>1. pc[p] = "ready" /\ fd[p] \in Inodes
    BY <1>a, <1>6, ConstantsAssumption, Zenon DEF Erase, HandleOK, HandlesTypeOK, InodesOrNone
  <2>2. pc' = pc /\ fd' = fd /\ data'[fd[p]] = <<>> /\ root'[p] = [k \in Keys |-> Absent]
    BY <1>a, <1>6, <2>1, Zenon DEF Erase, HandlesTypeOK, FilesTypeOK
  <2>3. \A k \in Keys : root'[p][k] = Absent
    BY <2>2, Zenon
  <2>4. \A k \in Keys : IsValOf(data'[fd'[p]], k, root'[p][k].val)
    BY <1>b, <1>d, <2>2, <2>3, Zenon
  <2>. QED BY <2>1, <2>2, <2>3, <2>4, Zenon DEF CacheAt, Copying
<1>7. ASSUME NEW k \in Keys, AppendRecord(p, k) PROVE CacheAt(p)'
  <2> DEFINE f == data[fd[p]]
  <2>1. pc[p] = "append" /\ fd[p] \in Inodes /\ f \in Seq(Records) /\ root[p][k].dirty
    BY <1>a, <1>7, Zenon DEF AppendRecord, HandleOK, HandlesTypeOK, InodesOrNone, FilesTypeOK
  <2>2. /\ pc' = pc /\ fd' = fd /\ data'[fd[p]] = Append(f, Rec(k, root[p][k].val))
        /\ root' = [root EXCEPT ![p] = [root[p] EXCEPT ![k] = [root[p][k] EXCEPT !.dirty = FALSE]]]
    BY <1>a, <1>7, <2>1, Zenon DEF AppendRecord, HandlesTypeOK, FilesTypeOK
  <2>3. /\ root'[p][k] = [root[p][k] EXCEPT !.dirty = FALSE]
        /\ \A j \in Keys \ {k} : root'[p][j] = root[p][j]
    BY <1>a, <1>c, <2>2, Zenon DEF HandlesTypeOK
  <2>4. root'[p][k].val = root[p][k].val /\ root'[p][k].cached = root[p][k].cached
    BY <1>c, <2>3, Zenon DEF Entries
  <2>5. root[p][k].cached
    BY <1>b, <1>c, <2>1, Zenon DEF CacheAt
  <2>6. Rec(k, root[p][k].val) \in Records /\ Rec(k, root[p][k].val).key = k
    BY <1>c, RecType, Zenon DEF Rec
  <2>7. IsValOf(data'[fd[p]], k, root[p][k].val)
    BY <1>c, <2>1, <2>2, AppendSets, Zenon
  <2>8. ASSUME NEW j \in Keys \ {k}, ~root[p][j].dirty PROVE IsValOf(data'[fd[p]], j, root[p][j].val)
    <3>1. IsValOf(f, j, root[p][j].val)
      BY <2>1, <2>8, Zenon DEF CacheAt
    <3> HIDE DEF f
    <3>. QED BY <2>1, <2>2, <2>6, <3>1, AppendKeeps
  <2>9. \A j \in Keys : ~root'[p][j].cached => root'[p][j] = Absent
    BY <2>3, <2>4, <2>5, Zenon DEF CacheAt
  <2>10. ASSUME NEW j \in Keys, ~root'[p][j].dirty PROVE IsValOf(data'[fd[p]], j, root'[p][j].val)
    BY <2>3, <2>4, <2>7, <2>8, <2>10, Zenon
  <2>. QED BY <2>1, <2>2, <2>9, <2>10, Zenon DEF CacheAt, Copying
<1>8. CASE AppendFails(p) \/ AppendFsync(p) \/ PruneOpenFails(p)
  <2> DEFINE f == data[fd[p]]
  <2>1. pc[p] \in {"append", "prune"} /\ Finish(p, root[p], fd[p])
    BY <1>8, Zenon DEF AppendFails, AppendFsync, PruneOpenFails
  <2>2. fd[p] \in Inodes /\ f \in Seq(Records)
    BY <1>a, <2>1, Zenon DEF HandleOK, HandlesTypeOK, InodesOrNone, FilesTypeOK
  <2>3. data' = data \/ data' = [data EXCEPT ![fd[p]] = Append(f, Torn)]
    BY <1>8, Zenon DEF AppendFails, AppendFsync, PruneOpenFails
  <2>4. data'[fd[p]] = f \/ data'[fd[p]] = Append(f, Torn)
    BY <1>a, <2>2, <2>3, Zenon DEF FilesTypeOK
  <2>5. Torn \in Records /\ \A k \in Keys : Torn.key # k
    BY RecType, ConstantsAssumption, Zenon DEF Torn, Rec
  <2> HIDE DEF f
  <2>6. ASSUME NEW k \in Keys, NEW v, IsValOf(f, k, v) PROVE IsValOf(data'[fd[p]], k, v)
    BY <2>2, <2>4, <2>5, <2>6, AppendKeeps, Zenon
  <2>7. ASSUME NEW k \in Keys, ~root[p][k].dirty PROVE IsValOf(data'[fd[p]], k, root[p][k].val)
    BY <2>1, <2>6, <2>7, Zenon DEF CacheAt, f
  <2>. QED BY <2>1, <2>7, FinishEnds, Zenon DEF CacheAt, Copying
<1>9. CASE PruneOpen(p)
  <2>1. PICK i \in Inodes : /\ data' = [data EXCEPT ![i] = <<>>]
                            /\ tfd' = [tfd EXCEPT ![p] = i]
    BY <1>9, Zenon DEF PruneOpen, Create
  <2>2. /\ pc'[p] = "copy" /\ root' = root /\ todo'[p] = {k \in Keys : root[p][k].cached}
    BY <1>a, <1>9, Zenon DEF PruneOpen, HandlesTypeOK
  <2>3. data'[tfd'[p]] = <<>>
    BY <1>a, <2>1, Zenon DEF HandlesTypeOK, FilesTypeOK
  <2>4. ASSUME NEW k \in Keys, ~root[p][k].cached PROVE ~root[p][k].dirty /\ root[p][k].val = NoVal
    BY <1>b, <2>4, Zenon DEF CacheAt
  <2>5. \A k \in Keys : ~root'[p][k].cached => root'[p][k] = Absent
    BY <2>2, Zenon DEF CacheAt
  <2>6. ASSUME NEW k \in Keys
        PROVE IF k \in todo'[p]
              THEN root'[p][k].cached /\ Without(data'[tfd'[p]], k)
              ELSE ~root'[p][k].dirty /\ IsValOf(data'[tfd'[p]], k, root'[p][k].val)
    BY <1>d, <2>2, <2>3, <2>4, Zenon
  <2>. QED BY <2>2, <2>5, <2>6, Zenon DEF CacheAt, Copying
<1>10. ASSUME NEW k \in Keys, PruneRecord(p, k) PROVE CacheAt(p)'
  <2> DEFINE f == data[tfd[p]]
  <2>1. pc[p] = "copy" /\ k \in todo[p] /\ tfd[p] \in Inodes /\ f \in Seq(Records)
    BY <1>a, <1>10, Zenon DEF PruneRecord, HandleOK, HandlesTypeOK, InodesOrNone, FilesTypeOK
  <2>2. pc' = pc /\ tfd' = tfd /\ todo'[p] = todo[p] \ {k}
    BY <1>a, <1>10, Zenon DEF PruneRecord, HandlesTypeOK
  <2>3. Without(f, k) /\ root[p][k].cached
    BY <2>1, Zenon DEF CacheAt, Copying
  <2>4. CASE root[p][k].val = NoVal
    <3>1. data' = data /\ root' = [root EXCEPT ![p] = [root[p] EXCEPT ![k] = Absent]]
      BY <1>10, <2>4, Zenon DEF PruneRecord
    <3>2. root'[p][k] = Absent /\ \A j \in Keys \ {k} : root'[p][j] = root[p][j]
      BY <1>a, <1>c, <3>1, Zenon DEF HandlesTypeOK
    <3>3. IsValOf(f, k, NoVal)
      BY <2>1, <2>3, WithoutNoVal, Zenon
    <3>4. ASSUME NEW j \in Keys
          PROVE IF j \in todo'[p]
                THEN root'[p][j].cached /\ Without(data'[tfd'[p]], j)
                ELSE ~root'[p][j].dirty /\ IsValOf(data'[tfd'[p]], j, root'[p][j].val)
      <4>1. CASE j = k
        BY <1>b, <2>2, <3>1, <3>2, <3>3, <4>1, Zenon
      <4>2. CASE j # k
        BY <2>1, <2>2, <3>1, <3>2, <4>2, Zenon DEF CacheAt, Copying
      <4>. QED BY <4>1, <4>2, Zenon
    <3>5. \A j \in Keys : ~root'[p][j].cached => root'[p][j] = Absent
      BY <3>2, Zenon DEF CacheAt
    <3>. QED BY <2>1, <2>2, <3>4, <3>5, Zenon DEF CacheAt, Copying
  <2>5. CASE root[p][k].val # NoVal
    <3>1. /\ data'[tfd[p]] = Append(f, Rec(k, root[p][k].val))
          /\ root' = [root EXCEPT ![p] = [root[p] EXCEPT ![k] = [root[p][k] EXCEPT !.dirty = FALSE]]]
      BY <1>a, <1>10, <2>1, <2>5, Zenon DEF PruneRecord, FilesTypeOK
    <3>2. /\ root'[p][k] = [root[p][k] EXCEPT !.dirty = FALSE]
          /\ \A j \in Keys \ {k} : root'[p][j] = root[p][j]
      BY <1>a, <1>c, <3>1, Zenon DEF HandlesTypeOK
    <3>3. /\ root'[p][k].val = root[p][k].val /\ root'[p][k].cached = root[p][k].cached
          /\ root'[p][k].dirty = FALSE
      BY <1>c, <3>2, Zenon DEF Entries
    <3>4. Rec(k, root[p][k].val) \in Records /\ Rec(k, root[p][k].val).key = k
      BY <1>c, RecType, Zenon DEF Rec
    <3>5. IsValOf(data'[tfd[p]], k, root[p][k].val)
      BY <1>c, <2>1, <3>1, AppendSets, Zenon
    <3>6. ASSUME NEW j \in Keys
          PROVE IF j \in todo'[p]
                THEN root'[p][j].cached /\ Without(data'[tfd'[p]], j)
                ELSE ~root'[p][j].dirty /\ IsValOf(data'[tfd'[p]], j, root'[p][j].val)
      <4>1. CASE j = k
        BY <2>2, <3>3, <3>5, <4>1, Zenon
      <4>2. CASE j # k
        <5>1. /\ Without(data'[tfd[p]], j) <=> Without(f, j)
              /\ \A v : IsValOf(data'[tfd[p]], j, v) <=> IsValOf(f, j, v)
          <6> HIDE DEF f
          <6>. QED BY <2>1, <3>1, <3>4, <4>2, AppendKeeps
        <5>. QED BY <2>1, <2>2, <3>2, <4>2, <5>1, Zenon DEF CacheAt, Copying
      <4>. QED BY <4>1, <4>2, Zenon
    <3>7. \A j \in Keys : ~root'[p][j].cached => root'[p][j] = Absent
      BY <2>3, <3>2, <3>3, Zenon DEF CacheAt
    <3>. QED BY <2>1, <2>2, <3>6, <3>7, Zenon DEF CacheAt, Copying
  <2>. QED BY <2>4, <2>5, Zenon
<1>11. CASE PruneFsync(p) \/ PruneRename(p)
  <2>1. /\ pc[p] \in {"copy", "rename"} /\ pc'[p] \in {"rename", "dirsync"}
        /\ pc[p] = "copy" => todo[p] = {}
        /\ UNCHANGED <<data, tfd, root, todo>>
    BY <1>a, <1>11, Zenon DEF PruneFsync, PruneRename, HandlesTypeOK
  <2>. QED BY <2>1, Zenon DEF CacheAt, Copying
<1>12. CASE PruneDirFsync(p)
  <2>1. pc[p] = "dirsync" /\ data' = data /\ Finish(p, root[p], tfd[p])
    BY <1>12, Zenon DEF PruneDirFsync
  <2>2. \A k \in Keys : ~root[p][k].dirty /\ IsValOf(data[tfd[p]], k, root[p][k].val)
    BY <2>1, Zenon DEF CacheAt, Copying
  <2>. QED BY <2>1, <2>2, FinishEnds, Zenon DEF CacheAt, Copying
<1>. QED BY Zenon, <1>1, <1>2, <1>3, <1>4, <1>5, <1>6, <1>7, <1>8, <1>9, <1>10, <1>11, <1>12,
            NoOtherFailures DEF Step

(* So does every step: what the others do, they do to files this process   *)
(* does not hold.                                                          *)
LEMMA CacheStep ==
    ASSUME Faults \subseteq HandledFaults, TypeOK, HandleOK, LockInv, StoreInv, CacheInv,
           [Next]_vars
    PROVE  CacheInv'
<1>1. ASSUME NEW p \in Procs, Step(p), NEW q \in Procs, q # p PROVE CacheAt(q)'
  <2>1. /\ pc'[q] = pc[q] /\ fd'[q] = fd[q] /\ tfd'[q] = tfd[q] /\ root'[q] = root[q]
        /\ todo'[q] = todo[q]
        /\ Holds(q) => data'[fd[q]] = data[fd[q]]
        /\ tfd[q] # NoInode => data'[tfd[q]] = data[tfd[q]]
    BY <1>1, StepIsLocal, OthersKept, Zenon DEF OthersSame
  <2>2. CacheAt(q) /\ (Copying(q) => tfd[q] # NoInode)
    BY Zenon DEF CacheInv, HandleOK, Copying
  <2>. QED BY <2>1, <2>2, Zenon DEF CacheAt, Copying, Holds
<1>2. ASSUME NEW p \in Procs, Step(p) PROVE CacheAt(p)'
  BY <1>2, CacheOwnStep, Zenon DEF CacheInv
<1>3. ASSUME PowerLoss PROVE CacheInv'
  BY <1>3, Zenon DEF PowerLoss, CacheInv, CacheAt, Copying
<1>4. CASE UNCHANGED vars
  BY <1>4, Zenon DEF vars, CacheInv, CacheAt, Copying
<1>. QED BY <1>1, <1>2, <1>3, <1>4, NoOtherFailures, Zenon DEF Next, CacheInv

(* With the failures psfs.c recovers from, psfs_get of a key that was not  *)
(* set through the handle answers what the journal holds.                  *)
THEOREM CacheCorrect ==
    ASSUME Faults \subseteq HandledFaults
    PROVE  Spec => []CacheCoherent
<1> DEFINE Inv == TypeOK /\ HandleOK /\ LockInv /\ StoreInv /\ CacheInv
<1>1. Init => Inv
  BY InitType DEF Init, LockInv, Holds, StoreInv, StoreAt, Open, Loaded, CacheInv, CacheAt, Copying
<1>2. Inv /\ [Next]_vars => Inv'
  BY TypeStep, LockStep, StoreStep, CacheStep, Zenon
<1>3. Inv => CacheCoherent
  BY Zenon DEF CacheInv, CacheAt, CacheCoherent
<1>. QED BY <1>1, <1>2, <1>3, PTL DEF Spec

-----------------------------------------------------------------------------
(* What may be left of a file                                              *)

(* The contents a power loss may leave of a file with records d, of which  *)
(* n are on the medium, and older contents o.                              *)
Contents(d, n, o) == o \cup {SubSeq(d, 1, m) : m \in n..Len(d)}

(* All of them leave every key with a value of lg.                         *)
Allowed(cs, lg) == \A c \in cs, k \in Keys : ValsOf(c, k) \subseteq lg[k]

(* A crash may leave the whole file.                                       *)
LEMMA ContentsWhole ==
    ASSUME NEW d \in Seq(Records), NEW n \in Nat, n <= Len(d), NEW o
    PROVE  d \in Contents(d, n, o)
<1>1. SubSeq(d, 1, Len(d)) = d /\ Len(d) \in n..Len(d)
  OBVIOUS
<1>. QED BY <1>1, Zenon DEF Contents

(* A file that was saved comes back as it is.                              *)
LEMMA ContentsSaved ==
    ASSUME NEW d \in Seq(Records)
    PROVE  Contents(d, Len(d), {}) = {d}
<1>1. SubSeq(d, 1, Len(d)) = d /\ Len(d)..Len(d) = {Len(d)}
  OBVIOUS
<1>. QED BY <1>1, Zenon DEF Contents

(* A file with no record comes back empty, or with its older contents.     *)
LEMMA ContentsEmpty ==
    ASSUME NEW o
    PROVE  Contents(<<>>, 0, o) = o \cup {<<>>}
<1>1. SubSeq(<<>>, 1, 0) = <<>> /\ 0..Len(<<>>) = {0}
  OBVIOUS
<1>. QED BY <1>1, Zenon DEF Contents

(* A record appended adds only the whole file to what a crash may leave.   *)
LEMMA ContentsAppend ==
    ASSUME NEW d \in Seq(Records), NEW r \in Records, NEW n \in Nat, n <= Len(d), NEW o
    PROVE  Contents(Append(d, r), n, o) \subseteq Contents(d, n, o) \cup {Append(d, r)}
<1> DEFINE e == Append(d, r)
<1>1. /\ e \in Seq(Records) /\ Len(e) = Len(d) + 1 /\ Len(d) \in Nat
      /\ \A i \in 1..Len(d) : e[i] = d[i]
  OBVIOUS
<1> HIDE DEF e
<1>2. ASSUME NEW m \in n..Len(e) 
      PROVE  SubSeq(e, 1, m) = e \/ (m \in n..Len(d) /\ SubSeq(e, 1, m) = SubSeq(d, 1, m))
  <2>1. CASE m = Len(e)
    <3>1. SubSeq(e, 1, Len(e)) = e
      BY <1>1, SubSeqFull, Zenon
    <3>. QED BY <2>1, <3>1, Zenon
  <2>2. CASE m \in n..Len(d)
    <3>1. /\ SubSeq(e, 1, m) \in Seq(Records) /\ SubSeq(d, 1, m) \in Seq(Records)
          /\ Len(SubSeq(e, 1, m)) = m /\ Len(SubSeq(d, 1, m)) = m
          /\ \A i \in 1..m : SubSeq(e, 1, m)[i] = e[i] /\ SubSeq(d, 1, m)[i] = d[i] /\ e[i] = d[i]
      BY <1>1, <2>2
    <3>2. SubSeq(e, 1, m) = SubSeq(d, 1, m)
      BY <3>1, SeqEqual, Zenon
    <3>. QED BY <2>2, <3>2, Zenon
  <2>. QED BY <1>1, <2>1, <2>2
<1>. QED BY <1>2, Zenon DEF Contents, e

(* What a crash may leave of an inode depends on its data, on how much is  *)
(* saved and on its older contents.                                        *)
LEMMA ContentsFrame ==
    ASSUME NEW i \in Inodes
    PROVE  /\ CrashContents(i) = Contents(data[i], safe[i], older[i])
           /\ CrashContents(i)' = Contents(data'[i], safe'[i], older'[i])
BY Zenon DEF CrashContents, Contents

(* Contents stay allowed when more values become legal.                    *)
LEMMA AllowedMore ==
    ASSUME NEW cs, NEW lg, NEW lh, Allowed(cs, lg), \A k \in Keys : lg[k] \subseteq lh[k]
    PROVE  Allowed(cs, lh)
BY Zenon DEF Allowed

(* A file whose records are the values of a cache.                         *)
LEMMA AllowedExact ==
    ASSUME NEW d \in Seq(Records), NEW lg, NEW val,
           \A k \in Keys : IsValOf(d, k, val[k]) /\ val[k] \in lg[k]
    PROVE  Allowed({d}, lg)
BY ValUnique DEF Allowed, ValsOf

(* A record of a key may be added if its value is allowed; a torn one may  *)
(* always.                                                                 *)
LEMMA AllowedAppend ==
    ASSUME NEW d \in Seq(Records), NEW r \in Records, NEW n \in Nat, n <= Len(d), NEW o, NEW lg,
           Allowed(Contents(d, n, o), lg), r.key \in Keys => r.val \in lg[r.key]
    PROVE  Allowed(Contents(Append(d, r), n, o), lg)
<1>1. SUFFICES ASSUME NEW k \in Keys PROVE ValsOf(Append(d, r), k) \subseteq lg[k]
  BY ContentsAppend, Zenon DEF Allowed
<1>2. ValsOf(d, k) \subseteq lg[k]
  BY ContentsWhole, Zenon DEF Allowed
<1>3. CASE r.key = k
  <2>1. r = Rec(k, r.val) /\ r.val \in ValsOrNone
    BY <1>3, Zenon DEF Records, Rec
  <2>2. IsValOf(Append(d, r), k, r.val) /\ Append(d, r) \in Seq(Records)
    BY <2>1, AppendSets
  <2>. QED BY <1>3, <2>2, ValUnique, Zenon DEF ValsOf
<1>4. CASE r.key # k
  BY <1>2, <1>4, AppendKeeps, Zenon DEF ValsOf
<1>. QED BY <1>3, <1>4, Zenon
-----------------------------------------------------------------------------
(* Power loss, with the failures psfs.c recovers from                      *)

(* What CrashSafe says of one inode the store's name may refer to.         *)
SafeName(i) ==
    IF i = NoInode THEN \A k \in Keys : NoVal \in legal[k]
                   ELSE Allowed(CrashContents(i), legal)

LengthsOK == \A i \in Inodes : safe[i] <= Len(data[i])

(* CrashSafe, one durable name of the store at a time.                     *)
LEMMA CrashSafeNames ==
    /\ CrashSafe <=> \A i \in storeDur : SafeName(i)
    /\ CrashSafe' <=> \A i \in storeDur' : SafeName(i)'
BY Zenon DEF CrashSafe, SafeName, Allowed

(* A file stays safe while it is left alone and more values are allowed.   *)
LEMMA NameKept ==
    ASSUME TypeOK, CrashSafe, NEW i \in storeDur,
           \A k \in Keys : legal[k] \subseteq legal'[k],
           i # NoInode => data'[i] = data[i] /\ safe'[i] = safe[i] /\ older'[i] = older[i]
    PROVE  SafeName(i)'
<1>1. SafeName(i)
  BY CrashSafeNames, Zenon
<1>2. i # NoInode => i \in Inodes
  BY Zenon DEF TypeOK, FilesTypeOK, InodesOrNone
<1>3. CASE i = NoInode
  BY <1>1, <1>3, Zenon DEF SafeName
<1>4. CASE i # NoInode
  <2>1. CrashContents(i)' = CrashContents(i)
    BY <1>2, <1>4, ContentsFrame, Zenon
  <2>2. Allowed(CrashContents(i), legal')
    BY <1>1, <1>4, AllowedMore, Zenon DEF SafeName
  <2>. QED BY <1>4, <2>1, <2>2, Zenon DEF SafeName
<1>. QED BY <1>3, <1>4, Zenon

(* A file that was just saved is safe if its records are allowed.          *)
LEMMA NameSaved ==
    ASSUME NEW i \in Inodes, data'[i] \in Seq(Records), safe'[i] = Len(data'[i]), older'[i] = {},
           NEW val, \A k \in Keys : IsValOf(data'[i], k, val[k]) /\ val[k] \in legal'[k]
    PROVE  SafeName(i)'
<1>1. CrashContents(i)' = {data'[i]}
  BY ContentsFrame, ContentsSaved, Zenon
<1>2. Allowed({data'[i]}, legal')
  BY AllowedExact, Zenon
<1>3. i # NoInode
  BY ConstantsAssumption, Zenon
<1>. QED BY <1>1, <1>2, <1>3, Zenon DEF SafeName

(* Only a process that has the store to itself promises anything or        *)
(* changes what its name refers to, except to create a file.               *)
LEMMA OnlyWriterPromises ==
    ASSUME NEW p \in Procs, HandleOK, Step(p)
    PROVE  \/ Open(p) /\ mode[p] = "W"
           \/ /\ legal' = legal
              /\ \/ storeDur' = storeDur
                 \/ \E i \in Inodes : FreeInode(i) /\ storeDur' = storeDur \cup {i}
<1>1. CASE \E m \in {"R", "W"} : OpenFile(p, m)
  BY <1>1, Zenon DEF OpenFile, Create, files
<1>2. CASE LockFile(p) \/ LockInterrupted(p) \/ CheckInode(p) \/ Load(p) \/ CloseReader(p) \/ Kill(p)
  BY <1>2, Zenon DEF LockFile, LockInterrupted, CheckInode, Load, CloseReader, Kill, files
<1>3. CASE \/ (\E k \in Keys, v \in ValsOrNone : Set(p, k, v))
           \/ (\E k \in Keys : SetFails(p, k)) \/ Erase(p) \/ CloseRefused(p)
           \/ (\E close \in BOOLEAN : SyncAppend(p, close) \/ SyncPrune(p, close))
           \/ (\E k \in Keys : AppendRecord(p, k) \/ PruneRecord(p, k) \/ PruneRecordFails(p, k))
           \/ AppendFails(p) \/ AppendFsync(p) \/ AppendFsyncFails(p) \/ PruneOpenFails(p)
           \/ PruneFsyncFails(p) \/ PruneRenameFails(p) \/ PruneDirFsyncFails(p)
           \/ PruneDirFsync(p) \/ PruneOpen(p) \/ PruneFsync(p) \/ PruneRename(p)
  <2>1. \/ pc[p] \in {"append", "prune", "copy", "rename", "dirsync"}
        \/ pc[p] = "ready" /\ mode[p] = "W"
    BY <1>3, Zenon DEF Set, SetFails, Erase, CloseRefused, SyncAppend, SyncPrune, AppendRecord,
       PruneRecord, PruneRecordFails, AppendFails, AppendFsync, AppendFsyncFails, PruneOpenFails,
       PruneFsyncFails, PruneRenameFails, PruneDirFsyncFails, PruneDirFsync, PruneOpen,
       PruneFsync, PruneRename
  <2>. QED BY <2>1, Zenon DEF HandleOK, Open, Loaded
<1>. QED BY <1>1, <1>2, <1>3, Zenon DEF Step

(* A step of a process leaves the temporary files of the others as they    *)
(* are.                                                                    *)
LEMMA MediumOthers ==
    ASSUME TypeOK, HandleOK, LockInv, StoreInv, NEW p \in Procs, Step(p),
           NEW q \in Procs, q # p, MediumAt(q)
    PROVE  MediumAt(q)'
<1>1. /\ pc'[q] = pc[q] /\ tfd'[q] = tfd[q] /\ root'[q] = root[q]
      /\ tfd[q] # NoInode => /\ data'[tfd[q]] = data[tfd[q]]
                             /\ safe'[tfd[q]] = safe[tfd[q]]
                             /\ older'[tfd[q]] = older[tfd[q]]
  BY StepIsLocal, OthersKept, Zenon DEF OthersSame
<1>2. CASE Open(p) /\ mode[p] = "W"
  <2>1. ~Open(q)
    BY <1>2, WriterAlone, Zenon
  <2>. QED BY <1>1, <2>1, Zenon DEF MediumAt, Open, Loaded, Copying
<1>3. CASE /\ legal' = legal
           /\ \/ storeDur' = storeDur
              \/ \E i \in Inodes : FreeInode(i) /\ storeDur' = storeDur \cup {i}
  <2>1. Copying(q) => tfd[q] # NoInode
    BY Zenon DEF HandleOK, Copying
  <2>2. \A i \in Inodes : FreeInode(i) => tfd[q] # i
    BY Zenon DEF FreeInode
  <2>3. tfd[q] \notin storeDur => tfd[q] \notin storeDur'
    BY <1>3, <2>2, Zenon
  <2>. QED BY <1>1, <1>3, <2>1, <2>3, Zenon DEF MediumAt, Loaded, Copying
<1>. QED BY <1>2, <1>3, OnlyWriterPromises, Zenon

(* A step of a process keeps every crash safe, and its own temporary file  *)
(* as its cache says.                                                      *)
LEMMA CrashOwnStep ==
    ASSUME Faults \subseteq HandledFaults, FsyncSavesName,
           TypeOK, HandleOK, LockInv, StoreInv, CacheInv, MediumInv, CrashSafe,
           TypeOK', HandleOK', NEW p \in Procs, Step(p)
    PROVE  CrashSafe' /\ MediumAt(p)' /\ store' \in storeDur' /\ LengthsOK'
<1> DEFINE Goal == CrashSafe' /\ MediumAt(p)' /\ store' \in storeDur' /\ LengthsOK'
<1>a. HandlesTypeOK /\ FilesTypeOK /\ legal \in [Keys -> SUBSET ValsOrNone]
      /\ FilesTypeOK'
  BY Zenon DEF TypeOK
<1>b. store \in storeDur /\ LengthsOK /\ MediumAt(p) /\ CacheAt(p) /\ StoreAt(p)
  BY Zenon DEF MediumInv, LengthsOK, CacheInv, StoreInv
<1>c. \A i \in Inodes : data[i] \in Seq(Records) /\ Len(data[i]) \in Nat /\ safe[i] \in Nat
  BY <1>a DEF FilesTypeOK
<1>d. ASSUME NEW k \in Keys PROVE IsValOf(<<>>, k, NoVal)
  BY DEF IsValOf
<1>e. \A k \in Keys : root[p][k] \in Entries /\ root[p][k].val \in ValsOrNone
  <2>1. \A k \in Keys : root[p][k] \in Entries
    BY <1>a, Zenon DEF HandlesTypeOK
  <2>. QED BY <2>1, EntryType, Zenon
<1>f. storeDur \subseteq InodesOrNone /\ NoInode \notin Inodes
  BY <1>a, ConstantsAssumption, Zenon DEF FilesTypeOK
<1>g. /\ pc[p] \notin {"closed", "reopen"} => fd[p] \in Inodes
      /\ Copying(p) => tfd[p] \in Inodes
  BY <1>a, Zenon DEF HandleOK, HandlesTypeOK, InodesOrNone, Copying
<1>1. ASSUME UNCHANGED <<store, storeDur, data, safe, older, legal>>,
             \/ ~Loaded(p)'
             \/ /\ pc[p] \in {"ready", "append", "prune"}
                /\ pc'[p] \in {"ready", "append", "prune"} /\ root'[p] = root[p]
      PROVE  Goal
  <2>1. CrashSafe'
    BY <1>1, NameKept, CrashSafeNames, Zenon
  <2>2. MediumAt(p)'
    BY <1>b, <1>1, Zenon DEF MediumAt, Loaded, Copying
  <2>. QED BY <1>1, <1>b, <2>1, <2>2, Zenon DEF LengthsOK
<1>2. CASE \/ LockFile(p) \/ LockInterrupted(p) \/ CheckInode(p) \/ CloseReader(p)
           \/ CloseRefused(p) \/ Kill(p)
  <2>1. /\ UNCHANGED <<store, storeDur, data, safe, older, legal>>
        /\ \E x \in {"closed", "reopen", "locked", "opened"} : pc' = [pc EXCEPT ![p] = x]
    BY <1>2, Zenon DEF LockFile, LockInterrupted, CheckInode, CloseReader, CloseRefused, Kill, files
  <2>2. ~Loaded(p)'
    BY <1>a, <2>1, Zenon DEF HandlesTypeOK, Loaded
  <2>. QED BY <1>1, <2>1, <2>2, Zenon
<1>3. ASSUME NEW close \in BOOLEAN, SyncAppend(p, close) \/ SyncPrune(p, close) PROVE Goal
  <2>1. /\ UNCHANGED <<store, storeDur, data, safe, older, legal>>
        /\ pc[p] = "ready" /\ pc'[p] \in {"append", "prune"} /\ root' = root
    BY <1>a, <1>3, Zenon DEF SyncAppend, SyncPrune, files, HandlesTypeOK
  <2>. QED BY <1>1, <2>1, Zenon
<1>4. ASSUME NEW m \in {"R", "W"}, OpenFile(p, m) PROVE Goal
  <2>1. ~Loaded(p)'
    <3>1. pc' = [pc EXCEPT ![p] = "wait"] \/ pc' = [pc EXCEPT ![p] = "closed"]
      BY <1>4, Zenon DEF OpenFile
    <3>. QED BY <1>a, <3>1, Zenon DEF HandlesTypeOK, Loaded
  <2>2. CASE UNCHANGED <<store, storeDur, data, safe, older>>
    <3>1. legal' = legal
      BY <1>4, Zenon DEF OpenFile
    <3>. QED BY <1>1, <2>1, <2>2, <3>1, Zenon
  <2>3. ASSUME NEW i \in Inodes, Create(i), store' = i, storeDur' = storeDur \cup {i},
               store = NoInode, legal' = legal
        PROVE  Goal
    <3>1. /\ data'[i] = <<>> /\ safe'[i] = 0 /\ older'[i] = {} /\ i \notin storeDur
          /\ \A j \in Inodes \ {i} : data'[j] = data[j] /\ safe'[j] = safe[j] /\ older'[j] = older[j]
      BY <1>a, <2>3, Zenon DEF Create, FreeInode, FilesTypeOK
    <3>2. SafeName(NoInode)
      BY <1>b, <2>3, CrashSafeNames, Zenon
    <3>3. \A k \in Keys : NoVal \in legal'[k]
      BY <2>3, <3>2, Zenon DEF SafeName
    <3>4. SafeName(i)'
      <4> DEFINE none == [k \in Keys |-> NoVal]
      <4>1. \A k \in Keys : IsValOf(data'[i], k, none[k]) /\ none[k] \in legal'[k]
        BY <1>d, <3>1, <3>3, Zenon
      <4>2. data'[i] \in Seq(Records) /\ safe'[i] = Len(data'[i])
        BY SMTT(30), <3>1
      <4> HIDE DEF none
      <4>. QED BY <3>1, <4>1, <4>2, NameSaved, Zenon
    <3>5. ASSUME NEW j \in storeDur PROVE SafeName(j)'
      BY <1>f, <2>3, <3>1, NameKept, Zenon DEF InodesOrNone
    <3>6. CrashSafe'
      BY <2>3, <3>4, <3>5, CrashSafeNames, Zenon
    <3>7. LengthsOK'
      BY <1>b, <3>1 DEF LengthsOK
    <3>. QED BY <2>1, <2>3, <3>6, <3>7, Zenon DEF MediumAt, Loaded, Copying
  <2>. QED BY <1>4, <2>2, <2>3, Zenon DEF OpenFile, files
<1>5. CASE Load(p)
  <2>1. UNCHANGED <<store, storeDur, data, safe, older, legal>>
    BY <1>5, Zenon DEF Load, files
  <2>2. pc[p] = "opened" /\ pc'[p] = "ready"
        /\ \A k \in Keys : IsValOf(data[fd[p]], k, root'[p][k].val)
    BY <1>5, LoadReads, Zenon
  <2>3. fd[p] \in Inodes /\ fd[p] \in storeDur
    BY <1>b, <1>g, <2>2, Zenon DEF StoreAt, Open
  <2>4. Allowed(CrashContents(fd[p]), legal)
    BY <1>f, <2>3, CrashSafeNames, Zenon DEF SafeName
  <2>5. data[fd[p]] \in CrashContents(fd[p])
    BY <1>b, <1>c, <2>3, ContentsWhole, ContentsFrame, Zenon DEF LengthsOK
  <2>6. \A k \in Keys : root'[p][k].val \in ValsOrNone
    <3>1. \A k \in Keys : root'[p][k] \in Entries
      BY Zenon DEF TypeOK, HandlesTypeOK
    <3>. QED BY <3>1, EntryType, Zenon
  <2>7. \A k \in Keys : root'[p][k].val \in legal'[k]
    BY <2>1, <2>2, <2>4, <2>5, <2>6, Zenon DEF Allowed, ValsOf
  <2>8. CrashSafe'
    BY <2>1, NameKept, CrashSafeNames, Zenon
  <2>. QED BY <1>b, <2>1, <2>2, <2>7, <2>8, Zenon DEF MediumAt, Loaded, Copying, LengthsOK
<1>6. ASSUME NEW k \in Keys, NEW v \in ValsOrNone, Set(p, k, v) PROVE Goal
  <2>1. /\ UNCHANGED <<store, storeDur, data, safe, older>> /\ pc[p] = "ready" /\ pc' = pc
        /\ root' = [root EXCEPT ![p] = [root[p] EXCEPT ![k] = Cached(v, TRUE)]]
        /\ legal' = [legal EXCEPT ![k] = legal[k] \cup {v}]
    BY <1>6, Zenon DEF Set, files
  <2>2. /\ v \in legal'[k] /\ \A j \in Keys : legal[j] \subseteq legal'[j]
    BY <1>a, <2>1, Zenon
  <2>3. root'[p][k] = Cached(v, TRUE) /\ \A j \in Keys \ {k} : root'[p][j] = root[p][j]
    BY <1>a, <2>1, Zenon DEF HandlesTypeOK
  <2>4. root'[p][k].val = v
    BY SMTT(30), <2>3 DEF Cached
  <2>5. \A j \in Keys : root[p][j].val \in legal[j]
    BY <1>b, <2>1, Zenon DEF MediumAt, Loaded
  <2>6. \A j \in Keys : root'[p][j].val \in legal'[j]
    BY <2>2, <2>3, <2>4, <2>5, Zenon
  <2>7. CrashSafe'
    BY <2>1, <2>2, NameKept, CrashSafeNames, Zenon
  <2>. QED BY <1>b, <2>1, <2>6, <2>7, Zenon DEF MediumAt, Loaded, Copying, LengthsOK
<1>7. CASE Erase(p)
  <2>1. pc[p] = "ready" /\ fd[p] \in Inodes
    BY <1>g, <1>7, Zenon DEF Erase
  <2>2. PICK i \in Inodes : i = fd[p]
    BY <2>1, Zenon
  <2>3. /\ UNCHANGED <<store, storeDur>> /\ pc' = pc
        /\ data'[i] = <<>> /\ safe'[i] = 0 /\ older'[i] = CrashContents(i)
        /\ \A j \in Inodes \ {i} : data'[j] = data[j] /\ safe'[j] = safe[j] /\ older'[j] = older[j]
        /\ root'[p] = [k \in Keys |-> Absent]
        /\ legal' = [k \in Keys |-> legal[k] \cup {NoVal}]
    BY <1>a, <1>7, <2>2, Zenon DEF Erase, HandlesTypeOK, FilesTypeOK
  <2>4. \A k \in Keys : legal[k] \subseteq legal'[k] /\ NoVal \in legal'[k]
    BY <2>3, Zenon
  <2>5. ASSUME i \in storeDur PROVE SafeName(i)'
    <3>1. Allowed(CrashContents(i), legal')
      BY <1>f, <2>4, <2>5, CrashSafeNames, AllowedMore, Zenon DEF SafeName
    <3>2. CrashContents(i)' = CrashContents(i) \cup {<<>>}
      BY <2>3, ContentsFrame, ContentsEmpty, Zenon
    <3>3. Allowed({<<>>}, legal')
      <4> DEFINE none == [k \in Keys |-> NoVal]
      <4>1. \A k \in Keys : IsValOf(<<>>, k, none[k]) /\ none[k] \in legal'[k]
        BY <1>d, <2>4, Zenon
      <4>2. <<>> \in Seq(Records)
        OBVIOUS
      <4> HIDE DEF none
      <4>. QED BY <4>1, <4>2, AllowedExact, Zenon
    <3>. QED BY <1>f, <3>1, <3>2, <3>3, Zenon DEF SafeName, Allowed
  <2>6. ASSUME NEW j \in storeDur, j # i PROVE SafeName(j)'
    BY <1>f, <2>3, <2>4, <2>6, NameKept, Zenon DEF InodesOrNone
  <2>7. CrashSafe'
    BY <2>3, <2>5, <2>6, CrashSafeNames, Zenon
  <2>8. \A k \in Keys : root'[p][k].val \in legal'[k]
    BY SMTT(30), <2>3, <2>4 DEF Absent
  <2>9. LengthsOK'
    BY SMTT(30), <1>b, <2>3 DEF LengthsOK
  <2>. QED BY <1>b, <2>1, <2>3, <2>7, <2>8, <2>9, Zenon DEF MediumAt, Loaded, Copying
<1>8. ASSUME NEW i \in Inodes, NEW r \in Records, i = fd[p], pc[p] = "append",
             r.key \in Keys => r.val \in legal[r.key],
             data' = [data EXCEPT ![i] = Append(data[i], r)],
             UNCHANGED <<store, storeDur, safe, older, legal>>,
             ~Loaded(p)' \/ (pc'[p] \in {"ready", "append"}
                             /\ \A k \in Keys : root'[p][k].val = root[p][k].val)
      PROVE  Goal
  <2>1. /\ data'[i] = Append(data[i], r) /\ \A j \in Inodes \ {i} : data'[j] = data[j]
        /\ data[i] \in Seq(Records) /\ safe[i] \in Nat /\ safe[i] <= Len(data[i])
    BY <1>a, <1>b, <1>c, <1>8, Zenon DEF FilesTypeOK, LengthsOK
  <2>2. ASSUME i \in storeDur PROVE SafeName(i)'
    <3>1. Allowed(Contents(data[i], safe[i], older[i]), legal)
      BY <1>f, <2>2, CrashSafeNames, ContentsFrame, Zenon DEF SafeName
    <3>2. Allowed(Contents(Append(data[i], r), safe[i], older[i]), legal)
      BY <1>8, <2>1, <3>1, AllowedAppend, Zenon
    <3>3. CrashContents(i)' = Contents(Append(data[i], r), safe[i], older[i])
      BY <1>8, <2>1, ContentsFrame, Zenon
    <3>. QED BY <1>f, <1>8, <3>2, <3>3, Zenon DEF SafeName
  <2>3. ASSUME NEW j \in storeDur, j # i PROVE SafeName(j)'
    BY <1>f, <1>8, <2>1, <2>3, NameKept, Zenon DEF InodesOrNone
  <2>4. CrashSafe'
    BY <1>8, <2>2, <2>3, CrashSafeNames, Zenon
  <2>5. LengthsOK'
    <3>1. Len(data'[i]) = Len(data[i]) + 1 /\ Len(data[i]) \in Nat
      BY <2>1
    <3>. QED BY SMTT(30), <1>b, <1>8, <2>1, <3>1 DEF LengthsOK
  <2>6. \A k \in Keys : root[p][k].val \in legal[k]
    BY <1>b, <1>8, Zenon DEF MediumAt, Loaded
  <2>. QED BY <1>b, <1>8, <2>4, <2>5, <2>6, Zenon DEF MediumAt, Loaded, Copying
<1>9. ASSUME NEW k \in Keys, AppendRecord(p, k) PROVE Goal
  <2> DEFINE r == Rec(k, root[p][k].val)
  <2>1. /\ pc[p] = "append" /\ pc' = pc /\ UNCHANGED <<store, storeDur, safe, older, legal>>
        /\ data' = [data EXCEPT ![fd[p]] = Append(data[fd[p]], r)]
        /\ root' = [root EXCEPT ![p] = [root[p] EXCEPT ![k] = [root[p][k] EXCEPT !.dirty = FALSE]]]
    BY <1>9, Zenon DEF AppendRecord
  <2>2. r \in Records /\ r.key = k /\ r.val = root[p][k].val
    BY <1>e, RecType, Zenon DEF Rec
  <2>3. root[p][k].val \in legal[k]
    BY <1>b, <2>1, Zenon DEF MediumAt, Loaded
  <2>4. ASSUME NEW j \in Keys PROVE root'[p][j].val = root[p][j].val
    <3>1. /\ root'[p][k] = [root[p][k] EXCEPT !.dirty = FALSE]
          /\ j # k => root'[p][j] = root[p][j]
      BY <1>a, <2>1, Zenon DEF HandlesTypeOK
    <3>2. root'[p][k].val = root[p][k].val
      BY <1>e, <3>1, Zenon DEF Entries
    <3>. QED BY <3>1, <3>2, Zenon
  <2>5. fd[p] \in Inodes
    BY <1>g, <2>1, Zenon
  <2> HIDE DEF r
  <2>. QED BY <1>8, <2>1, <2>2, <2>3, <2>4, <2>5, Zenon
<1>10. CASE AppendFails(p)
  <2>1. /\ pc[p] = "append" /\ UNCHANGED <<store, storeDur, safe, older, legal>>
        /\ Finish(p, root[p], fd[p])
        /\ data' = data \/ data' = [data EXCEPT ![fd[p]] = Append(data[fd[p]], Torn)]
    BY <1>10, Zenon DEF AppendFails
  <2>2. \/ ~Loaded(p)'
        \/ pc'[p] = "ready" /\ root'[p] = root[p]
    BY <2>1, FinishEnds, Zenon DEF Loaded
  <2>3. Torn \in Records /\ Torn.key \notin Keys
    BY RecType, ConstantsAssumption, Zenon DEF Torn, Rec
  <2>4. CASE data' = data
    BY <1>1, <2>1, <2>2, <2>4, Zenon
  <2>5. CASE data' = [data EXCEPT ![fd[p]] = Append(data[fd[p]], Torn)]
    <3>1. fd[p] \in Inodes
      BY <1>g, <2>1, Zenon
    <3>. QED BY <1>8, <2>1, <2>2, <2>3, <2>5, <3>1, Zenon
  <2>. QED BY <2>1, <2>4, <2>5, Zenon
<1>11. ASSUME NEW i \in Inodes, Loaded(p), Dirty(p) = {}, Promise(p), data' = data,
              \A k \in Keys : IsValOf(data[i], k, root[p][k].val),
              safe'[i] = Len(data[i]), older'[i] = {},
              \A j \in Inodes \ {i} : safe'[j] = safe[j],
              store' = i, storeDur' = {i}, Finish(p, root[p], i)
       PROVE  Goal
  <2> DEFINE val == [k \in Keys |-> root[p][k].val]
  <2>1. legal' = [k \in Keys |-> {root[p][k].val}]
    BY <1>11, Zenon DEF Promise
  <2>2. \A k \in Keys : IsValOf(data'[i], k, val[k]) /\ val[k] \in legal'[k]
    BY <1>11, <2>1, Zenon
  <2>3. data'[i] \in Seq(Records) /\ safe'[i] = Len(data'[i])
    BY <1>c, <1>11, Zenon
  <2>4. SafeName(i)'
    <3> HIDE DEF val
    <3>. QED BY <1>11, <2>2, <2>3, NameSaved, Zenon
  <2>5. CrashSafe'
    BY <1>11, <2>4, CrashSafeNames, Zenon
  <2>6. LengthsOK'
    BY SMTT(30), <1>b, <1>c, <1>11, <2>3 DEF LengthsOK
  <2>7. MediumAt(p)'
    BY <1>11, <2>1, FinishEnds, Zenon DEF MediumAt, Loaded, Copying
  <2>. QED BY <1>11, <2>5, <2>6, <2>7, Zenon
<1>12. CASE AppendFsync(p)
  <2>1. pc[p] = "append" /\ Dirty(p) = {} /\ Promise(p) /\ Finish(p, root[p], fd[p])
        /\ data' = data /\ store' = store
    BY <1>12, Zenon DEF AppendFsync
  <2>2. fd[p] \in Inodes /\ fd[p] = store
    BY <1>b, <1>g, <2>1, Zenon DEF StoreAt, Open, Loaded
  <2>3. /\ safe'[fd[p]] = Len(data[fd[p]]) /\ older'[fd[p]] = {}
        /\ \A j \in Inodes \ {fd[p]} : safe'[j] = safe[j]
        /\ storeDur' = {fd[p]}
    BY <1>a, <1>12, <2>2, Zenon DEF AppendFsync, FilesTypeOK
  <2>4. \A k \in Keys : IsValOf(data[fd[p]], k, root[p][k].val)
    BY <1>b, <2>1, Zenon DEF CacheAt, Dirty
  <2>. QED BY <1>11, <2>1, <2>2, <2>3, <2>4, Zenon DEF Loaded
<1>13. CASE PruneDirFsync(p)
  <2>1. pc[p] = "dirsync" /\ Promise(p) /\ Finish(p, root[p], tfd[p])
        /\ UNCHANGED <<data, safe, older, store>> /\ storeDur' = {store}
    BY <1>13, Zenon DEF PruneDirFsync
  <2>2. tfd[p] \in Inodes /\ tfd[p] = store
    BY <1>b, <1>g, <2>1, Zenon DEF StoreAt, Open, Loaded, Copying
  <2>3. \A k \in Keys : ~root[p][k].dirty /\ IsValOf(data[tfd[p]], k, root[p][k].val)
    BY <1>b, <2>1, Zenon DEF CacheAt, Copying
  <2>4. older[tfd[p]] = {} /\ safe[tfd[p]] = Len(data[tfd[p]])
    BY <1>b, <2>1, Zenon DEF MediumAt, Copying
  <2>5. Dirty(p) = {}
    BY <2>3, Zenon DEF Dirty
  <2>. QED BY <1>11, <2>1, <2>2, <2>3, <2>4, <2>5, Zenon DEF Loaded
<1>14. ASSUME NEW i \in Inodes, i \notin storeDur, UNCHANGED <<store, storeDur, legal>>,
              FilesSameBut(i)
       PROVE  CrashSafe' /\ store' \in storeDur'
  <2>1. ASSUME NEW j \in storeDur PROVE SafeName(j)'
    BY <1>f, <1>14, NameKept, Zenon DEF FilesSameBut, InodesOrNone
  <2>. QED BY <1>b, <1>14, <2>1, CrashSafeNames, Zenon
<1>15. CASE PruneOpen(p)
  <2>1. PICK i \in Inodes : Create(i) /\ tfd' = [tfd EXCEPT ![p] = i]
    BY <1>15, Zenon DEF PruneOpen
  <2>2. /\ pc[p] = "prune" /\ pc'[p] = "copy" /\ root' = root
        /\ UNCHANGED <<store, storeDur, legal>>
    BY <1>a, <1>15, Zenon DEF PruneOpen, HandlesTypeOK
  <2>3. /\ data'[i] = <<>> /\ safe'[i] = 0 /\ older'[i] = {} /\ i \notin storeDur
        /\ FilesSameBut(i) /\ tfd'[p] = i
    BY <1>a, <2>1, Zenon DEF Create, FreeInode, FilesTypeOK, FilesSameBut, HandlesTypeOK
  <2>4. LengthsOK'
    BY SMTT(30), <1>b, <2>3 DEF LengthsOK, FilesSameBut
  <2>5. MediumAt(p)'
    BY <1>b, <2>2, <2>3, Zenon DEF MediumAt, Loaded, Copying
  <2>. QED BY <1>14, <2>2, <2>3, <2>4, <2>5, Zenon
<1>16. CASE PruneOpenFails(p)
  <2>1. /\ pc[p] = "prune" /\ UNCHANGED <<store, storeDur, data, safe, older, legal>>
        /\ Finish(p, root[p], fd[p])
    BY <1>16, Zenon DEF PruneOpenFails
  <2>2. ~Loaded(p)' \/ (pc'[p] = "ready" /\ root'[p] = root[p])
    BY <2>1, FinishEnds, Zenon DEF Loaded
  <2>. QED BY <1>1, <2>1, <2>2, Zenon
<1>17. ASSUME NEW k \in Keys, PruneRecord(p, k) PROVE Goal
  <2>1. /\ pc[p] = "copy" /\ pc' = pc /\ tfd' = tfd
        /\ UNCHANGED <<store, storeDur, safe, older, legal>>
        /\ \/ /\ root[p][k].val = NoVal
              /\ root' = [root EXCEPT ![p] = [root[p] EXCEPT ![k] = Absent]]
              /\ data' = data
           \/ /\ data' = [data EXCEPT ![tfd[p]] = Append(data[tfd[p]], Rec(k, root[p][k].val))]
              /\ root' = [root EXCEPT ![p] =
                             [root[p] EXCEPT ![k] = [root[p][k] EXCEPT !.dirty = FALSE]]]
    BY <1>17, Zenon DEF PruneRecord
  <2>2. tfd[p] \in Inodes /\ tfd[p] \notin storeDur
    BY <1>b, <1>g, <2>1, Zenon DEF MediumAt, Copying
  <2>3. FilesSameBut(tfd[p])
    BY <1>a, <2>1, <2>2, Zenon DEF FilesSameBut, FilesTypeOK
  <2>4. LengthsOK'
    <3>1. data' = data \/ (/\ Len(data'[tfd[p]]) = Len(data[tfd[p]]) + 1
                           /\ \A j \in Inodes \ {tfd[p]} : data'[j] = data[j])
      <4>1. Rec(k, root[p][k].val) \in Records
        BY <1>e, RecType, Zenon
      <4>. QED BY <1>a, <1>c, <2>1, <2>2, <4>1 DEF FilesTypeOK
    <3>. QED BY <1>b, <1>c, <2>1, <2>2, <3>1 DEF LengthsOK
  <2>5. ASSUME NEW j \in Keys PROVE root'[p][j].val = root[p][j].val
    <3>1. /\ \/ root'[p][k] = Absent /\ root[p][k].val = NoVal
             \/ root'[p][k] = [root[p][k] EXCEPT !.dirty = FALSE]
          /\ j # k => root'[p][j] = root[p][j]
      <4>1. PICK e : /\ root' = [root EXCEPT ![p] = [root[p] EXCEPT ![k] = e]]
                     /\ \/ e = Absent /\ root[p][k].val = NoVal
                        \/ e = [root[p][k] EXCEPT !.dirty = FALSE]
        BY <2>1, Zenon
      <4>2. root'[p] = [root[p] EXCEPT ![k] = e]
        BY <1>a, <4>1, Zenon DEF HandlesTypeOK
      <4>3. root'[p][k] = e /\ (j # k => root'[p][j] = root[p][j])
        BY <1>a, <4>2, Zenon DEF HandlesTypeOK
      <4>. QED BY <4>1, <4>3, Zenon
    <3>2. [root[p][k] EXCEPT !.dirty = FALSE].val = root[p][k].val
      BY <1>e, Zenon DEF Entries
    <3>3. Absent.val = NoVal
      BY Zenon DEF Absent
    <3>. QED BY <3>1, <3>2, <3>3, Zenon
  <2>6. MediumAt(p)'
    BY <1>b, <2>1, <2>5, Zenon DEF MediumAt, Loaded, Copying
  <2>. QED BY <1>14, <2>1, <2>2, <2>3, <2>4, <2>6, Zenon
<1>18. CASE PruneFsync(p)
  <2>1. pc[p] = "copy"
    BY <1>18, Zenon DEF PruneFsync
  <2>2. tfd[p] \in Inodes /\ tfd[p] \notin storeDur
    BY <1>b, <1>g, <2>1, Zenon DEF MediumAt, Copying
  <2>3. /\ pc'[p] = "rename" /\ tfd' = tfd /\ root' = root
        /\ UNCHANGED <<store, storeDur, data, older, legal>>
        /\ safe'[tfd[p]] = Len(data[tfd[p]]) /\ FilesSameBut(tfd[p])
    BY <1>a, <1>18, <2>2, Zenon DEF PruneFsync, HandlesTypeOK, FilesTypeOK, FilesSameBut
  <2>4. LengthsOK'
    BY SMTT(30), <1>b, <1>c, <2>2, <2>3 DEF LengthsOK, FilesSameBut
  <2>5. MediumAt(p)'
    BY <1>b, <2>1, <2>3, Zenon DEF MediumAt, Loaded, Copying
  <2>. QED BY <1>14, <2>2, <2>3, <2>4, <2>5, Zenon
<1>19. CASE PruneRename(p)
  <2>1. /\ pc[p] = "rename" /\ pc'[p] = "dirsync" /\ store' = tmp
        /\ storeDur' = storeDur \cup {tmp}
        /\ UNCHANGED <<data, safe, older, tfd, root, legal>>
    BY <1>a, <1>19, Zenon DEF PruneRename, HandlesTypeOK
  <2>2. tfd[p] \in Inodes /\ tfd[p] = tmp
    BY <1>b, <1>g, <2>1, Zenon DEF StoreAt, Copying
  <2>3. \A k \in Keys : IsValOf(data[tmp], k, root[p][k].val) /\ root[p][k].val \in legal[k]
    BY <1>b, <2>1, <2>2, Zenon DEF CacheAt, MediumAt, Copying, Loaded
  <2>4. older[tmp] = {} /\ safe[tmp] = Len(data[tmp])
    BY <1>b, <2>1, <2>2, Zenon DEF MediumAt, Copying
  <2>5. ASSUME NEW i \in Inodes, i = tmp PROVE SafeName(i)'
    <3> DEFINE val == [k \in Keys |-> root[p][k].val]
    <3>1. \A k \in Keys : IsValOf(data'[i], k, val[k]) /\ val[k] \in legal'[k]
      BY <2>1, <2>3, <2>5, Zenon
    <3>2. data'[i] \in Seq(Records) /\ safe'[i] = Len(data'[i]) /\ older'[i] = {}
      BY <1>c, <2>1, <2>4, <2>5, Zenon
    <3> HIDE DEF val
    <3>. QED BY <3>1, <3>2, NameSaved, Zenon
  <2>6. ASSUME NEW j \in storeDur PROVE SafeName(j)'
    BY <2>1, NameKept, Zenon
  <2>7. CrashSafe'
    BY <2>1, <2>2, <2>5, <2>6, CrashSafeNames, Zenon
  <2>8. MediumAt(p)'
    BY <1>b, <2>1, Zenon DEF MediumAt, Loaded, Copying
  <2>. QED BY <1>b, <2>1, <2>7, <2>8, Zenon DEF LengthsOK
<1>. QED BY Zenon, <1>2, <1>3, <1>4, <1>5, <1>6, <1>7, <1>9, <1>10, <1>12, <1>13, <1>15, <1>16, <1>17,
            <1>18, <1>19, NoOtherFailures DEF Step

(* So does every step, a crash and a restart included.                     *)
LEMMA CrashStep ==
    ASSUME Faults \subseteq HandledFaults, FsyncSavesName,
           TypeOK, HandleOK, LockInv, StoreInv, CacheInv, MediumInv, CrashSafe, [Next]_vars
    PROVE  MediumInv' /\ CrashSafe'
<1>a. TypeOK' /\ HandleOK'
  BY TypeStep, Zenon
<1>1. ASSUME NEW p \in Procs, Step(p) PROVE MediumInv' /\ CrashSafe'
  <2>1. CrashSafe' /\ MediumAt(p)' /\ store' \in storeDur' /\ LengthsOK'
    BY <1>a, <1>1, CrashOwnStep, Zenon
  <2>2. \A q \in Procs \ {p} : MediumAt(q)'
    BY <1>1, MediumOthers, Zenon DEF MediumInv
  <2>. QED BY <2>1, <2>2, Zenon DEF MediumInv, LengthsOK
<1>2. ASSUME PowerLoss PROVE MediumInv' /\ CrashSafe'
  <2>a. FilesTypeOK
    BY Zenon DEF TypeOK
  <2>1. \A p \in Procs : MediumAt(p)'
    BY <1>2, Zenon DEF PowerLoss, MediumAt, Loaded, Copying
  <2>2. PICK s \in storeDur :
            /\ store' = s /\ storeDur' = {s}
            /\ \/ /\ s = NoInode
                  /\ legal' = [k \in Keys |-> {NoVal}]
                  /\ UNCHANGED <<data, safe, older>>
               \/ /\ s # NoInode
                  /\ \E f \in Leftovers(s) :
                        /\ data' = [data EXCEPT ![s] = f]
                        /\ safe' = [safe EXCEPT ![s] = Len(f)]
                        /\ older' = [older EXCEPT ![s] = {}]
                        /\ legal' = [k \in Keys |-> ValsOf(f, k)]
    BY <1>2, Zenon DEF PowerLoss
  <2>3. CASE s = NoInode
    <3>1. SafeName(s)'
      BY <2>2, <2>3, Zenon DEF SafeName
    <3>2. CrashSafe'
      BY <2>2, <3>1, CrashSafeNames, Zenon
    <3>. QED BY <2>1, <2>2, <2>3, <3>2, Zenon DEF MediumInv
  <2>4. CASE s # NoInode
    <3>1. s \in Inodes
      BY <2>a, <2>4, Zenon DEF FilesTypeOK, InodesOrNone
    <3>2. PICK f \in Leftovers(s) : /\ data' = [data EXCEPT ![s] = f]
                                    /\ safe' = [safe EXCEPT ![s] = Len(f)]
                                    /\ older' = [older EXCEPT ![s] = {}]
                                    /\ legal' = [k \in Keys |-> ValsOf(f, k)]
      BY <2>2, <2>4, Zenon
    <3>3. f \in Seq(Records) /\ Len(f) \in Nat
      BY <3>1, LeftoversType
    <3>4. /\ data'[s] = f /\ safe'[s] = Len(f) /\ older'[s] = {}
          /\ \A j \in Inodes \ {s} : data'[j] = data[j] /\ safe'[j] = safe[j]
      BY <2>a, <3>1, <3>2, Zenon DEF FilesTypeOK
    <3>5. CrashContents(s)' = {f}
      BY <3>1, <3>3, <3>4, ContentsFrame, ContentsSaved, Zenon
    <3>6. Allowed({f}, legal')
      BY <3>2, Zenon DEF Allowed
    <3>7. SafeName(s)'
      BY <2>4, <3>5, <3>6, Zenon DEF SafeName
    <3>8. CrashSafe'
      BY <2>2, <3>7, CrashSafeNames, Zenon
    <3>. QED BY <2>1, <2>2, <3>3, <3>4, <3>8 DEF MediumInv
  <2>. QED BY <2>3, <2>4, Zenon
<1>3. CASE UNCHANGED vars
  BY SMTT(30), <1>3 DEF vars, MediumInv, MediumAt, Loaded, Copying, CrashSafe, CrashContents
<1>. QED BY <1>1, <1>2, <1>3, NoOtherFailures, Zenon DEF Next

(* Durability for every number of processes, keys and values: with the     *)
(* failures psfs.c recovers from, on a file system whose fsync of a new    *)
(* file also saves its name, a power loss at any moment leaves each key    *)
(* with the value of the last sync that succeeded or with one set since.   *)
THEOREM CrashCorrect ==
    ASSUME Faults \subseteq HandledFaults, FsyncSavesName
    PROVE  Spec => []CrashSafe
<1> DEFINE Inv == /\ TypeOK /\ HandleOK /\ LockInv /\ StoreInv /\ CacheInv
                  /\ MediumInv /\ CrashSafe
<1>1. Init => Inv
  <2> SUFFICES ASSUME Init PROVE Inv
    BY Zenon
  <2>1. TypeOK /\ HandleOK
    BY InitType, Zenon
  <2>2. LockInv /\ StoreInv
    BY Zenon DEF Init, LockInv, Holds, StoreInv, StoreAt, Open, Loaded
  <2>3. CacheInv
    BY Zenon DEF Init, CacheInv, CacheAt, Copying
  <2>4. MediumInv
    BY DEF Init, MediumInv, MediumAt, Loaded, Copying
  <2>5. CrashSafe
    BY Zenon DEF Init, CrashSafe
  <2>. QED BY <2>1, <2>2, <2>3, <2>4, <2>5, Zenon
<1>2. Inv /\ [Next]_vars => Inv'
  BY TypeStep, LockStep, StoreStep, CacheStep, CrashStep, Zenon
<1>. QED BY <1>1, <1>2, PTL DEF Spec
=============================================================================
