----------------------------- MODULE PsfsProofs -----------------------------
(* Proofs about Psfs.                                                      *)
EXTENDS Psfs, TLAPS

-----------------------------------------------------------------------------
(* Type correctness                                                        *)

(* What a crash may leave of a file is a sequence of records.              *)
LEMMA CrashContentsType ==
    ASSUME TypeOK, NEW i \in Inodes
    PROVE  CrashContents(i) \in SUBSET Seq(Records)
<1>1. data[i] \in Seq(Records) /\ safe[i] \in Nat /\ older[i] \in SUBSET Seq(Records)
  BY DEF TypeOK, FilesTypeOK
<1>2. ASSUME NEW n \in safe[i]..Len(data[i]) PROVE SubSeq(data[i], 1, n) \in Seq(Records)
  BY <1>1
<1>. QED BY <1>1, <1>2 DEF CrashContents

(* Records and the torn record are of their type.                          *)
LEMMA RecType ==
    /\ \A k \in Keys, v \in ValsOrNone : Rec(k, v) \in Records
    /\ Torn \in Records
BY DEF Rec, Torn, Records, ValsOrNone

(* What a crash may leave, with a torn record or without, is a sequence of *)
(* records.                                                                *)
LEMMA LeftoversType ==
    ASSUME TypeOK, NEW i \in Inodes
    PROVE  Leftovers(i) \in SUBSET Seq(Records)
<1>1. \A c \in CrashContents(i) : c \in Seq(Records) /\ Append(c, Torn) \in Seq(Records)
  BY CrashContentsType, RecType
<1>. QED BY <1>1 DEF Leftovers

(* Cache entries are of their type.                                        *)
LEMMA EntryType ==
    /\ Absent \in Entries
    /\ \A v \in ValsOrNone, d \in BOOLEAN : Cached(v, d) \in Entries
    /\ \A e \in Entries : e.val \in ValsOrNone /\ [e EXCEPT !.dirty = FALSE] \in Entries
BY Zenon DEF Absent, Cached, Entries, ValsOrNone

(* A handle has its descriptors exactly between the calls that open and    *)
(* close them, and only a writer syncs.                                    *)
HandleOK ==
    \A p \in Procs :
        /\ fd[p] # NoInode <=> pc[p] \notin {"closed", "reopen"}
        /\ tfd[p] # NoInode <=> pc[p] \in {"copy", "rename", "dirsync"}
        /\ pc[p] \in {"append", "prune", "copy", "rename", "dirsync"} => mode[p] = "W"

(* Ending a call leaves a handle of the right type.                        *)
LEMMA FinishType ==
    ASSUME TypeOK, HandleOK, NEW p \in Procs, NEW f \in Inodes, NEW r \in [Keys -> Entries],
           Finish(p, r, f), mode' = mode
    PROVE  HandlesTypeOK' /\ HandleOK'
<1>1. [k \in Keys |-> Absent] \in [Keys -> Entries]
  BY EntryType
<1>2. /\ pc' \in [Procs -> PcValues]
      /\ fd' \in [Procs -> InodesOrNone]
      /\ tfd' \in [Procs -> InodesOrNone]
  BY ConstantsAssumption DEF TypeOK, HandlesTypeOK, Finish, InodesOrNone, PcValues
<1>3. /\ root' \in [Procs -> [Keys -> Entries]]
      /\ todo' \in [Procs -> SUBSET Keys]
      /\ closing' \in [Procs -> BOOLEAN]
  BY <1>1 DEF TypeOK, HandlesTypeOK, Finish
<1>4. leaked' = leaked
  BY DEF Finish
<1>5. HandleOK'
  BY ConstantsAssumption DEF TypeOK, HandlesTypeOK, HandleOK, Finish, InodesOrNone, PcValues
<1>. QED BY <1>2, <1>3, <1>4, <1>5 DEF TypeOK, HandlesTypeOK

(* A step that leaves the files alone keeps their types. *)
LEMMA FilesFrame ==
    ASSUME FilesTypeOK, UNCHANGED files
    PROVE  FilesTypeOK'
BY DEF FilesTypeOK, files

(* The values a sync promises are values of the store.                     *)
LEMMA PromiseType ==
    ASSUME TypeOK, NEW p \in Procs, Promise(p)
    PROVE  legal' \in [Keys -> SUBSET ValsOrNone]
<1>1. \A k \in Keys : root[p][k] \in Entries
  BY DEF TypeOK, HandlesTypeOK
<1>2. \A k \in Keys : root[p][k].val \in ValsOrNone
  BY <1>1, EntryType, Zenon
<1>. QED BY <1>2 DEF TypeOK, Promise

(* Every action keeps the types of the variables and the descriptors of    *)
(* the handles.                                                            *)
LEMMA TypeStep ==
    ASSUME TypeOK, HandleOK, [Next]_vars
    PROVE  TypeOK' /\ HandleOK'
<1> USE ConstantsAssumption DEF InodesOrNone, files, procs, PcValues
<1> DEFINE Goal == TypeOK' /\ HandleOK'
<1>a. FilesTypeOK /\ HandlesTypeOK /\ mishaps \in 0..MaxMishaps
      /\ legal \in [Keys -> SUBSET ValsOrNone]
  BY DEF TypeOK
<1>b. [k \in Keys |-> Absent] \in [Keys -> Entries]
  BY EntryType
<1>c. <<>> \in Seq(Records) /\ {} \in SUBSET Seq(Records) /\ 0 \in Nat
  OBVIOUS
<1>1. ASSUME NEW p \in Procs, NEW m \in {"R", "W"}, OpenFile(p, m) /\ store # NoInode PROVE Goal
  <2>1. /\ pc' = [pc EXCEPT ![p] = "wait"] /\ mode' = [mode EXCEPT ![p] = m]
        /\ fd' = [fd EXCEPT ![p] = store] /\ pc[p] \in {"closed", "reopen"}
        /\ UNCHANGED <<store, tmp, storeDur, data, safe, older, tfd, root, todo, closing, leaked,
                       legal, mishaps>>
    BY <1>1 DEF OpenFile
  <2>2. FilesTypeOK'
    BY <1>1, <1>a, <2>1 DEF FilesTypeOK
  <2>3. HandlesTypeOK'
    <3>1. store \in InodesOrNone /\ NoInode \in InodesOrNone
      BY <1>a DEF FilesTypeOK
    <3> HIDE ConstantsAssumption DEF InodesOrNone
    <3>. QED BY <1>a, <3>1, <2>1 DEF HandlesTypeOK
  <2>4. HandleOK'
    BY <1>1, <1>a, <2>1 DEF HandlesTypeOK, HandleOK
  <2>5. mishaps' \in 0..MaxMishaps /\ legal' \in [Keys -> SUBSET ValsOrNone]
    BY <1>1, <1>a, <2>1 DEF Fault, Mishap
  <2>. QED BY <2>2, <2>3, <2>4, <2>5 DEF TypeOK
<1>2. ASSUME NEW p \in Procs, NEW m \in {"R", "W"}, OpenFile(p, m) /\ store = NoInode /\ m = "R" PROVE Goal
  <2>1. FilesTypeOK'
    BY <1>2, <1>a DEF FilesTypeOK, OpenFile
  <2>2. HandlesTypeOK'
    BY <1>2, <1>a DEF HandlesTypeOK, OpenFile
  <2>3. HandleOK'
    BY <1>2, <1>a DEF HandlesTypeOK, HandleOK, OpenFile
  <2>4. mishaps' \in 0..MaxMishaps /\ legal' \in [Keys -> SUBSET ValsOrNone]
    BY <1>2, <1>a DEF OpenFile, Fault, Mishap
  <2>. QED BY <2>1, <2>2, <2>3, <2>4 DEF TypeOK
<1>3. ASSUME NEW p \in Procs, NEW m \in {"R", "W"}, OpenFile(p, m) /\ store = NoInode /\ m = "W" PROVE Goal
  <2>1. PICK i \in Inodes : Create(i) /\ store' = i /\ storeDur' = storeDur \cup {i}
                           /\ fd' = [fd EXCEPT ![p] = i]
    BY <1>3 DEF OpenFile
  <2>2. FilesTypeOK'
    BY <1>3, <1>a, <1>c, <2>1, SMTT(60) DEF FilesTypeOK, OpenFile, Create
  <2>3. HandlesTypeOK'
    BY <1>3, <1>a, <1>c, <2>1, Zenon DEF HandlesTypeOK, OpenFile, Create
  <2>4. HandleOK'
    BY <1>3, <1>a, <1>c, <2>1, Zenon DEF HandlesTypeOK, HandleOK, OpenFile, Create
  <2>5. mishaps' \in 0..MaxMishaps /\ legal' \in [Keys -> SUBSET ValsOrNone]
    BY <1>3, <1>a DEF OpenFile, Create, Fault, Mishap
  <2>. QED BY <2>2, <2>3, <2>4, <2>5 DEF TypeOK
<1>4. ASSUME NEW p \in Procs, LockFile(p) PROVE Goal
  <2>1. FilesTypeOK'
    BY <1>4, <1>a DEF FilesTypeOK, LockFile
  <2>2. HandlesTypeOK'
    BY <1>4, <1>a DEF HandlesTypeOK, LockFile
  <2>3. HandleOK'
    BY <1>4, <1>a DEF HandlesTypeOK, HandleOK, LockFile
  <2>4. mishaps' \in 0..MaxMishaps /\ legal' \in [Keys -> SUBSET ValsOrNone]
    BY <1>4, <1>a DEF LockFile, Fault, Mishap
  <2>. QED BY <2>1, <2>2, <2>3, <2>4 DEF TypeOK
<1>5. ASSUME NEW p \in Procs, LockInterrupted(p) PROVE Goal
  <2>1. FilesTypeOK'
    BY <1>5, <1>a DEF FilesTypeOK, LockInterrupted
  <2>2. HandlesTypeOK'
    BY <1>5, <1>a DEF HandlesTypeOK, LockInterrupted
  <2>3. HandleOK'
    BY <1>5, <1>a DEF HandlesTypeOK, HandleOK, LockInterrupted
  <2>4. mishaps' \in 0..MaxMishaps /\ legal' \in [Keys -> SUBSET ValsOrNone]
    BY <1>5, <1>a DEF LockInterrupted, Fault, Mishap
  <2>. QED BY <2>1, <2>2, <2>3, <2>4 DEF TypeOK
<1>6. ASSUME NEW p \in Procs, CheckInode(p) PROVE Goal
  <2>1. fd[p] \in Inodes /\ mode[p] \in {"R", "W"}
    BY <1>6, <1>a DEF HandlesTypeOK, HandleOK, CheckInode
  <2>2. leaked' \in [Procs -> SUBSET (Inodes \X {"R", "W"})]
    <3>1. \/ leaked' = [leaked EXCEPT ![p] = leaked[p] \cup {<<fd[p], mode[p]>>}]
          \/ leaked' = leaked
      BY <1>6 DEF CheckInode
    <3>. QED BY <1>a, <2>1, <3>1, SMTT(60) DEF HandlesTypeOK
  <2>3. UNCHANGED <<store, tmp, storeDur, data, safe, older, mode, tfd, root, todo, closing,
                  legal, mishaps>>
    BY <1>6 DEF CheckInode
  <2>4. PICK v \in {"closed", "reopen", "opened"}, i \in InodesOrNone :
          /\ pc' = [pc EXCEPT ![p] = v] /\ fd' = [fd EXCEPT ![p] = i]
          /\ i # NoInode <=> v = "opened"
    <3>1. [fd EXCEPT ![p] = fd[p]] = fd
      BY <1>a DEF HandlesTypeOK
    <3>. QED BY <1>6, <2>1, <3>1 DEF CheckInode
  <2>5. FilesTypeOK'
    BY <1>6, <1>a, <2>1, <2>2, <2>3, <2>4 DEF FilesTypeOK
  <2>6. HandlesTypeOK'
    <3>1. store \in InodesOrNone /\ NoInode \in InodesOrNone
      BY <1>a DEF FilesTypeOK
    <3> HIDE ConstantsAssumption DEF InodesOrNone
    <3>. QED BY <1>a, <3>1, <2>2, <2>3, <2>4 DEF HandlesTypeOK
  <2>7. HandleOK'
    <3>1. pc[p] = "locked"
      BY <1>6, SMTT(60) DEF CheckInode
    <3> HIDE ConstantsAssumption DEF InodesOrNone
    <3>. QED BY <1>a, <2>3, <2>4, <3>1, SMTT(60) DEF HandlesTypeOK, HandleOK
  <2>8. mishaps' \in 0..MaxMishaps /\ legal' \in [Keys -> SUBSET ValsOrNone]
    BY <1>6, <1>a, <2>1, <2>2, <2>3, <2>4 DEF Fault, Mishap
  <2>. QED BY <2>5, <2>6, <2>7, <2>8 DEF TypeOK
<1>7. ASSUME NEW p \in Procs, Load(p) PROVE Goal
  <2>1. fd[p] \in Inodes /\ data[fd[p]] \in Seq(Records)
    BY <1>7, <1>a, Zenon DEF FilesTypeOK, HandlesTypeOK, HandleOK, Load
  <2>0. PICK val \in [Keys -> ValsOrNone] : root' = [root EXCEPT ![p] = [k \in Keys |->
                         IF val[k] = NoVal THEN Absent ELSE Cached(val[k], FALSE)]]
    BY <1>7, Zenon DEF Load
  <2>2. \A k \in Keys : (IF val[k] = NoVal THEN Absent ELSE Cached(val[k], FALSE)) \in Entries
    BY EntryType, Zenon
  <2>3. root' \in [Procs -> [Keys -> Entries]]
    BY <1>a, <2>0, <2>2, Zenon DEF HandlesTypeOK
  <2>4. FilesTypeOK'
    BY <1>7, <1>a, <2>1, <2>2, <2>3 DEF FilesTypeOK, Load
  <2>5. HandlesTypeOK'
    BY <1>7, <1>a, <2>1, <2>2, <2>3, Zenon DEF HandlesTypeOK, Load
  <2>6. HandleOK'
    BY <1>7, <1>a, <2>1, <2>2, <2>3 DEF HandlesTypeOK, HandleOK, Load
  <2>7. mishaps' \in 0..MaxMishaps /\ legal' \in [Keys -> SUBSET ValsOrNone]
    BY <1>7, <1>a DEF Load, Fault, Mishap
  <2>. QED BY <2>4, <2>5, <2>6, <2>7 DEF TypeOK
<1>8. ASSUME NEW p \in Procs, NEW k \in Keys, NEW v \in ValsOrNone, Set(p, k, v) PROVE Goal
  <2>1. Cached(v, TRUE) \in Entries
    BY EntryType, Zenon
  <2>2. FilesTypeOK'
    BY <1>8, <1>a, <2>1 DEF FilesTypeOK, Set
  <2>3. HandlesTypeOK'
    BY <1>8, <1>a, <2>1, Zenon DEF HandlesTypeOK, Set
  <2>4. HandleOK'
    BY <1>8, <1>a, <2>1 DEF HandlesTypeOK, HandleOK, Set
  <2>5. mishaps' \in 0..MaxMishaps /\ legal' \in [Keys -> SUBSET ValsOrNone]
    BY <1>8, <1>a DEF Set, Fault, Mishap
  <2>. QED BY <2>2, <2>3, <2>4, <2>5 DEF TypeOK
<1>9. ASSUME NEW p \in Procs, NEW k \in Keys, SetFails(p, k) PROVE Goal
  <2>1. FilesTypeOK'
    BY <1>9, <1>a, EntryType DEF FilesTypeOK, SetFails
  <2>2. HandlesTypeOK'
    BY <1>9, <1>a, EntryType DEF HandlesTypeOK, SetFails
  <2>3. HandleOK'
    BY <1>9, <1>a, EntryType DEF HandlesTypeOK, HandleOK, SetFails
  <2>4. mishaps' \in 0..MaxMishaps /\ legal' \in [Keys -> SUBSET ValsOrNone]
    BY <1>9, <1>a DEF SetFails, Fault, Mishap
  <2>. QED BY <2>1, <2>2, <2>3, <2>4 DEF TypeOK
<1>10. ASSUME NEW p \in Procs, Erase(p) PROVE Goal
  <2>1. fd[p] \in Inodes
    BY <1>10, <1>a, SMTT(60) DEF HandlesTypeOK, HandleOK, Erase
  <2>2. CrashContents(fd[p]) \in SUBSET Seq(Records)
    BY <2>1, CrashContentsType
  <2>3. legal' \in [Keys -> SUBSET ValsOrNone]
    BY <1>10, <1>a DEF Erase, ValsOrNone
  <2>4. FilesTypeOK'
    BY <1>10, <1>a, <1>b, <1>c, <2>1, <2>2, <2>3 DEF FilesTypeOK, Erase
  <2>5. HandlesTypeOK'
    BY <1>10, <1>a, <1>b, <1>c, <2>1, <2>2, <2>3, SMTT(60) DEF HandlesTypeOK, Erase
  <2>6. HandleOK'
    BY <1>10, <1>a, <1>b, <1>c, <2>1, <2>2, <2>3 DEF HandlesTypeOK, HandleOK, Erase
  <2>7. mishaps' \in 0..MaxMishaps /\ legal' \in [Keys -> SUBSET ValsOrNone]
    BY <1>10, <1>a, <2>3 DEF Erase, Fault, Mishap
  <2>. QED BY <2>4, <2>5, <2>6, <2>7 DEF TypeOK
<1>11. ASSUME NEW p \in Procs, CloseReader(p) PROVE Goal
  <2>1. FilesTypeOK'
    BY <1>11, <1>a, <1>b DEF FilesTypeOK, CloseReader
  <2>2. HandlesTypeOK'
    BY <1>11, <1>a, <1>b DEF HandlesTypeOK, CloseReader
  <2>3. HandleOK'
    BY <1>11, <1>a, <1>b DEF HandlesTypeOK, HandleOK, CloseReader
  <2>4. mishaps' \in 0..MaxMishaps /\ legal' \in [Keys -> SUBSET ValsOrNone]
    BY <1>11, <1>a DEF CloseReader, Fault, Mishap
  <2>. QED BY <2>1, <2>2, <2>3, <2>4 DEF TypeOK
<1>12. ASSUME NEW p \in Procs, CloseRefused(p) PROVE Goal
  <2>1. FilesTypeOK'
    BY <1>12, <1>a, <1>b DEF FilesTypeOK, CloseRefused
  <2>2. HandlesTypeOK'
    BY <1>12, <1>a, <1>b DEF HandlesTypeOK, CloseRefused
  <2>3. HandleOK'
    BY <1>12, <1>a, <1>b DEF HandlesTypeOK, HandleOK, CloseRefused
  <2>4. mishaps' \in 0..MaxMishaps /\ legal' \in [Keys -> SUBSET ValsOrNone]
    BY <1>12, <1>a DEF CloseRefused, Fault, Mishap
  <2>. QED BY <2>1, <2>2, <2>3, <2>4 DEF TypeOK
<1>13. ASSUME NEW p \in Procs, NEW close \in BOOLEAN, SyncAppend(p, close) PROVE Goal
  <2>1. FilesTypeOK'
    BY <1>13, <1>a DEF FilesTypeOK, SyncAppend
  <2>2. HandlesTypeOK'
    BY <1>13, <1>a DEF HandlesTypeOK, SyncAppend
  <2>3. HandleOK'
    BY <1>13, <1>a DEF HandlesTypeOK, HandleOK, SyncAppend
  <2>4. mishaps' \in 0..MaxMishaps /\ legal' \in [Keys -> SUBSET ValsOrNone]
    BY <1>13, <1>a DEF SyncAppend, Fault, Mishap
  <2>. QED BY <2>1, <2>2, <2>3, <2>4 DEF TypeOK
<1>14. ASSUME NEW p \in Procs, NEW close \in BOOLEAN, SyncPrune(p, close) PROVE Goal
  <2>1. FilesTypeOK'
    BY <1>14, <1>a DEF FilesTypeOK, SyncPrune
  <2>2. HandlesTypeOK'
    BY <1>14, <1>a DEF HandlesTypeOK, SyncPrune
  <2>3. HandleOK'
    BY <1>14, <1>a DEF HandlesTypeOK, HandleOK, SyncPrune
  <2>4. mishaps' \in 0..MaxMishaps /\ legal' \in [Keys -> SUBSET ValsOrNone]
    BY <1>14, <1>a DEF SyncPrune, Fault, Mishap
  <2>. QED BY <2>1, <2>2, <2>3, <2>4 DEF TypeOK
<1>15. ASSUME NEW p \in Procs, NEW k \in Keys, AppendRecord(p, k) PROVE Goal
  <2>1. fd[p] \in Inodes
    BY <1>15, <1>a, SMTT(60) DEF HandlesTypeOK, HandleOK, AppendRecord
  <2>2. root[p][k] \in Entries /\ [root[p][k] EXCEPT !.dirty = FALSE] \in Entries /\ root[p][k].val \in ValsOrNone
    BY <1>a, EntryType DEF HandlesTypeOK
  <2>3. Append(data[fd[p]], Rec(k, root[p][k].val)) \in Seq(Records)
    BY <1>a, <2>1, <2>2, RecType DEF FilesTypeOK
  <2>4. FilesTypeOK'
    BY <1>15, <1>a, <2>1, <2>2, <2>3 DEF FilesTypeOK, AppendRecord
  <2>5. HandlesTypeOK'
    BY <1>15, <1>a, <2>1, <2>2, <2>3 DEF HandlesTypeOK, AppendRecord
  <2>6. HandleOK'
    BY <1>15, <1>a, <2>1, <2>2, <2>3, SMTT(60) DEF HandlesTypeOK, HandleOK, AppendRecord
  <2>7. mishaps' \in 0..MaxMishaps /\ legal' \in [Keys -> SUBSET ValsOrNone]
    BY <1>15, <1>a DEF AppendRecord, Fault, Mishap
  <2>. QED BY <2>4, <2>5, <2>6, <2>7 DEF TypeOK
<1>16. ASSUME NEW p \in Procs, AppendFails(p) PROVE Goal
  <2>1. fd[p] \in Inodes /\ root[p] \in [Keys -> Entries]
    BY <1>16, <1>a DEF HandlesTypeOK, HandleOK, AppendFails
  <2>2. Finish(p, root[p], fd[p])
    BY <1>16 DEF AppendFails
  <2>3. Append(data[fd[p]], Torn) \in Seq(Records)
    BY <1>a, <2>1, RecType DEF FilesTypeOK
  <2>4. data' \in [Inodes -> Seq(Records)]
    <3>1. data' = [data EXCEPT ![fd[p]] = Append(data[fd[p]], Torn)] \/ data' = data
      BY <1>16 DEF AppendFails
    <3>. QED BY <1>a, <2>1, <2>3, <3>1, Zenon DEF FilesTypeOK
  <2>5. FilesTypeOK'
    BY <1>16, <1>a, <2>4, Zenon DEF FilesTypeOK, AppendFails
  <2>6. mode' = mode
    BY <1>16, Zenon DEF AppendFails
  <2>7. HandlesTypeOK' /\ HandleOK'
    BY <2>1, <2>2, <2>6, FinishType
  <2>8. mishaps' \in 0..MaxMishaps /\ legal' \in [Keys -> SUBSET ValsOrNone]
    BY <1>16, <1>a DEF AppendFails, Fault, Mishap
  <2>. QED BY <2>5, <2>7, <2>8 DEF TypeOK
<1>17. ASSUME NEW p \in Procs, AppendFsync(p) PROVE Goal
  <2>1. fd[p] \in Inodes /\ root[p] \in [Keys -> Entries]
    BY <1>17, <1>a, SMTT(60) DEF HandlesTypeOK, HandleOK, AppendFsync
  <2>2. Finish(p, root[p], fd[p])
    BY <1>17 DEF AppendFsync
  <2>3. legal' \in [Keys -> SUBSET ValsOrNone]
    BY <1>17, PromiseType DEF AppendFsync
  <2>4. Len(data[fd[p]]) \in Nat
    BY <1>a, <2>1, SMTT(60) DEF FilesTypeOK
  <2>5. FilesTypeOK'
    BY <1>17, <1>a, <1>c, <2>1, <2>4, Zenon DEF FilesTypeOK, AppendFsync
  <2>6. mode' = mode
    BY <1>17, Zenon DEF AppendFsync
  <2>7. HandlesTypeOK' /\ HandleOK'
    BY <2>1, <2>2, <2>6, FinishType
  <2>8. mishaps' \in 0..MaxMishaps /\ legal' \in [Keys -> SUBSET ValsOrNone]
    BY <1>17, <1>a, <2>3 DEF AppendFsync, Fault, Mishap
  <2>. QED BY <2>5, <2>7, <2>8 DEF TypeOK
<1>18. ASSUME NEW p \in Procs, AppendFsyncFails(p) PROVE Goal
  <2>1. fd[p] \in Inodes /\ root[p] \in [Keys -> Entries]
    BY <1>18, <1>a, Zenon DEF HandlesTypeOK, HandleOK, AppendFsyncFails
  <2>2. Finish(p, root[p], fd[p])
    BY <1>18 DEF AppendFsyncFails
  <2>3. legal' \in [Keys -> SUBSET ValsOrNone]
    BY <1>18, PromiseType DEF AppendFsyncFails
  <2>4. FilesTypeOK'
    BY <1>18, <1>a, FilesFrame, Zenon DEF AppendFsyncFails
  <2>5. mode' = mode
    BY <1>18, Zenon DEF AppendFsyncFails
  <2>6. HandlesTypeOK' /\ HandleOK'
    BY <2>1, <2>2, <2>5, FinishType
  <2>7. mishaps' \in 0..MaxMishaps /\ legal' \in [Keys -> SUBSET ValsOrNone]
    BY <1>18, <1>a, <2>3 DEF AppendFsyncFails, Fault, Mishap
  <2>. QED BY <2>4, <2>6, <2>7 DEF TypeOK
<1>19. ASSUME NEW p \in Procs, PruneOpen(p) PROVE Goal
  <2>1. PICK i \in Inodes : Create(i) /\ tmp' = i /\ tfd' = [tfd EXCEPT ![p] = i]
    BY <1>19, Zenon DEF PruneOpen
  <2>2. {k \in Keys : root[p][k].cached} \in SUBSET Keys
    OBVIOUS
  <2>3. FilesTypeOK'
    BY <1>19, <1>a, <1>c, <2>1, <2>2, Zenon DEF FilesTypeOK, PruneOpen, Create
  <2>4. HandlesTypeOK'
    BY <1>19, <1>a, <1>c, <2>1, <2>2, SMTT(60) DEF HandlesTypeOK, PruneOpen, Create
  <2>5. HandleOK'
    BY <1>19, <1>a, <1>c, <2>1, <2>2, SMTT(60)
       DEF HandlesTypeOK, HandleOK, PruneOpen, Create
  <2>6. mishaps' \in 0..MaxMishaps /\ legal' \in [Keys -> SUBSET ValsOrNone]
    BY <1>19, <1>a DEF PruneOpen, Create, Fault, Mishap
  <2>. QED BY <2>3, <2>4, <2>5, <2>6 DEF TypeOK
<1>20. ASSUME NEW p \in Procs, PruneOpenFails(p) PROVE Goal
  <2>1. fd[p] \in Inodes /\ root[p] \in [Keys -> Entries]
    BY <1>20, <1>a, SMTT(60) DEF HandlesTypeOK, HandleOK, PruneOpenFails
  <2>2. Finish(p, root[p], fd[p])
    BY <1>20 DEF PruneOpenFails
  <2>3. FilesTypeOK'
    BY <1>20, <1>a, Zenon DEF FilesTypeOK, PruneOpenFails
  <2>4. mode' = mode
    BY <1>20, Zenon DEF PruneOpenFails
  <2>5. HandlesTypeOK' /\ HandleOK'
    BY <2>1, <2>2, <2>4, FinishType
  <2>6. mishaps' \in 0..MaxMishaps /\ legal' \in [Keys -> SUBSET ValsOrNone]
    BY <1>20, <1>a DEF PruneOpenFails, Fault, Mishap
  <2>. QED BY <2>3, <2>5, <2>6 DEF TypeOK
<1>21. ASSUME NEW p \in Procs, PruneFsyncFails(p) PROVE Goal
  <2>1. fd[p] \in Inodes /\ root[p] \in [Keys -> Entries]
    BY <1>21, <1>a DEF HandlesTypeOK, HandleOK, PruneFsyncFails
  <2>2. Finish(p, root[p], fd[p])
    BY <1>21, SMTT(60) DEF PruneFsyncFails
  <2>3. FilesTypeOK'
    BY <1>21, <1>a, FilesFrame, Zenon DEF PruneFsyncFails
  <2>4. mode' = mode
    BY <1>21, Zenon DEF PruneFsyncFails
  <2>5. HandlesTypeOK' /\ HandleOK'
    BY <2>1, <2>2, <2>4, FinishType
  <2>6. mishaps' \in 0..MaxMishaps /\ legal' \in [Keys -> SUBSET ValsOrNone]
    BY <1>21, <1>a DEF PruneFsyncFails, Fault, Mishap
  <2>. QED BY <2>3, <2>5, <2>6 DEF TypeOK
<1>22. ASSUME NEW p \in Procs, PruneRenameFails(p) PROVE Goal
  <2>1. fd[p] \in Inodes /\ root[p] \in [Keys -> Entries]
    BY <1>22, <1>a, SMTT(60) DEF HandlesTypeOK, HandleOK, PruneRenameFails
  <2>2. Finish(p, root[p], fd[p])
    BY <1>22 DEF PruneRenameFails
  <2>3. FilesTypeOK'
    BY <1>22, <1>a, FilesFrame, Zenon DEF PruneRenameFails
  <2>4. mode' = mode
    BY <1>22, Zenon DEF PruneRenameFails
  <2>5. HandlesTypeOK' /\ HandleOK'
    BY <2>1, <2>2, <2>4, FinishType
  <2>6. mishaps' \in 0..MaxMishaps /\ legal' \in [Keys -> SUBSET ValsOrNone]
    BY <1>22, <1>a DEF PruneRenameFails, Fault, Mishap
  <2>. QED BY <2>3, <2>5, <2>6 DEF TypeOK
<1>23. ASSUME NEW p \in Procs, PruneDirFsyncFails(p) PROVE Goal
  <2>1. fd[p] \in Inodes /\ root[p] \in [Keys -> Entries]
    BY <1>23, <1>a DEF HandlesTypeOK, HandleOK, PruneDirFsyncFails
  <2>2. Finish(p, root[p], fd[p])
    BY <1>23, SMTT(60) DEF PruneDirFsyncFails
  <2>3. FilesTypeOK'
    BY <1>23, <1>a, FilesFrame, Zenon DEF PruneDirFsyncFails
  <2>4. mode' = mode
    BY <1>23, Zenon DEF PruneDirFsyncFails
  <2>5. HandlesTypeOK' /\ HandleOK'
    BY <2>1, <2>2, <2>4, FinishType
  <2>6. mishaps' \in 0..MaxMishaps /\ legal' \in [Keys -> SUBSET ValsOrNone]
    BY <1>23, <1>a DEF PruneDirFsyncFails, Fault, Mishap
  <2>. QED BY <2>3, <2>5, <2>6 DEF TypeOK
<1>24. ASSUME NEW p \in Procs, NEW k \in Keys, PruneRecord(p, k) PROVE Goal
  <2>1. tfd[p] \in Inodes
    BY <1>24, <1>a, SMTT(60) DEF HandlesTypeOK, HandleOK, PruneRecord
  <2>2. root[p][k] \in Entries /\ [root[p][k] EXCEPT !.dirty = FALSE] \in Entries /\ root[p][k].val \in ValsOrNone
    BY <1>a, EntryType DEF HandlesTypeOK
  <2>3. Append(data[tfd[p]], Rec(k, root[p][k].val)) \in Seq(Records)
    BY <1>a, <2>1, <2>2, RecType DEF FilesTypeOK
  <2>4. /\ pc[p] = "copy" /\ todo' = [todo EXCEPT ![p] = todo[p] \ {k}]
        /\ \/ data' = data /\ root' = [root EXCEPT ![p][k] = Absent]
           \/ /\ data' = [data EXCEPT ![tfd[p]] = Append(data[tfd[p]], Rec(k, root[p][k].val))]
              /\ root' = [root EXCEPT ![p][k] = [root[p][k] EXCEPT !.dirty = FALSE]]
        /\ UNCHANGED <<store, tmp, storeDur, safe, older, pc, mode, fd, tfd, closing, leaked,
                       legal, mishaps>>
    BY <1>24 DEF PruneRecord
  <2>5. data' \in [Inodes -> Seq(Records)] /\ root' \in [Procs -> [Keys -> Entries]]
    <3>1. data' \in [Inodes -> Seq(Records)]
      BY <1>a, <2>1, <2>3, <2>4, Zenon DEF FilesTypeOK
    <3>2. Absent \in Entries
      BY EntryType
    <3>3. PICK e \in Entries : root' = [root EXCEPT ![p] = [root[p] EXCEPT ![k] = e]]
      BY <2>2, <2>4, <3>2, Zenon
    <3>4. root' \in [Procs -> [Keys -> Entries]]
      BY <1>a, <3>3 DEF HandlesTypeOK
    <3>. QED BY <3>1, <3>4
  <2>6. FilesTypeOK'
    BY <1>24, <1>a, <2>1, <2>2, <2>3, <2>4, <2>5 DEF FilesTypeOK
  <2>7. HandlesTypeOK'
    <3>1. store \in InodesOrNone /\ NoInode \in InodesOrNone
      BY <1>a DEF FilesTypeOK
    <3> HIDE ConstantsAssumption DEF InodesOrNone
    <3>. QED BY <1>a, <3>1, <2>4, <2>5 DEF HandlesTypeOK
  <2>8. HandleOK'
    BY <1>24, <1>a, <2>1, <2>2, <2>3, <2>4, <2>5, SMTT(60) DEF HandlesTypeOK, HandleOK
  <2>9. mishaps' \in 0..MaxMishaps /\ legal' \in [Keys -> SUBSET ValsOrNone]
    BY <1>24, <1>a, <2>1, <2>2, <2>3, <2>4, <2>5 DEF Fault, Mishap
  <2>. QED BY <2>6, <2>7, <2>8, <2>9 DEF TypeOK
<1>25. ASSUME NEW p \in Procs, NEW k \in Keys, PruneRecordFails(p, k) PROVE Goal
  <2>1. tfd[p] \in Inodes
    BY <1>25, <1>a, SMTT(60) DEF HandlesTypeOK, HandleOK, PruneRecordFails
  <2>2. Append(data[tfd[p]], Torn) \in Seq(Records)
    BY <1>a, <2>1, RecType, SMTT(60) DEF FilesTypeOK
  <2>3. FilesTypeOK'
    BY <1>25, <1>a, <2>1, <2>2, ZenonT(60) DEF FilesTypeOK, PruneRecordFails
  <2>4. HandlesTypeOK'
    BY <1>25, <1>a, <2>1, <2>2 DEF HandlesTypeOK, PruneRecordFails
  <2>5. HandleOK'
    BY <1>25, <1>a, <2>1, <2>2, SMTT(60) DEF HandlesTypeOK, HandleOK, PruneRecordFails
  <2>6. mishaps' \in 0..MaxMishaps /\ legal' \in [Keys -> SUBSET ValsOrNone]
    BY <1>25, <1>a DEF PruneRecordFails, Fault, Mishap
  <2>. QED BY <2>3, <2>4, <2>5, <2>6 DEF TypeOK
<1>26. ASSUME NEW p \in Procs, PruneFsync(p) PROVE Goal
  <2>1. tfd[p] \in Inodes
    BY <1>26, <1>a DEF HandlesTypeOK, HandleOK, PruneFsync
  <2>2. Len(data[tfd[p]]) \in Nat
    BY <1>a, <2>1, SMTT(60) DEF FilesTypeOK
  <2>3. FilesTypeOK'
    BY <1>26, <1>a, <2>1, <2>2, SMTT(60) DEF FilesTypeOK, PruneFsync
  <2>4. HandlesTypeOK'
    BY <1>26, <1>a, <2>1, <2>2, SMTT(60) DEF HandlesTypeOK, PruneFsync
  <2>5. HandleOK'
    BY <1>26, <1>a, <2>1, <2>2 DEF HandlesTypeOK, HandleOK, PruneFsync
  <2>6. mishaps' \in 0..MaxMishaps /\ legal' \in [Keys -> SUBSET ValsOrNone]
    BY <1>26, <1>a DEF PruneFsync, Fault, Mishap
  <2>. QED BY <2>3, <2>4, <2>5, <2>6 DEF TypeOK
<1>27. ASSUME NEW p \in Procs, PruneRename(p) PROVE Goal
  <2>1. FilesTypeOK'
    BY <1>27, <1>a, SMTT(60) DEF FilesTypeOK, PruneRename
  <2>2. HandlesTypeOK'
    BY <1>27, <1>a, SMTT(60) DEF HandlesTypeOK, PruneRename
  <2>3. HandleOK'
    BY <1>27, <1>a, SMTT(60) DEF HandlesTypeOK, HandleOK, PruneRename
  <2>4. mishaps' \in 0..MaxMishaps /\ legal' \in [Keys -> SUBSET ValsOrNone]
    BY <1>27, <1>a DEF PruneRename, Fault, Mishap
  <2>. QED BY <2>1, <2>2, <2>3, <2>4 DEF TypeOK
<1>28. ASSUME NEW p \in Procs, PruneDirFsync(p) PROVE Goal
  <2>1. tfd[p] \in Inodes /\ root[p] \in [Keys -> Entries]
    BY <1>28, <1>a DEF HandlesTypeOK, HandleOK, PruneDirFsync
  <2>2. Finish(p, root[p], tfd[p])
    BY <1>28 DEF PruneDirFsync
  <2>3. legal' \in [Keys -> SUBSET ValsOrNone]
    BY <1>28, PromiseType, SMTT(60) DEF PruneDirFsync
  <2>4. FilesTypeOK'
    BY <1>28, <1>a, Zenon DEF FilesTypeOK, PruneDirFsync
  <2>5. mode' = mode
    BY <1>28, Zenon DEF PruneDirFsync
  <2>6. HandlesTypeOK' /\ HandleOK'
    BY <2>1, <2>2, <2>5, FinishType
  <2>7. mishaps' \in 0..MaxMishaps /\ legal' \in [Keys -> SUBSET ValsOrNone]
    BY <1>28, <1>a, <2>3 DEF PruneDirFsync, Fault, Mishap
  <2>. QED BY <2>4, <2>6, <2>7 DEF TypeOK
<1>29. ASSUME NEW p \in Procs, Kill(p) PROVE Goal
  <2>1. FilesTypeOK'
    BY <1>29, <1>a, <1>b, SMTT(60) DEF FilesTypeOK, Kill
  <2>2. HandlesTypeOK'
    BY <1>29, <1>a, <1>b, SMTT(60) DEF HandlesTypeOK, Kill
  <2>3. HandleOK'
    BY <1>29, <1>a, <1>b DEF HandlesTypeOK, HandleOK, Kill
  <2>4. mishaps' \in 0..MaxMishaps /\ legal' \in [Keys -> SUBSET ValsOrNone]
    BY <1>29, <1>a DEF Kill, Fault, Mishap
  <2>. QED BY <2>1, <2>2, <2>3, <2>4 DEF TypeOK
<1>30. ASSUME Wipe PROVE Goal
  <2>1. FilesTypeOK' /\ HandlesTypeOK' /\ HandleOK'
    BY <1>30, <1>a DEF FilesTypeOK, HandlesTypeOK, HandleOK, Wipe
  <2>. QED BY <1>30, <1>a, <2>1, SMTT(60) DEF TypeOK, Wipe, Fault, Mishap, ValsOrNone
<1>31. ASSUME PowerLoss PROVE Goal
  <2>1. HandlesTypeOK' /\ HandleOK'
    BY <1>31, <1>a, <1>b, Zenon DEF HandlesTypeOK, HandleOK, PowerLoss
  <2>2. PICK s \in storeDur : store' = s /\ storeDur' = {s} /\ PowerLoss!2!(s)!3
    BY <1>31, SMTT(60) DEF PowerLoss
  <2>3. CASE s = NoInode
    BY <1>31, <1>a, <2>1, <2>2, <2>3, SMTT(60)
       DEF TypeOK, FilesTypeOK, PowerLoss, Mishap, ValsOrNone
  <2>4. CASE s # NoInode
    <3>1. s \in Inodes
      BY <1>a, <2>4 DEF FilesTypeOK
    <3>2. PICK f \in Leftovers(s) : /\ data' = [data EXCEPT ![s] = f]
                                    /\ safe' = [safe EXCEPT ![s] = Len(f)]
                                    /\ older' = [older EXCEPT ![s] = {}]
                                    /\ legal' = [k \in Keys |-> ValsOf(f, k)]
      BY <2>2, <2>4
    <3>3. f \in Seq(Records)
      BY <3>1, LeftoversType
    <3>4. Len(f) \in Nat /\ \A k \in Keys : ValsOf(f, k) \in SUBSET ValsOrNone
      BY <3>3, SMTT(60) DEF ValsOf
    <3>5. FilesTypeOK'
      BY <1>31, <1>a, <1>c, <2>2, <3>1, <3>2, <3>3, <3>4, SMTT(60)
         DEF FilesTypeOK, PowerLoss
    <3>. QED BY <1>31, <1>a, <2>1, <3>2, <3>4, <3>5, SMTT(60)
                DEF TypeOK, PowerLoss, Mishap
  <2>. QED BY <2>3, <2>4, SMTT(60)
<1>32. CASE UNCHANGED vars
  BY <1>32, ZenonT(60) DEF TypeOK, FilesTypeOK, HandlesTypeOK, HandleOK, vars
<1>. QED
  BY <1>1, <1>2, <1>3, <1>4, <1>5, <1>6, <1>7, <1>8, <1>9, <1>10, <1>11, <1>12, <1>13,
     <1>14, <1>15, <1>16, <1>17, <1>18, <1>19, <1>20,
     <1>21, <1>22, <1>23, <1>24, <1>25, <1>26, <1>27, <1>28, <1>29, <1>30, <1>31, <1>32 DEF Next, Step

-----------------------------------------------------------------------------
(* Locking, whatever fails                                                 *)

(* The process has the record lock on the file of its descriptor.          *)
Holds(p) == pc[p] \notin {"closed", "reopen", "wait"}

(* The locks exclude each other, from the moment psfs_file_lock returns    *)
(* and not only once the file has been compared with its name; and the     *)
(* temporary file of a prune is nobody else's.                             *)
LockInv ==
    \A p, q \in Procs : p # q =>
        /\ Holds(p) /\ Holds(q) /\ fd[p] = fd[q] => mode[p] = "R" /\ mode[q] = "R"
        /\ tfd[p] # NoInode => tfd[p] # tfd[q] /\ (Holds(q) => fd[q] # tfd[p])

(* A step of p that takes no lock and opens no temporary file.             *)
LockFrame(p) ==
    /\ \A q \in Procs \ {p} : /\ pc'[q] = pc[q] /\ mode'[q] = mode[q]
                              /\ fd'[q] = fd[q] /\ tfd'[q] = tfd[q]
    /\ Holds(p)' => Holds(p) /\ mode'[p] = mode[p] /\ fd'[p] = fd[p]
    /\ tfd'[p] # NoInode => tfd'[p] = tfd[p]

(* Such a step keeps the locks right.                                      *)
LEMMA LockFrameKeeps ==
    ASSUME LockInv, NEW p \in Procs, LockFrame(p)
    PROVE  LockInv'
BY SMTT(60) DEF LockInv, LockFrame, Holds

(* Every step keeps the locks right.                                       *)
LEMMA LockStep ==
    ASSUME TypeOK, HandleOK, LockInv, [Next]_vars
    PROVE  LockInv'
<1>a. HandlesTypeOK
  BY DEF TypeOK
<1> USE DEF Holds
<1>1. ASSUME NEW p \in Procs, NEW m \in {"R", "W"}, OpenFile(p, m) PROVE LockInv'
  <2>1. /\ pc[p] \in {"closed", "reopen"} /\ mode' = [mode EXCEPT ![p] = m] /\ tfd' = tfd
        /\ \/ \E i \in Inodes : fd' = [fd EXCEPT ![p] = i]
           \/ fd' = [fd EXCEPT ![p] = store]
           \/ fd' = fd
        /\ pc' = [pc EXCEPT ![p] = "wait"] \/ pc' = [pc EXCEPT ![p] = "closed"]
    BY <1>1 DEF OpenFile
  <2>2. LockFrame(p)
    BY <1>a, <2>1 DEF HandlesTypeOK, LockFrame
  <2>. QED BY <2>2, LockFrameKeeps
<1>2. ASSUME NEW p \in Procs, LockFile(p) PROVE LockInv'
  <2>1. /\ pc' = [pc EXCEPT ![p] = "locked"] /\ UNCHANGED <<mode, fd, tfd>>
        /\ \A q \in Procs : ~Blocks(q, p)
    BY <1>2 DEF LockFile
  <2>2. mode[p] \in {"R", "W"} /\ \A q \in Procs : mode[q] \in {"R", "W"}
    BY <1>a DEF HandlesTypeOK
  <2>. QED BY <1>a, <2>1, <2>2 DEF LockInv, Blocks, HandlesTypeOK
<1>3. ASSUME NEW p \in Procs, LockInterrupted(p) \/ CloseReader(p) \/ CloseRefused(p) \/ Kill(p)
      PROVE  LockInv'
  <2>1. /\ pc' = [pc EXCEPT ![p] = "closed"] /\ fd' = [fd EXCEPT ![p] = NoInode] /\ mode' = mode
        /\ tfd' = tfd \/ tfd' = [tfd EXCEPT ![p] = NoInode]
    BY <1>3 DEF LockInterrupted, CloseReader, CloseRefused, Kill
  <2>2. LockFrame(p)
    BY <1>a, <2>1, SMTT(60) DEF HandlesTypeOK, LockFrame
  <2>. QED BY <2>2, LockFrameKeeps, SMTT(60)
<1>4. ASSUME NEW p \in Procs, CheckInode(p) PROVE LockInv'
  <2>1. /\ pc[p] = "locked" /\ mode' = mode /\ tfd' = tfd
        /\ \/ pc' = [pc EXCEPT ![p] = "closed"] /\ fd' = [fd EXCEPT ![p] = NoInode]
           \/ pc' = [pc EXCEPT ![p] = "reopen"] /\ fd' = [fd EXCEPT ![p] = NoInode]
           \/ pc' = [pc EXCEPT ![p] = "opened"] /\ fd' = fd
    BY <1>4 DEF CheckInode
  <2>2. LockFrame(p)
    BY <1>a, <2>1, SMTT(60) DEF HandlesTypeOK, LockFrame
  <2>. QED BY <2>2, LockFrameKeeps
<1>5. ASSUME NEW p \in Procs,
             \/ Load(p) \/ Erase(p) \/ PruneFsync(p) \/ PruneRename(p)
             \/ \E k \in Keys, v \in ValsOrNone : Set(p, k, v)
             \/ \E k \in Keys : SetFails(p, k) \/ AppendRecord(p, k)
                                \/ PruneRecord(p, k) \/ PruneRecordFails(p, k)
             \/ \E close \in BOOLEAN : SyncAppend(p, close) \/ SyncPrune(p, close)
      PROVE  LockInv'
  <2>1. /\ UNCHANGED <<mode, fd, tfd>> /\ Holds(p)
        /\ \E v \in {"ready", "append", "prune", "copy", "rename", "dirsync"} :
               pc' = [pc EXCEPT ![p] = v] \/ pc' = pc
    BY <1>5, Zenon DEF Load, Erase, PruneFsync, PruneRename, Set, SetFails, AppendRecord,
                PruneRecord, PruneRecordFails, SyncAppend, SyncPrune
  <2>2. LockFrame(p)
    BY <1>a, <2>1, SMTT(60) DEF HandlesTypeOK, LockFrame
  <2>. QED BY <2>2, LockFrameKeeps
<1>6. ASSUME NEW p \in Procs,
             \/ AppendFails(p) \/ AppendFsync(p) \/ AppendFsyncFails(p) \/ PruneOpenFails(p)
             \/ PruneFsyncFails(p) \/ PruneRenameFails(p) \/ PruneDirFsyncFails(p)
      PROVE  LockInv'
  <2>1. Finish(p, root[p], fd[p]) /\ mode' = mode /\ Holds(p)
    BY <1>6, Zenon
       DEF AppendFails, AppendFsync, AppendFsyncFails, PruneOpenFails, PruneFsyncFails,
                PruneRenameFails, PruneDirFsyncFails
  <2>2. /\ tfd' = [tfd EXCEPT ![p] = NoInode]
        /\ \/ pc' = [pc EXCEPT ![p] = "closed"] /\ fd' = [fd EXCEPT ![p] = NoInode]
           \/ pc' = [pc EXCEPT ![p] = "ready"] /\ fd' = [fd EXCEPT ![p] = fd[p]]
    BY <2>1, ZenonT(60) DEF Finish
  <2>3. LockFrame(p)
    BY <1>a, <2>1, <2>2 DEF HandlesTypeOK, LockFrame
  <2>. QED BY <2>3, LockFrameKeeps
<1>7. ASSUME NEW p \in Procs, PruneOpen(p) PROVE LockInv'
  <2>1. PICK i \in Inodes : FreeInode(i) /\ tfd' = [tfd EXCEPT ![p] = i]
    BY <1>7, Zenon DEF PruneOpen, Create
  <2>2. pc[p] = "prune" /\ pc' = [pc EXCEPT ![p] = "copy"] /\ UNCHANGED <<mode, fd>>
    BY <1>7, Zenon DEF PruneOpen
  <2>3. \A q \in Procs : fd[q] # i /\ tfd[q] # i
    BY <2>1, Zenon DEF FreeInode
  <2>. QED BY <1>a, <2>1, <2>2, <2>3 DEF LockInv, HandlesTypeOK
<1>8. ASSUME NEW p \in Procs, PruneDirFsync(p) PROVE LockInv'
  <2>1. pc[p] = "dirsync" /\ mode' = mode /\ Finish(p, root[p], tfd[p])
    BY <1>8, SMTT(60) DEF PruneDirFsync
  <2>2. tfd[p] # NoInode
    BY <2>1 DEF HandleOK
  <2>3. /\ tfd' = [tfd EXCEPT ![p] = NoInode]
        /\ \/ pc' = [pc EXCEPT ![p] = "closed"] /\ fd' = [fd EXCEPT ![p] = NoInode]
           \/ pc' = [pc EXCEPT ![p] = "ready"] /\ fd' = [fd EXCEPT ![p] = tfd[p]]
    BY <2>1, Zenon DEF Finish
  <2>. QED BY <1>a, <2>1, <2>2, <2>3, SMTT(60) DEF LockInv, HandlesTypeOK
<1>9. ASSUME PowerLoss PROVE LockInv'
  BY <1>9, Zenon DEF PowerLoss, LockInv
<1>10. ASSUME Wipe \/ UNCHANGED vars PROVE LockInv'
  BY <1>10 DEF Wipe, LockInv, vars, procs
<1>. QED
  BY <1>1, <1>2, <1>3, <1>4, <1>5, <1>6, <1>7, <1>8, <1>9, <1>10 DEF Next, Step

-----------------------------------------------------------------------------

(* The initial states have their types.                                    *)
LEMMA InitType == Init => TypeOK /\ HandleOK
<1> SUFFICES ASSUME Init PROVE TypeOK /\ HandleOK
  OBVIOUS
<1>1. FilesTypeOK
  BY ConstantsAssumption DEF Init, FilesTypeOK, InodesOrNone
<1>2. HandlesTypeOK
  BY EntryType DEF Init, HandlesTypeOK, InodesOrNone, PcValues
<1>. QED BY <1>1, <1>2, ConstantsAssumption DEF Init, TypeOK, HandleOK, ValsOrNone

(* The variables keep their types, whatever fails.                         *)
THEOREM TypeCorrect == Spec => []TypeOK
<1>1. TypeOK /\ HandleOK /\ [Next]_vars => (TypeOK /\ HandleOK)'
  BY TypeStep
<1>. QED BY InitType, <1>1, PTL DEF Spec

(* Two handles on one file are both readers, whatever fails.               *)
THEOREM LockingCorrect == Spec => []LockExcludes
<1>1. Init => TypeOK /\ HandleOK /\ LockInv
  BY InitType DEF Init, LockInv, Holds
<1>2. TypeOK /\ HandleOK /\ LockInv /\ [Next]_vars => (TypeOK /\ HandleOK /\ LockInv)'
  BY TypeStep, LockStep, SMTT(60)
<1>3. LockInv => LockExcludes
  BY SMTT(60) DEF LockInv, LockExcludes, Holds, Open, Loaded
<1>. QED BY <1>1, <1>2, <1>3, PTL DEF Spec

-----------------------------------------------------------------------------
(* One store: no file outlives its name in an open handle                  *)

(* What an open handle and the names have to do with each other.           *)
StoreAt(p) ==
    /\ Open(p) => store = IF pc[p] = "dirsync" THEN tfd[p] ELSE fd[p]
    /\ pc[p] \in {"copy", "rename"} => tfd[p] = tmp

StoreInv == \A p \in Procs : StoreAt(p)

(* A writer whose lock has been checked has the store to itself.           *)
LEMMA WriterAlone ==
    ASSUME HandleOK, LockInv, StoreInv, NEW p \in Procs, Open(p), mode[p] = "W",
           NEW q \in Procs, q # p
    PROVE  ~Open(q)
<1>1. Holds(p) /\ (Open(q) => Holds(q)) /\ (Open(q) => fd[q] # NoInode) /\ fd[p] # NoInode
  BY DEF HandleOK, Open, Loaded, Holds
<1>2. /\ pc[p] = "dirsync" => tfd[p] # NoInode
      /\ pc[q] = "dirsync" => tfd[q] # NoInode
  BY DEF HandleOK
<1>3. StoreAt(p) /\ StoreAt(q)
  BY SMTT(60) DEF StoreInv
<1>. QED BY <1>1, <1>2, <1>3, SMTT(60) DEF LockInv, StoreAt

(* A step of p that leaves the names and the other handles alone.          *)
LEMMA StoreFrameKeeps ==
    ASSUME StoreInv, NEW p \in Procs, UNCHANGED <<store, tmp>>, StoreAt(p)',
           \A q \in Procs \ {p} : pc'[q] = pc[q] /\ fd'[q] = fd[q] /\ tfd'[q] = tfd[q]
    PROVE  StoreInv'
BY SMTT(60) DEF StoreInv, StoreAt, Open, Loaded

(* Every step keeps the store where the handles expect it.                 *)
LEMMA StoreStep ==
    ASSUME Faults \subseteq HandledFaults,
           TypeOK, HandleOK, LockInv, StoreInv, [Next]_vars
    PROVE  StoreInv'
<1>a. HandlesTypeOK
  BY DEF TypeOK
<1> USE DEF Open, Loaded
<1>1. ASSUME NEW p \in Procs, NEW m \in {"R", "W"}, OpenFile(p, m) PROVE StoreInv'
  <2>1. CASE store # NoInode \/ m = "R"
    <3>1. /\ UNCHANGED <<store, tmp, tfd>>
          /\ \/ pc' = [pc EXCEPT ![p] = "wait"] /\ fd' = [fd EXCEPT ![p] = store]
             \/ pc' = [pc EXCEPT ![p] = "closed"] /\ fd' = fd
      BY <1>1, <2>1, SMTT(60) DEF OpenFile, files
    <3>2. /\ StoreAt(p)'
          /\ \A q \in Procs \ {p} : pc'[q] = pc[q] /\ fd'[q] = fd[q] /\ tfd'[q] = tfd[q]
      BY <1>a, <3>1 DEF HandlesTypeOK, StoreAt
    <3>. QED BY <3>1, <3>2, StoreFrameKeeps, Zenon
  <2>2. CASE store = NoInode /\ m = "W"
    <3>1. PICK i \in Inodes : /\ store' = i /\ fd' = [fd EXCEPT ![p] = i]
                              /\ pc' = [pc EXCEPT ![p] = "wait"] /\ UNCHANGED <<tmp, tfd>>
      BY <1>1, <2>2, SMTT(60) DEF OpenFile
    <3>2. \A q \in Procs : ~Open(q)
      BY <2>2 DEF StoreInv, StoreAt, HandleOK
    <3>. QED BY <1>a, <3>1, <3>2, SMTT(60) DEF HandlesTypeOK, StoreInv, StoreAt
  <2>. QED BY <2>1, <2>2, SMTT(60)
<1>2. ASSUME NEW p \in Procs,
             LockFile(p) \/ LockInterrupted(p) \/ CloseReader(p) \/ CloseRefused(p) \/ Kill(p)
      PROVE  StoreInv'
  <2>1. /\ UNCHANGED <<store, tmp>>
        /\ pc' = [pc EXCEPT ![p] = "locked"] \/ pc' = [pc EXCEPT ![p] = "closed"]
        /\ fd' = fd \/ fd' = [fd EXCEPT ![p] = NoInode]
        /\ tfd' = tfd \/ tfd' = [tfd EXCEPT ![p] = NoInode]
    BY <1>2, Zenon DEF LockFile, LockInterrupted, CloseReader, CloseRefused, Kill, files
  <2>2. /\ StoreAt(p)'
        /\ \A q \in Procs \ {p} : pc'[q] = pc[q] /\ fd'[q] = fd[q] /\ tfd'[q] = tfd[q]
    BY <1>a, <2>1, SMTT(60) DEF HandlesTypeOK, StoreAt
  <2>. QED BY <2>1, <2>2, StoreFrameKeeps, SMTT(60)
<1>3. ASSUME NEW p \in Procs, CheckInode(p) PROVE StoreInv'
  <2>1. /\ UNCHANGED <<store, tmp, tfd>>
        /\ \/ pc' = [pc EXCEPT ![p] = "closed"] /\ fd' = [fd EXCEPT ![p] = NoInode]
           \/ pc' = [pc EXCEPT ![p] = "reopen"] /\ fd' = [fd EXCEPT ![p] = NoInode]
           \/ pc' = [pc EXCEPT ![p] = "opened"] /\ fd' = fd /\ fd[p] = store
    BY <1>3, SMTT(60) DEF CheckInode, files
  <2>2. /\ StoreAt(p)'
        /\ \A q \in Procs \ {p} : pc'[q] = pc[q] /\ fd'[q] = fd[q] /\ tfd'[q] = tfd[q]
    BY <1>a, <2>1, SMTT(60) DEF HandlesTypeOK, StoreAt
  <2>. QED BY <2>1, <2>2, StoreFrameKeeps, Zenon
<1>4. ASSUME NEW p \in Procs,
             \/ Load(p) \/ Erase(p) \/ PruneFsync(p)
             \/ \E k \in Keys, v \in ValsOrNone : Set(p, k, v)
             \/ \E k \in Keys : SetFails(p, k) \/ AppendRecord(p, k)
                                \/ PruneRecord(p, k) \/ PruneRecordFails(p, k)
             \/ \E close \in BOOLEAN : SyncAppend(p, close) \/ SyncPrune(p, close)
      PROVE  StoreInv'
  <2>1. /\ UNCHANGED <<store, tmp, fd, tfd>>
        /\ \/ pc' = pc
           \/ /\ pc[p] \in {"opened", "ready"}
              /\ \E v \in {"ready", "append", "prune"} : pc' = [pc EXCEPT ![p] = v]
           \/ pc[p] = "copy" /\ pc' = [pc EXCEPT ![p] = "rename"]
    BY <1>4, Zenon DEF Load, Erase, PruneFsync, Set, SetFails, AppendRecord,
                PruneRecord, PruneRecordFails, SyncAppend, SyncPrune, files
  <2>2. StoreAt(p)
    BY SMTT(60) DEF StoreInv
  <2>3. /\ StoreAt(p)'
        /\ \A q \in Procs \ {p} : pc'[q] = pc[q] /\ fd'[q] = fd[q] /\ tfd'[q] = tfd[q]
    BY <1>a, <2>1, <2>2, SMTT(60) DEF HandlesTypeOK, StoreAt
  <2>. QED BY <2>1, <2>3, StoreFrameKeeps, SMTT(60)
<1>5. ASSUME NEW p \in Procs,
             AppendFails(p) \/ AppendFsync(p) \/ AppendFsyncFails(p) \/ PruneDirFsync(p)
      PROVE  StoreInv'
  <2>1. /\ UNCHANGED <<store, tmp>> /\ tfd' = [tfd EXCEPT ![p] = NoInode]
        /\ \/ pc' = [pc EXCEPT ![p] = "closed"]
           \/ /\ pc' = [pc EXCEPT ![p] = "ready"]
              /\ \/ pc[p] = "append" /\ fd' = [fd EXCEPT ![p] = fd[p]]
                 \/ pc[p] = "dirsync" /\ fd' = [fd EXCEPT ![p] = tfd[p]]
        /\ \E i : fd' = [fd EXCEPT ![p] = i]
    BY <1>5, SMTT(60)
       DEF AppendFails, AppendFsync, AppendFsyncFails, PruneDirFsync, Finish, files
  <2>2. StoreAt(p)
    BY DEF StoreInv
  <2>3. /\ StoreAt(p)'
        /\ \A q \in Procs \ {p} : pc'[q] = pc[q] /\ fd'[q] = fd[q] /\ tfd'[q] = tfd[q]
    BY <1>a, <2>1, <2>2, SMTT(60) DEF HandlesTypeOK, StoreAt
  <2>. QED BY <2>1, <2>3, StoreFrameKeeps, SMTT(60)
<1>6. ASSUME NEW p \in Procs, PruneOpen(p) \/ PruneOpenFails(p) PROVE StoreInv'
  <2>1. pc[p] = "prune" /\ mode[p] = "W" /\ fd[p] = store
    BY <1>6 DEF PruneOpen, PruneOpenFails, HandleOK, StoreInv, StoreAt
  <2>2. \A q \in Procs \ {p} : ~Open(q)
    BY <2>1, WriterAlone, SMTT(60)
  <2>3. /\ store' = store
        /\ \/ /\ pc' = [pc EXCEPT ![p] = "copy"] /\ fd' = fd
              /\ tfd' = [tfd EXCEPT ![p] = tmp']
           \/ /\ pc' = [pc EXCEPT ![p] = "closed"] /\ fd' = [fd EXCEPT ![p] = NoInode]
              /\ tfd' = [tfd EXCEPT ![p] = NoInode]
           \/ /\ pc' = [pc EXCEPT ![p] = "ready"] /\ fd' = [fd EXCEPT ![p] = fd[p]]
              /\ tfd' = [tfd EXCEPT ![p] = NoInode]
    BY <1>6 DEF PruneOpen, PruneOpenFails, Finish
  <2>. QED BY <1>a, <2>1, <2>2, <2>3, SMTT(60) DEF HandlesTypeOK, StoreInv, StoreAt
<1>7. ASSUME NEW p \in Procs, PruneRename(p) PROVE StoreInv'
  <2>1. pc[p] = "rename" /\ mode[p] = "W" /\ tfd[p] = tmp
    BY <1>7 DEF PruneRename, HandleOK, StoreInv, StoreAt
  <2>2. \A q \in Procs \ {p} : ~Open(q)
    BY <2>1, WriterAlone
  <2>3. store' = tmp /\ pc' = [pc EXCEPT ![p] = "dirsync"] /\ UNCHANGED <<fd, tfd>>
    BY <1>7, SMTT(60) DEF PruneRename
  <2>. QED BY <1>a, <2>1, <2>2, <2>3, SMTT(60) DEF HandlesTypeOK, StoreInv, StoreAt
<1>8. ASSUME NEW p \in Procs,
             \/ PruneFsyncFails(p) \/ PruneRenameFails(p) \/ PruneDirFsyncFails(p)
      PROVE  FALSE
  <2>1. "tmp_fsync" \notin Faults /\ "rename" \notin Faults /\ "dir_fsync" \notin Faults
    BY DEF HandledFaults
  <2>2. pc[p] = "rename" => tmp # NoInode
    BY SMTT(60) DEF HandleOK, StoreInv, StoreAt
  <2>. QED BY <1>8, <2>1, <2>2
              DEF PruneFsyncFails, PruneRenameFails, PruneDirFsyncFails, Fault
<1>9. ASSUME PowerLoss PROVE StoreInv'
  BY <1>9, Zenon DEF PowerLoss, StoreInv, StoreAt
<1>10. ASSUME Wipe PROVE FALSE
  BY <1>10, SMTT(60) DEF Wipe, Fault, HandledFaults
<1>11. CASE UNCHANGED vars
  BY <1>11 DEF vars, StoreInv, StoreAt
<1>. QED
  BY <1>1, <1>2, <1>3, <1>4, <1>5, <1>6, <1>7, <1>8, <1>9, <1>10, <1>11, SMTT(60)
     DEF Next, Step

(* With the failures psfs.c recovers from, a handle that psfs_open has     *)
(* returned is on the file that has the store's name.                      *)
THEOREM RetryCorrect ==
    ASSUME Faults \subseteq HandledFaults
    PROVE  Spec => []OneStore
<1> DEFINE Inv == TypeOK /\ HandleOK /\ LockInv /\ StoreInv
<1>1. Init => Inv
  BY InitType DEF Init, LockInv, Holds, StoreInv, StoreAt, Open, Loaded
<1>2. Inv /\ [Next]_vars => Inv'
  BY TypeStep, LockStep, StoreStep
<1>3. Inv => OneStore
  BY DEF StoreInv, StoreAt, OneStore
<1>. QED BY <1>1, <1>2, <1>3, PTL DEF Spec
=============================================================================
