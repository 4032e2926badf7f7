------------------------------- MODULE MCPsfs -------------------------------
(* Small instances of Psfs for TLC.                                        *)
EXTENDS Psfs, TLC

(* Processes are interchangeable, and so are keys.                         *)
Symmetry == Permutations(Procs) \cup Permutations(Keys)

(* What tells one state from another.  The number of an inode does not     *)
(* matter, only what refers to it; nor does a file that nobody will read or  *)
(* the mode of a closed handle, which are set before they are used.        *)
View ==
    LET role(i) == <<i = store, i = tmp, i \in storeDur,
                     {p \in Procs : fd[p] = i}, {p \in Procs : tfd[p] = i},
                     {<<p, m>> \in Procs \X {"R", "W"} : <<i, m>> \in leaked[p]}>>
        read(i) == \/ i \in storeDur \cup {store}
                   \/ \E p \in Procs : (Open(p) /\ fd[p] = i) \/ tfd[p] = i
        file(i) == IF read(i) THEN <<role(i), data[i], safe[i], older[i]>>
                              ELSE <<role(i)>>
    IN  <<{file(i) : i \in {j \in Inodes : ~FreeInode(j)}}, NoInode \in storeDur,
          [p \in Procs |-> IF pc[p] = "closed" THEN "R" ELSE mode[p]],
          pc, root, todo, closing, mishaps, legal>>
=============================================================================
