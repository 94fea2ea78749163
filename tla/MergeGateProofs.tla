-------------------------- MODULE MergeGateProofs --------------------------
(***************************************************************************)
(* Proofs about MergeGate and its LocalGate for every repository, every     *)
(* number of commits and gates and every order in which refs move.          *)
(*                                                                          *)
(* The lock: a gate that runs holds the flock of the very file the name     *)
(* still leads to (GateInv).                                                *)
(*                                                                          *)
(* The history: what a verification concludes from the commits between two  *)
(* heads follows edge by edge along the history.  Instead of an induction   *)
(* over paths, the conclusion itself is an invariant of the commit graph    *)
(* (AuditedPaths) that each new commit extends by one edge.                 *)
(*                                                                          *)
(* The verification: RunInv says what each of its steps has established,    *)
(* and which of it survives when HEAD or the base ref moves.                *)
(***************************************************************************)
EXTENDS MergeGate, FiniteSetTheorems, TLAPS

-----------------------------------------------------------------------------
(* The Local Green lock                                                     *)

(* A gate with the lock holds it on the inode it opened; a gate that runs   *)
(* opened the inode the name leads to.                                      *)
GateInv ==
    /\ inodes \in 0 .. MaxInodes
    /\ lockFile \in 0 .. inodes
    /\ lockDir = 0 => lockFile = 0
    /\ gpc \in [Gates -> GateSteps]
    /\ opened \in [Gates -> 0 .. MaxInodes]
    /\ flock \in [Inodes -> Gates \cup {NoGate}]
    /\ DOMAIN seenDir = Gates
    /\ \A g \in Gates :
        /\ gpc[g] \in {"wait", "recheck", "run"} => opened[g] # 0
        /\ gpc[g] \in {"recheck", "run"} => flock[opened[g]] = g
        /\ gpc[g] = "run" => opened[g] = lockFile

(* Every step of a gate and of the cleaner of /tmp preserves GateInv.       *)
LEMMA GateInvStep ==
    ASSUME GateInv, (\E g \in Gates : GateStep(g)) \/ CleanTmp \/ UNCHANGED gateVars
    PROVE  GateInv'
<1> USE GateAssumption DEF GateInv, Inodes, GateSteps
<1>1. ASSUME NEW g \in Gates, EnterDirectory(g)
      PROVE  GateInv'
  BY <1>1 DEF EnterDirectory
<1>2. ASSUME NEW g \in Gates, OpenLock(g)
      PROVE  GateInv'
  BY <1>2 DEF OpenLock
<1>3. ASSUME NEW g \in Gates, AcquireLock(g)
      PROVE  GateInv'
  BY <1>3 DEF AcquireLock
<1>4. ASSUME NEW g \in Gates, RecheckLock(g)
      PROVE  GateInv'
  BY <1>4 DEF RecheckLock, StillTheLock
<1>5. ASSUME NEW g \in Gates, GateGreen(g)
      PROVE  GateInv'
  BY <1>5 DEF GateGreen, Released
<1>6. ASSUME NEW g \in Gates, GateRaises(g)
      PROVE  GateInv'
  BY <1>6 DEF GateRaises, Released
<1>7. CASE CleanTmp
  BY <1>7 DEF CleanTmp
<1>8. CASE UNCHANGED gateVars
  BY <1>8 DEF gateVars
<1> QED
  BY <1>1, <1>2, <1>3, <1>4, <1>5, <1>6, <1>7, <1>8 DEF GateStep

(* One user has at most one active Local Green critical section, whatever   *)
(* the cleaner of /tmp removes while gates wait (_local_gate_lock compares  *)
(* names and inodes again once it holds the lock).                          *)
THEOREM LocalGatesSerialised == Spec => []OneGateAtATime
<1>1. Init => GateInv
  BY GateAssumption DEF Init, GateInit, GateInv, Inodes, GateSteps
<1>2. GateInv /\ [Next]_vars => GateInv'
  <2>1. [Next]_vars => \/ (\E g \in Gates : GateStep(g)) \/ CleanTmp
                       \/ UNCHANGED gateVars
    BY DEF Next, vars, CommitEdit, CommitEvidence, CommitGate, CommitReview, CommitOnHead, Pull,
       BaseAdvances, BaseMerges, Tick, SignReview, StartVerify, ReadGate, CheckDigest, CheckDeps, CheckRollback,
       ScanRaw, FindProtected, CheckReview, LocalGateStep, MergeReady, VerifyRefuses, LocalGateFails
  <2> QED
    BY <2>1, GateInvStep
<1>3. GateInv => OneGateAtATime
  <2> SUFFICES ASSUME GateInv
               PROVE  OneGateAtATime
    OBVIOUS
  <2> DEFINE R == {g \in Gates : gpc[g] = "run"}
  <2>1. \A g, h \in R : g = h
    BY DEF GateInv
  <2>2. R = {} \/ \E g : R = {g}
    BY <2>1
  <2>3. Cardinality(R) \in {0, 1}
    BY <2>2, FS_EmptySet, FS_Singleton
  <2> QED
    BY <2>3 DEF OneGateAtATime
<1> QED
  BY <1>1, <1>2, <1>3, PTL DEF Spec

-----------------------------------------------------------------------------
(* The commit graph                                                         *)

(* Commits another clone made, or the base: never HEAD of this checkout.    *)
Side == {"pull", "base"}

IsTree(t) == t = [p \in Paths |-> t[p]] /\ t.raw \in {0, 1}

(* log is a sequence of something.                                          *)
IsLog(log) == log \in Seq({log[i] : i \in 1 .. Len(log)})

(* m is the history l with further commits: commits are never rewritten.    *)
Grown(l, m) == Len(l) <= Len(m) /\ \A c \in 1 .. Len(l) : m[c] = l[c]

(* Parents are older; anc is the reflexive, transitive closure of parents;  *)
(* a pulled or base commit changes something.                               *)
GraphOK(log) ==
    \A c \in 1 .. Len(log) :
        /\ log[c].parents \subseteq 1 .. (c - 1)
        /\ log[c].anc \subseteq 1 .. c
        /\ c \in log[c].anc
        /\ \A d \in log[c].anc :
            /\ log[d].anc \subseteq log[c].anc
            /\ d = c \/ \E p \in log[c].parents : d \in log[p].anc
        /\ \A p \in log[c].parents : p \in log[c].anc
        /\ IsTree(log[c].tree)
        /\ log[c].kind \in Side =>
            log[c].parents # {} /\ \A p \in log[c].parents : log[p].tree # log[c].tree

(* Every edge between s and e stays within the allowed paths.               *)
Audited(log, s, e, allowed) ==
    /\ s \in log[e].anc
    /\ \A c \in log[e].anc \ log[s].anc :
        \A p \in log[c].parents : Differ(log[p].tree, log[c].tree) \subseteq allowed

(* Then so does the whole difference of s and e.                            *)
AuditedPaths(log) ==
    \A s, e \in 1 .. Len(log) : \A allowed \in SUBSET Paths :
        Audited(log, s, e, allowed) => Differ(log[s].tree, log[e].tree) \subseteq allowed

(* The commits that were HEAD, up to h, are ancestors of one another.       *)
HeadLine(log, h) ==
    /\ h \in 1 .. Len(log)
    /\ log[h].kind \notin Side
    /\ \A d \in 1 .. Len(log) : log[d].kind \notin Side => d <= h
    /\ \A c, d \in 1 .. Len(log) :
        log[c].kind \notin Side /\ log[d].kind \notin Side /\ d <= c => d \in log[c].anc

(* What is reachable from some parents.                                     *)
Reach(log, ps) == UNION {log[p].anc : p \in ps}

(* What one git commit does to the history.                                 *)
LEMMA CommitFacts ==
    ASSUME NEW log, IsLog(log), NEW ps, NEW t, NEW g, NEW rv, NEW k
    PROVE  /\ IsLog(Commit(log, ps, t, g, rv, k))
           /\ Len(log) \in Nat
           /\ Len(Commit(log, ps, t, g, rv, k)) = Len(log) + 1
           /\ Grown(log, Commit(log, ps, t, g, rv, k))
           /\ LET c == Commit(log, ps, t, g, rv, k)[Len(log) + 1]
              IN /\ c.parents = ps /\ c.tree = t /\ c.gate = g /\ c.review = rv /\ c.kind = k
                 /\ c.anc = {Len(log) + 1} \cup Reach(log, ps)
<1> DEFINE S == {log[i] : i \in 1 .. Len(log)}
           c == [parents |-> ps, tree |-> t, gate |-> g, review |-> rv, kind |-> k,
                 anc |-> {Len(log) + 1} \cup Reach(log, ps)]
           new == Append(log, c)
           n == Len(log) + 1
<1>1. log \in Seq(S)
  BY DEF IsLog
<1> HIDE DEF c, S
<1>2. /\ new \in Seq(S \cup {c})
      /\ Len(log) \in Nat
      /\ Len(new) = n
      /\ \A i \in 1 .. Len(log) : new[i] = log[i]
      /\ new[n] = c
  BY <1>1
<1>3. IsLog(new)
  <2>1. \A i \in 1 .. Len(new) : new[i] \in {new[j] : j \in 1 .. Len(new)}
    OBVIOUS
  <2> QED
    BY <1>2, <2>1 DEF IsLog
<1>4. Commit(log, ps, t, g, rv, k) = new
  BY DEF Commit, Reach, c
<1>5. /\ c.parents = ps /\ c.tree = t /\ c.gate = g /\ c.review = rv /\ c.kind = k
      /\ c.anc = {Len(log) + 1} \cup Reach(log, ps)
  BY DEF c
<1> HIDE DEF new
<1> QED
  BY <1>2, <1>3, <1>4, <1>5 DEF Grown

(* A commit on existing parents keeps the graph in order.                   *)
LEMMA CommitKeepsGraph ==
    ASSUME NEW log, IsLog(log), GraphOK(log), AuditedPaths(log),
           NEW ps \in SUBSET (1 .. Len(log)), ps # {},
           NEW t, IsTree(t), NEW g, NEW rv, NEW k,
           k \in Side => \A p \in ps : log[p].tree # t
    PROVE  GraphOK(Commit(log, ps, t, g, rv, k)) /\ AuditedPaths(Commit(log, ps, t, g, rv, k))
<1> DEFINE new == Commit(log, ps, t, g, rv, k)
           n == Len(log) + 1
<1>1. /\ Len(log) \in Nat
      /\ Len(new) = n
      /\ \A c \in 1 .. Len(log) : new[c] = log[c]
      /\ new[n].parents = ps /\ new[n].tree = t /\ new[n].kind = k
      /\ new[n].anc = {n} \cup UNION {log[p].anc : p \in ps}
  <2>1. /\ Len(log) \in Nat
        /\ Len(new) = n
        /\ Grown(log, new)
        /\ new[n].parents = ps /\ new[n].tree = t /\ new[n].kind = k
        /\ new[n].anc = {n} \cup Reach(log, ps)
    BY CommitFacts
  <2> HIDE DEF new
  <2> QED
    BY <2>1 DEF Grown, Reach
<1> HIDE DEF new
<1>2. \A c \in 1 .. Len(log) : log[c].parents \subseteq 1 .. Len(log) /\ log[c].anc \subseteq 1 .. Len(log)
  BY <1>1 DEF GraphOK
<1>3. GraphOK(new)
  <2> SUFFICES ASSUME NEW c \in 1 .. n
               PROVE  /\ new[c].parents \subseteq 1 .. (c - 1)
                      /\ new[c].anc \subseteq 1 .. c
                      /\ c \in new[c].anc
                      /\ \A d \in new[c].anc :
                          /\ new[d].anc \subseteq new[c].anc
                          /\ d = c \/ \E p \in new[c].parents : d \in new[p].anc
                      /\ \A p \in new[c].parents : p \in new[c].anc
                      /\ IsTree(new[c].tree)
                      /\ new[c].kind \in Side =>
                           new[c].parents # {} /\ \A p \in new[c].parents : new[p].tree # new[c].tree
    BY <1>1 DEF GraphOK
  <2>1. CASE c \in 1 .. Len(log)
    <3>1. new[c] = log[c] /\ (\A d \in log[c].anc : new[d] = log[d])
                          /\ (\A p \in log[c].parents : new[p] = log[p])
      BY <1>1, <1>2, <2>1
    <3>2. /\ log[c].parents \subseteq 1 .. (c - 1)
          /\ log[c].anc \subseteq 1 .. c
          /\ c \in log[c].anc
          /\ \A d \in log[c].anc :
              /\ log[d].anc \subseteq log[c].anc
              /\ d = c \/ \E p \in log[c].parents : d \in log[p].anc
          /\ \A p \in log[c].parents : p \in log[c].anc
          /\ IsTree(log[c].tree)
          /\ log[c].kind \in Side =>
               log[c].parents # {} /\ \A p \in log[c].parents : log[p].tree # log[c].tree
      BY <2>1 DEF GraphOK
    <3> QED
      BY <3>1, <3>2
  <2>2. CASE c = n
    <3>1. new[c].parents \subseteq 1 .. (c - 1) /\ new[c].anc \subseteq 1 .. c /\ c \in new[c].anc
      <4>1. c - 1 = Len(log) /\ 1 .. c = (1 .. Len(log)) \cup {n}
        BY <1>1, <2>2
      <4>2. new[c].parents = ps /\ new[c].anc = {n} \cup UNION {log[p].anc : p \in ps}
        BY <1>1, <2>2
      <4>3. \A p \in ps : log[p].anc \subseteq 1 .. Len(log)
        BY <1>2
      <4> QED
        BY <2>2, <4>1, <4>2, <4>3
    <3>2. ASSUME NEW d \in new[c].anc
          PROVE  /\ new[d].anc \subseteq new[c].anc
                 /\ d = c \/ \E p \in new[c].parents : d \in new[p].anc
      <4>1. CASE d = n
        BY <2>2, <4>1
      <4>2. CASE \E p \in ps : d \in log[p].anc
        <5>1. PICK p \in ps : d \in log[p].anc
          BY <4>2
        <5>2. d \in 1 .. Len(log) /\ log[d].anc \subseteq log[p].anc
          BY <1>2, <5>1 DEF GraphOK
        <5> QED
          BY <1>1, <2>2, <5>1, <5>2
      <4> QED
        BY <1>1, <2>2, <3>2, <4>1, <4>2
    <3>3. \A p \in new[c].parents : p \in new[c].anc
      <4>1. \A p \in ps : p \in log[p].anc
        BY DEF GraphOK
      <4> QED
        BY <1>1, <2>2, <4>1
    <3>4. /\ IsTree(new[c].tree)
          /\ new[c].kind \in Side =>
               new[c].parents # {} /\ \A p \in new[c].parents : new[p].tree # new[c].tree
      BY <1>1, <2>2
    <3> QED
      BY <3>1, <3>2, <3>3, <3>4
  <2> QED
    BY <1>1, <2>1, <2>2
<1>4. AuditedPaths(new)
  <2> SUFFICES ASSUME NEW s \in 1 .. n, NEW e \in 1 .. n, NEW allowed \in SUBSET Paths,
                      Audited(new, s, e, allowed)
               PROVE  Differ(new[s].tree, new[e].tree) \subseteq allowed
    BY <1>1 DEF AuditedPaths
  <2>1. s \in new[e].anc
    BY DEF Audited
  <2>2. ASSUME NEW f \in 1 .. Len(log), s \in log[f].anc,
               log[f].anc \subseteq new[e].anc
        PROVE  Differ(new[s].tree, new[f].tree) \subseteq allowed
    <3>1. s \in 1 .. Len(log)
      BY <1>2, <2>2
    <3>2. ASSUME NEW c \in log[f].anc \ log[s].anc, NEW p \in log[c].parents
          PROVE  Differ(log[p].tree, log[c].tree) \subseteq allowed
      <4>1. c \in 1 .. Len(log) /\ p \in 1 .. Len(log)
        BY <1>2, <3>2
      <4>2. c \in new[e].anc \ new[s].anc /\ p \in new[c].parents
        BY <1>1, <2>2, <3>1, <3>2, <4>1
      <4>3. Differ(new[p].tree, new[c].tree) \subseteq allowed
        BY <4>2 DEF Audited
      <4> QED
        BY <1>1, <4>1, <4>3
    <3>3. Audited(log, s, f, allowed)
      BY <2>2, <3>2 DEF Audited
    <3> QED
      BY <1>1, <2>2, <3>1, <3>3 DEF AuditedPaths
  <2>3. CASE e \in 1 .. Len(log)
    BY <1>1, <2>1, <2>2, <2>3
  <2>4. CASE e = n /\ s = n
    BY <2>4 DEF Differ
  <2>5. CASE e = n /\ s # n
    <3>1. PICK p \in ps : s \in log[p].anc
      BY <1>1, <2>1, <2>5
    <3>2. log[p].anc \subseteq new[e].anc
      BY <1>1, <2>5
    <3>3. Differ(new[s].tree, new[p].tree) \subseteq allowed
      BY <2>2, <3>1, <3>2
    <3>4. e \in new[e].anc \ new[s].anc
      <4>1. s \in 1 .. Len(log)
        BY <1>2, <3>1
      <4> QED
        BY <1>1, <1>2, <2>5, <4>1
    <3>5. Differ(new[p].tree, new[e].tree) \subseteq allowed
      BY <1>1, <2>5, <3>4 DEF Audited
    <3> QED
      BY <3>3, <3>5 DEF Differ
  <2> QED
    BY <1>1, <2>3, <2>4, <2>5
<1> QED
  BY <1>3, <1>4 DEF new

(* A commit on HEAD continues the line of heads, whatever else it merges.   *)
LEMMA HeadLineAdvances ==
    ASSUME NEW log, IsLog(log), GraphOK(log), NEW h, HeadLine(log, h),
           NEW ps \in SUBSET (1 .. Len(log)), h \in ps,
           NEW t, NEW g, NEW rv, NEW k, k \notin Side
    PROVE  HeadLine(Commit(log, ps, t, g, rv, k), Len(log) + 1)
<1> DEFINE new == Commit(log, ps, t, g, rv, k)
           n == Len(log) + 1
<1>1. /\ Len(log) \in Nat
      /\ Len(new) = n
      /\ Grown(log, new)
      /\ new[n].kind = k
      /\ new[n].anc = {n} \cup Reach(log, ps)
  BY CommitFacts
<1> HIDE DEF new
<1>2. /\ \A c \in 1 .. Len(log) : new[c] = log[c]
      /\ new[n].kind = k
      /\ n \in new[n].anc /\ log[h].anc \subseteq new[n].anc
  BY <1>1 DEF Grown, Reach
<1>3. ASSUME NEW c \in 1 .. n, NEW d \in 1 .. n, new[c].kind \notin Side, new[d].kind \notin Side, d <= c
      PROVE  d \in new[c].anc
  <2>1. CASE c \in 1 .. Len(log)
    <3>1. d \in 1 .. Len(log)
      BY <1>1, <1>3, <2>1
    <3> QED
      BY <1>2, <1>3, <2>1, <3>1 DEF HeadLine
  <2>2. CASE c = n /\ d \in 1 .. Len(log)
    <3>1. d <= h /\ log[d].kind \notin Side
      BY <1>2, <1>3, <2>2 DEF HeadLine
    <3>2. d \in log[h].anc
      BY <2>2, <3>1 DEF HeadLine
    <3> QED
      BY <1>2, <2>2, <3>2
  <2>3. CASE c = n /\ d = n
    BY <1>2, <2>3
  <2> QED
    BY <1>1, <1>3, <2>1, <2>2, <2>3
<1>4. n \in 1 .. n /\ \A d \in 1 .. n : d <= n
  BY <1>1
<1> QED
  BY <1>1, <1>2, <1>3, <1>4 DEF HeadLine, new

(* A commit beside HEAD leaves the line of heads as it is.                  *)
LEMMA HeadLineStays ==
    ASSUME NEW log, IsLog(log), GraphOK(log), NEW h, HeadLine(log, h),
           NEW ps, NEW t, NEW g, NEW rv, NEW k, k \in Side
    PROVE  HeadLine(Commit(log, ps, t, g, rv, k), h)
<1> DEFINE new == Commit(log, ps, t, g, rv, k)
           n == Len(log) + 1
<1>1. /\ Len(log) \in Nat
      /\ Len(new) = n
      /\ Grown(log, new)
      /\ new[n].kind = k
  BY CommitFacts
<1> HIDE DEF new
<1>2. /\ \A c \in 1 .. Len(log) : new[c] = log[c]
      /\ \A c \in 1 .. n : new[c].kind \notin Side => c \in 1 .. Len(log)
      /\ 1 .. Len(log) \subseteq 1 .. n
  BY <1>1 DEF Grown
<1> QED
  BY <1>1, <1>2 DEF HeadLine, new

(* An edit keeps a tree a tree.                                             *)
LEMMA WithIsTree ==
    ASSUME NEW t, IsTree(t), NEW e, e[1] \in Paths, e[1] = "raw" => e[2] \in {0, 1}
    PROVE  IsTree(With(t, e))
<1>1. With(t, e) = [p \in Paths |-> IF p = e[1] THEN e[2] ELSE t[p]]
  BY DEF IsTree, With
<1>2. "raw" \in Paths
  BY DEF Paths, Evidence
<1> QED
  BY <1>1, <1>2 DEF IsTree

-----------------------------------------------------------------------------
(* The repository                                                           *)

(* A gate file names a former HEAD as the reviewed head; a receipt in the   *)
(* tree is one the Reviewer signed.                                         *)
Attached(log, receipts) ==
    \A c \in 1 .. Len(log) :
        /\ log[c].review \in receipts \cup {NoReview}
        /\ log[c].gate # NoMergeGate =>
            log[c].gate.head \in 1 .. Len(log) /\ log[log[c].gate.head].kind \notin Side

RepoInv ==
    /\ IsLog(commits) /\ GraphOK(commits) /\ AuditedPaths(commits)
    /\ HeadLine(commits, head)
    /\ base \in Commits
    /\ Attached(commits, signed)
    /\ now \in Nat
    /\ \A rv \in signed : rv.expires \in Nat

(* A commit adds nothing but its own gate and receipt.                      *)
LEMMA CommitAttached ==
    ASSUME NEW log, IsLog(log), NEW receipts, Attached(log, receipts),
           NEW ps, NEW t, NEW g, NEW rv \in receipts \cup {NoReview}, NEW k,
           g # NoMergeGate => g.head \in 1 .. Len(log) /\ log[g.head].kind \notin Side
    PROVE  Attached(Commit(log, ps, t, g, rv, k), receipts)
<1> DEFINE new == Commit(log, ps, t, g, rv, k)
           n == Len(log) + 1
<1>1. /\ Len(log) \in Nat
      /\ Len(new) = n
      /\ Grown(log, new)
      /\ new[n].gate = g /\ new[n].review = rv
  BY CommitFacts
<1> HIDE DEF new
<1>2. /\ \A c \in 1 .. Len(log) : new[c] = log[c]
      /\ 1 .. n = (1 .. Len(log)) \cup {n}
  BY <1>1 DEF Grown
<1> QED
  BY <1>1, <1>2 DEF Attached, new

(* Every step keeps the repository in order and rewrites no commit.         *)
LEMMA RepoInvStep ==
    ASSUME RepoInv, [Next]_vars
    PROVE  RepoInv' /\ Grown(commits, commits')
<1> USE DEF repoVars
<1>0. /\ head \in Commits /\ base \in Commits /\ Len(commits) \in Nat
      /\ \A c \in Commits : IsTree(Tree(c))
      /\ commits[head].kind \notin Side
  BY DEF RepoInv, HeadLine, GraphOK, Commits, Tree, IsLog
<1>g. \A c \in Commits : commits[c].review \in signed \cup {NoReview} /\
          (commits[c].gate # NoMergeGate =>
             commits[c].gate.head \in 1 .. Len(commits) /\ commits[commits[c].gate.head].kind \notin Side)
  BY DEF RepoInv, Attached, Commits
<1>h. /\ Review \in signed \cup {NoReview}
      /\ Gate # NoMergeGate => Gate.head \in 1 .. Len(commits) /\ commits[Gate.head].kind \notin Side
      /\ \A k \in {"edit", "evidence", "gate", "review", "merge"} : k \notin Side
  BY <1>0, <1>g DEF Gate, Review, Side
<1>1. ASSUME NEW t, IsTree(t), NEW g, NEW rv \in signed \cup {NoReview}, NEW k, k \notin Side,
             g # NoMergeGate => g.head \in 1 .. Len(commits) /\ commits[g.head].kind \notin Side,
             CommitOnHead(t, g, rv, k)
      PROVE  RepoInv' /\ Grown(commits, commits')
  <2>1. /\ commits' = Commit(commits, {head}, t, g, rv, k) /\ head' = Len(commits) + 1
        /\ UNCHANGED <<base, signed, now>>
    BY <1>1 DEF CommitOnHead
  <2>2. IsLog(commits') /\ Grown(commits, commits') /\ Len(commits') = Len(commits) + 1
    BY <2>1, CommitFacts DEF RepoInv
  <2>3. GraphOK(commits') /\ AuditedPaths(commits')
    BY <1>0, <1>1, <2>1, CommitKeepsGraph DEF RepoInv, Commits
  <2>4. HeadLine(commits', head')
    BY <1>0, <1>1, <2>1, HeadLineAdvances DEF RepoInv, Commits
  <2>5. Attached(commits', signed')
    BY <1>1, <2>1, CommitAttached DEF RepoInv
  <2> QED
    BY <1>0, <2>1, <2>2, <2>3, <2>4, <2>5 DEF RepoInv, Commits
<1>2. CASE CommitEdit
  <2>1. PICK e \in Edits : CommitOnHead(With(Tree(head), e), Gate, Review, "edit")
    BY <1>2 DEF CommitEdit
  <2>2. IsTree(With(Tree(head), e))
    BY <1>0, MergeAssumption, WithIsTree
  <2> QED
    BY <1>h, <1>1, <2>1, <2>2
<1>3. CASE CommitEvidence
  <2>1. PICK r \in Commits : CommitOnHead(With(Tree(head), <<"ev", r>>), Gate, Review, "evidence")
    BY <1>3 DEF CommitEvidence
  <2>2. IsTree(With(Tree(head), <<"ev", r>>))
    BY <1>0, WithIsTree DEF Paths, Evidence
  <2> QED
    BY <1>h, <1>1, <2>1, <2>2
<1>4. CASE CommitGate
  <2>1. PICK d \in Declared :
          CommitOnHead(Tree(head),
            [base |-> base, head |-> head, digest |-> change_digest(base, head),
             risk |-> d.risk, builder |-> d.builder, deps |-> d.deps, review |-> d.review],
            Review, "gate")
    BY <1>4 DEF CommitGate
  <2> DEFINE g == [base |-> base, head |-> head, digest |-> change_digest(base, head),
             risk |-> d.risk, builder |-> d.builder, deps |-> d.deps, review |-> d.review]
  <2>2. g.head = head /\ Review \in signed \cup {NoReview} /\ "gate" \notin Side
    BY <1>h
  <2>3. CommitOnHead(Tree(head), g, Review, "gate")
    BY <2>1
  <2> HIDE DEF g
  <2> QED
    BY <1>0, <1>1, <2>2, <2>3 DEF Commits
<1>5. CASE CommitReview
  <2>1. PICK rv \in signed : CommitOnHead(Tree(head), Gate, rv, "review")
    BY <1>5 DEF CommitReview
  <2> QED
    BY <1>0, <1>h, <1>1, <2>1
<1>6. CASE Pull
  <2>1. PICK p \in Commits, e \in Edits, ours \in BOOLEAN :
          /\ Tree(p)[e[1]] # e[2]
          /\ commits' = Commit(Commit(commits, {p}, With(Tree(p), e), commits[p].gate, commits[p].review, "pull"),
                               {head, Len(commits) + 1},
                               IF ours THEN Tree(head) ELSE With(Tree(p), e), Gate, Review, "merge")
          /\ head' = Len(commits) + 1 + 1
          /\ UNCHANGED <<base, signed, now>>
    BY <1>6 DEF Pull
  <2> DEFINE theirs == With(Tree(p), e)
             mid == Commit(commits, {p}, theirs, commits[p].gate, commits[p].review, "pull")
             kept == IF ours THEN Tree(head) ELSE theirs
  <2>2. IsTree(theirs) /\ IsTree(kept) /\ commits[p].tree # theirs
    <3>1. IsTree(theirs)
      BY <1>0, MergeAssumption, WithIsTree
    <3>2. theirs[e[1]] = e[2]
      BY <1>0, MergeAssumption DEF With, IsTree
    <3> QED
      BY <1>0, <2>1, <3>1, <3>2 DEF Tree
  <2>3. IsLog(mid) /\ Grown(commits, mid) /\ Len(mid) = Len(commits) + 1
    BY CommitFacts DEF RepoInv
  <2>4. GraphOK(mid) /\ AuditedPaths(mid)
    BY <2>1, <2>2, CommitKeepsGraph DEF RepoInv, Commits
  <2>5. HeadLine(mid, head)
    BY HeadLineStays DEF RepoInv, Side
  <2>6. Attached(mid, signed)
    BY <1>g, <2>1, CommitAttached DEF RepoInv
  <2> HIDE DEF mid, theirs, kept
  <2>7. commits' = Commit(mid, {head, Len(commits) + 1}, kept, Gate, Review, "merge")
    BY <2>1 DEF mid, theirs, kept
  <2>8. {head, Len(commits) + 1} \in SUBSET (1 .. Len(mid)) /\ "merge" \notin Side
    BY <1>0, <2>3 DEF Commits, Side
  <2>9. IsLog(commits') /\ Grown(mid, commits') /\ Len(commits') = Len(mid) + 1
    BY <2>3, <2>7, CommitFacts
  <2>10. GraphOK(commits') /\ AuditedPaths(commits')
    BY <2>2, <2>3, <2>4, <2>7, <2>8, CommitKeepsGraph
  <2>11. HeadLine(commits', head')
    BY <1>0, <2>1, <2>3, <2>4, <2>5, <2>7, <2>8, HeadLineAdvances, ZenonT(60)
  <2>12. Attached(commits', signed')
    <3>1. Gate # NoMergeGate => Gate.head \in 1 .. Len(mid) /\ mid[Gate.head].kind \notin Side
      BY <1>0, <1>h, <2>3 DEF Grown
    <3>2. Attached(Commit(mid, {head, Len(commits) + 1}, kept, Gate, Review, "merge"), signed)
      BY <1>h, <2>3, <2>6, <3>1, CommitAttached
    <3> QED
      BY <2>1, <2>7, <3>2
  <2>13. Grown(commits, commits') /\ base' \in 1 .. Len(commits')
    <3>1. /\ Len(commits') = Len(commits) + 1 + 1
          /\ \A c \in 1 .. Len(commits) : c \in 1 .. Len(mid) /\ c \in 1 .. Len(commits')
      BY <1>0, <2>3, <2>9
    <3>2. \A c \in 1 .. Len(commits) : commits'[c] = commits[c]
      BY <2>3, <2>9, <3>1 DEF Grown
    <3>3. base' \in 1 .. Len(commits')
      BY <1>0, <2>1, <3>1 DEF Commits
    <3>4. Len(commits) <= Len(commits')
      BY <1>0, <3>1
    <3> QED
      BY <3>2, <3>3, <3>4 DEF Grown
  <2> QED
    BY <2>1, <2>9, <2>10, <2>11, <2>12, <2>13 DEF RepoInv, Commits
<1>7. CASE BaseAdvances
  <2>1. PICK e \in Edits :
          /\ Tree(base)[e[1]] # e[2]
          /\ commits' = Commit(commits, {base}, With(Tree(base), e), commits[base].gate, commits[base].review, "base")
          /\ base' = Len(commits) + 1
          /\ UNCHANGED <<head, signed, now>>
    BY <1>7 DEF BaseAdvances
  <2>2. IsTree(With(Tree(base), e)) /\ commits[base].tree # With(Tree(base), e)
    <3>1. IsTree(With(Tree(base), e))
      BY <1>0, MergeAssumption, WithIsTree
    <3>2. With(Tree(base), e)[e[1]] = e[2]
      BY <1>0, MergeAssumption DEF With, IsTree
    <3> QED
      BY <1>0, <2>1, <3>1, <3>2 DEF Tree
  <2>3. IsLog(commits') /\ Grown(commits, commits') /\ Len(commits') = Len(commits) + 1
    BY <2>1, CommitFacts DEF RepoInv
  <2>4. GraphOK(commits') /\ AuditedPaths(commits')
    BY <1>0, <2>1, <2>2, CommitKeepsGraph DEF RepoInv, Commits
  <2>5. HeadLine(commits', head')
    BY <2>1, HeadLineStays DEF RepoInv, Side
  <2>6. Attached(commits', signed')
    BY <1>0, <1>g, <2>1, CommitAttached DEF RepoInv
  <2> QED
    BY <1>0, <2>1, <2>3, <2>4, <2>5, <2>6 DEF RepoInv, Commits
<1>8. CASE UNCHANGED repoVars
  BY <1>0, <1>8 DEF RepoInv, Grown, Commits
<1>9. CASE Tick
  <2>1. UNCHANGED <<commits, head, base, signed>> /\ now' = now + 1
    BY <1>9 DEF Tick
  <2> QED
    BY <1>0, <2>1 DEF RepoInv, Grown, Commits
<1>10. CASE SignReview
  <2>1. UNCHANGED <<commits, head, base, now>>
    BY <1>10 DEF SignReview
  <2>2. PICK x : signed' = signed \cup {x} /\ x.expires = now + Validity
    <3>1. PICK c \in Commits :
            LET g == commits[c].gate IN
            signed' = signed \cup {[builder |-> g.builder, digest |-> g.digest,
                                    meta |-> gate_metadata_digest(g), expires |-> now + Validity]}
      BY <1>10 DEF SignReview
    <3> DEFINE x == [builder |-> commits[c].gate.builder, digest |-> commits[c].gate.digest,
                     meta |-> gate_metadata_digest(commits[c].gate), expires |-> now + Validity]
    <3>2. x.expires = now + Validity
      OBVIOUS
    <3>3. signed' = signed \cup {x}
      BY <3>1
    <3> HIDE DEF x
    <3> QED
      BY <3>2, <3>3
  <2>3. Attached(commits', signed')
    BY <2>1, <2>2 DEF RepoInv, Attached
  <2> QED
    BY <1>0, <2>1, <2>2, <2>3, MergeAssumption DEF RepoInv, Grown, Commits
<1>11. CASE BaseMerges
  <2>1. PICK c \in Ancestors(head) : base' = c /\ UNCHANGED <<commits, head, signed, now>>
    BY <1>11 DEF BaseMerges
  <2>2. base' \in Commits
    BY <1>0, <2>1 DEF RepoInv, GraphOK, Commits, Ancestors
  <2> QED
    BY <1>0, <2>1, <2>2 DEF RepoInv, Grown, Commits
<1> QED
  BY <1>2, <1>3, <1>4, <1>5, <1>6, <1>7, <1>8, <1>9, <1>10, <1>11 DEF Next, vars, StartVerify, ReadGate,
     CheckDigest, CheckDeps, CheckRollback, ScanRaw, FindProtected, CheckReview, LocalGateStep,
     MergeReady, VerifyRefuses, LocalGateFails

(* The base ref only moves forward: what was merged stays merged.           *)
LEMMA BaseMovesForward ==
    ASSUME RepoInv, [Next]_vars
    PROVE  commits[base].anc \subseteq commits'[base'].anc
<1>1. Grown(commits, commits') /\ base \in Commits /\ GraphOK(commits)
  BY RepoInvStep DEF RepoInv
<1>2. commits'[base] = commits[base]
  BY <1>1 DEF Grown, Commits
<1>3. CASE BaseAdvances
  <2>1. PICK e \in Edits :
          /\ commits' = Commit(commits, {base}, With(Tree(base), e), commits[base].gate, commits[base].review, "base")
          /\ base' = Len(commits) + 1
    BY <1>3 DEF BaseAdvances
  <2>2. commits'[base'].anc = {Len(commits) + 1} \cup Reach(commits, {base})
    BY <2>1, CommitFacts DEF RepoInv
  <2> QED
    BY <2>2 DEF Reach
<1>4. CASE BaseMerges
  <2>1. PICK c \in Ancestors(head) : base \in Ancestors(c) /\ base' = c /\ commits' = commits
    BY <1>4 DEF BaseMerges
  <2>2. c \in 1 .. Len(commits)
    <3>1. head \in 1 .. Len(commits) /\ Len(commits) \in Nat
      BY DEF RepoInv, HeadLine, IsLog
    <3>2. commits[head].anc \subseteq 1 .. head
      BY <1>1, <3>1 DEF GraphOK
    <3> QED
      BY <2>1, <3>1, <3>2 DEF Ancestors
  <2> QED
    BY <1>1, <2>1, <2>2 DEF GraphOK, Ancestors
<1>5. CASE base' = base
  BY <1>2, <1>5
<1>6. [Next]_vars => BaseAdvances \/ BaseMerges \/ base' = base
  BY DEF Next, vars, repoVars, CommitEdit, CommitEvidence, CommitGate, CommitReview, CommitOnHead, Pull,
     Tick, SignReview, StartVerify, ReadGate, CheckDigest, CheckDeps, CheckRollback,
     ScanRaw, FindProtected, CheckReview, LocalGateStep, MergeReady, VerifyRefuses, LocalGateFails
<1> QED
  BY <1>3, <1>4, <1>5, <1>6

-----------------------------------------------------------------------------
(* The verification                                                         *)

Steps == {"idle", "gate", "digest", "deps", "rollback", "raw", "protected", "review", "lock",
          "ready", "red"}

GateRead       == run.pc \notin {"idle", "gate"}
DigestChecked  == run.pc \notin {"idle", "gate", "digest"}
RollbackSound  == run.pc \in {"raw", "protected", "review", "lock", "ready", "red"}
RawScanned     == run.pc \in {"protected", "review", "lock", "ready", "red"}
ProtectedKnown == run.pc \in {"review", "lock", "ready", "red"}

(* The commit the rollback record at h names lies between b and h and       *)
(* carries the product change from b to h and no evidence.                  *)
Carries(log, b, h) ==
    LET r == log[h].tree.ev IN
    /\ r \in 1 .. Len(log)
    /\ b \in log[r].anc /\ r \in log[h].anc
    /\ \E p \in log[r].parents :
        /\ \A q \in Product :
            log[p].tree[q] = log[b].tree[q] /\ log[r].tree[q] = log[h].tree[q]
        /\ Differ(log[p].tree, log[r].tree) \cap Evidence = {}

(* The readings of verify_merge as functions of the history alone.          *)
MergeBaseIn(log, a, b) ==
    LET common == log[a].anc \cap log[b].anc
    IN CHOOSE c \in common : \A d \in common : c \in log[d].anc => d = c

ChangedIn(log, b, h) == Differ(log[MergeBaseIn(log, b, h)].tree, log[h].tree)

DigestIn(log, b, h) ==
    [p \in ChangedIn(log, b, h) |-> <<log[MergeBaseIn(log, b, h)].tree[p], log[h].tree[p]>>]

TrustedIn(log, b) ==
    \/ log[b].tree.trust = "active"
    \/ log[b].tree.trust \in {"absent", "empty"} /\ External = "active"

(* They are what MergeGate computes from the repository.                    *)
LEMMA Readings ==
    ASSUME NEW b, NEW h
    PROVE  /\ MergeBase(b, h) = MergeBaseIn(commits, b, h)
           /\ changed_paths(b, h) = ChangedIn(commits, b, h)
           /\ change_digest(b, h) = DigestIn(commits, b, h)
           /\ trusted_reviewer(b) = "active" => TrustedIn(commits, b)
<1>1. MergeBase(b, h) = MergeBaseIn(commits, b, h)
  BY DEF MergeBase, MergeBaseIn, Ancestors
<1>2. changed_paths(b, h) = ChangedIn(commits, b, h)
  BY <1>1 DEF changed_paths, ChangedIn, Tree
<1>3. change_digest(b, h) = DigestIn(commits, b, h)
  BY <1>1, <1>2 DEF change_digest, DigestIn, Tree
<1>4. trusted_reviewer(b) = "active" => TrustedIn(commits, b)
  BY DEF trusted_reviewer, first_consumer_base, TrustedIn, Tree
<1> QED
  BY <1>1, <1>2, <1>3, <1>4

(* What the receipt of a protected change has been found to say.            *)
Reviewed ==
    /\ Gated.builder # Reviewer
    /\ TrustedIn(commits, run.base)
    /\ \E rv \in signed :
        /\ rv.digest = Gated.digest
        /\ rv.meta = gate_metadata_digest(Gated)
        /\ rv.expires > run.started

RunType ==
    run \in [pc : Steps, head : Nat, base : Nat, gate : {run.gate}, protected : SUBSET Paths,
             started : Nat, moved : BOOLEAN]

StartInv ==
    run.pc # "idle" =>
        /\ run.head \in Commits /\ commits[run.head].kind \notin Side
        /\ run.base \in Commits
        /\ run.started <= now
        /\ ~run.moved => run.head = head /\ run.base = base

(* What holds of base, head and gate even when the refs move on.            *)
GateReadInv ==
    GateRead =>
        /\ Gated.head \in Commits /\ commits[Gated.head].kind \notin Side
        /\ Audited(commits, Gated.head, run.head, {})

RollbackInv == RollbackSound => Carries(commits, run.base, Gated.head)

(* What is known only while HEAD and base stand still.                      *)
StandingInv ==
    ~run.moved =>
        /\ DigestChecked => Gated.digest = DigestIn(commits, run.base, run.head)
        /\ ProtectedKnown => run.protected = ChangedIn(commits, run.base, run.head) \cap protected_patterns
        /\ Found => run.protected = {} \/ Reviewed

(* HEAD and base only advance, so the scan saw all that leads to the head    *)
(* and is not yet merged, whenever it looked.                               *)
RawInv ==
    RawScanned =>
        \A c \in commits[run.head].anc \ commits[base].anc : commits[c].tree.raw # 1

RunInv == RunType /\ StartInv /\ GateReadInv /\ RollbackInv /\ RawInv /\ StandingInv

(* Conclusions drawn from commits stay true when commits are added.         *)
LEMMA ConclusionsStay ==
    ASSUME NEW l, NEW m, Len(l) \in Nat, GraphOK(l), Grown(l, m), Len(m) \in Nat,
           NEW s \in 1 .. Len(l), NEW e \in 1 .. Len(l)
    PROVE  /\ \A allowed : Audited(l, s, e, allowed) => Audited(m, s, e, allowed)
           /\ Carries(l, s, e) => Carries(m, s, e)
<1>1. /\ m[s] = l[s] /\ m[e] = l[e]
      /\ 1 .. Len(l) \subseteq 1 .. Len(m)
      /\ \A c \in 1 .. Len(l) : m[c] = l[c]
  BY DEF Grown
<1>2. \A c \in 1 .. Len(l) : l[c].parents \subseteq 1 .. Len(l) /\ l[c].anc \subseteq 1 .. Len(l)
  BY DEF GraphOK
<1>3. ASSUME NEW allowed, Audited(l, s, e, allowed)
      PROVE  Audited(m, s, e, allowed)
  <2>1. ASSUME NEW c \in m[e].anc \ m[s].anc, NEW p \in m[c].parents
        PROVE  Differ(m[p].tree, m[c].tree) \subseteq allowed
    <3>1. c \in l[e].anc \ l[s].anc /\ c \in 1 .. Len(l)
      BY <1>1, <1>2, <2>1
    <3>2. m[c] = l[c] /\ p \in l[c].parents /\ m[p] = l[p]
      BY <1>1, <1>2, <2>1, <3>1
    <3> QED
      BY <1>3, <3>1, <3>2 DEF Audited
  <2> QED
    BY <1>1, <1>3, <2>1 DEF Audited
<1>4. ASSUME Carries(l, s, e)
      PROVE  Carries(m, s, e)
  <2> DEFINE r == l[e].tree.ev
  <2>1. r \in 1 .. Len(l) /\ m[e].tree.ev = r /\ m[r] = l[r] /\ r \in 1 .. Len(m)
    BY <1>1, <1>4 DEF Carries
  <2>2. \A p \in l[r].parents : m[p] = l[p]
    BY <1>1, <1>2, <2>1
  <2>3. PICK p \in l[r].parents :
          /\ \A q \in Product :
                l[p].tree[q] = l[s].tree[q] /\ l[r].tree[q] = l[e].tree[q]
          /\ Differ(l[p].tree, l[r].tree) \cap Evidence = {}
    BY <1>4 DEF Carries
  <2>4. s \in l[r].anc /\ r \in l[e].anc
    BY <1>4 DEF Carries
  <2>5. p \in m[r].parents /\ m[p] = l[p]
    BY <2>1, <2>2, <2>3
  <2>6. s \in m[r].anc /\ r \in m[e].anc
    BY <1>1, <2>1, <2>4
  <2>7. /\ \A q \in Product :
             m[p].tree[q] = m[s].tree[q] /\ m[r].tree[q] = m[e].tree[q]
        /\ Differ(m[p].tree, m[r].tree) \cap Evidence = {}
    BY <1>1, <2>1, <2>3, <2>5
  <2> HIDE DEF r
  <2> QED
    BY <2>1, <2>5, <2>6, <2>7 DEF Carries
<1> QED
  BY <1>3, <1>4

(* A commit, a pull or a move of the base keeps what the verification has   *)
(* found of base, head and gate and voids what it has found of the refs.    *)
LEMMA MovesKeepRunInv ==
    ASSUME RepoInv, RunInv, RepoInv', Grown(commits, commits'), Disturb, now' = now,
           commits[base].anc \subseteq commits'[base'].anc
    PROVE  RunInv'
<1> USE DEF RunInv, Gated, GateRead, DigestChecked, RollbackSound, RawScanned, ProtectedKnown, Found
<1>1. /\ run' = [run EXCEPT !.moved = (run.pc # "idle")]
      /\ Len(commits) \in Nat /\ Len(commits') \in Nat /\ now \in Nat
      /\ 1 .. Len(commits) \subseteq 1 .. Len(commits')
      /\ \A c \in Commits : commits'[c] = commits[c]
  <2>1. run' = [run EXCEPT !.moved = (run.pc # "idle")]
    BY DEF Disturb
  <2>2. Len(commits) \in Nat /\ Len(commits') \in Nat /\ now \in Nat
    BY DEF RepoInv, IsLog
  <2> QED
    BY <2>1, <2>2 DEF Grown, Commits
<1>2. /\ run'.pc = run.pc /\ run'.head = run.head /\ run'.base = run.base /\ run'.gate = run.gate
      /\ run'.started = run.started
      /\ run'.moved = (run.pc # "idle")
  BY <1>1 DEF RunType
<1>3. RunType'
  BY <1>1 DEF RunType
<1>4. StartInv'
  BY <1>1, <1>2 DEF StartInv, Commits
<1>5. GateReadInv'
  <2> SUFFICES ASSUME GateRead
               PROVE  /\ run.gate.head \in 1 .. Len(commits')
                      /\ commits'[run.gate.head].kind \notin Side
                      /\ Audited(commits', run.gate.head, run.head, {})
    BY <1>2 DEF GateReadInv, Commits
  <2>1. run.gate.head \in Commits /\ run.head \in Commits /\ Audited(commits, run.gate.head, run.head, {})
    BY DEF GateReadInv, StartInv
  <2>2. Audited(commits', run.gate.head, run.head, {})
    BY <1>1, <2>1, ConclusionsStay DEF RepoInv, Commits
  <2> QED
    BY <1>1, <2>1, <2>2 DEF GateReadInv, Commits
<1>6. RollbackInv'
  <2> SUFFICES ASSUME RollbackSound
               PROVE  Carries(commits', run.base, run.gate.head)
    BY <1>2 DEF RollbackInv
  <2>1. run.gate.head \in Commits /\ run.base \in Commits /\ Carries(commits, run.base, run.gate.head)
    BY DEF GateReadInv, StartInv, RollbackInv
  <2> QED
    BY <1>1, <2>1, ConclusionsStay DEF RepoInv, Commits
<1>7. StandingInv'
  BY <1>2 DEF StandingInv
<1>8. RawInv'
  <2> SUFFICES ASSUME RawScanned, NEW c \in commits'[run.head].anc \ commits'[base'].anc
               PROVE  commits'[c].tree.raw # 1
    BY <1>2 DEF RawInv
  <2>1. run.head \in Commits
    BY DEF StartInv
  <2>2. commits'[run.head] = commits[run.head] /\ commits[run.head].anc \subseteq 1 .. run.head
    BY <1>1, <2>1 DEF RepoInv, GraphOK, Commits
  <2>3. c \in Commits
    BY <1>1, <2>1, <2>2 DEF Commits
  <2>4. commits[c].tree.raw # 1
    BY <2>2 DEF RawInv
  <2> QED
    BY <1>1, <2>3, <2>4
<1> QED
  BY <1>3, <1>4, <1>5, <1>6, <1>7, <1>8

(* The clock and the Reviewer add to what is there.                         *)
LEMMA WaitingKeepsRunInv ==
    ASSUME RepoInv, RunInv, UNCHANGED <<commits, head, base, run>>,
           signed \subseteq signed', now' \in Nat, now <= now'
    PROVE  RunInv'
<1> USE DEF RunInv
<1>1. RunType' /\ GateReadInv' /\ RollbackInv'
  BY DEF RunType, GateReadInv, GateRead, Gated, RollbackInv, RollbackSound, Commits
<1>2. StartInv'
  <2>1. run.pc # "idle" => run.started \in Nat /\ run.started <= now' 
    BY DEF StartInv, RunType, RepoInv
  <2> QED
    BY <2>1 DEF StartInv, Commits
<1>3. Reviewed => Reviewed'
  BY DEF Reviewed, Gated
<1>4. StandingInv' /\ RawInv'
  BY <1>3 DEF StandingInv, DigestChecked, RawInv, RawScanned, ProtectedKnown, Found, Gated
<1> QED
  BY <1>1, <1>2, <1>4

(* A rollback record that passes every check names one commit that carries  *)
(* the whole change.                                                        *)
LEMMA RollbackCarries ==
    ASSUME RepoInv, NEW b \in Commits, NEW h \in Commits,
           rollback_in_range(Tree(h).ev, b, h), rollback_revertible(Tree(h).ev, b, h)
    PROVE  Carries(commits, b, h)
<1> DEFINE r == Tree(h).ev
<1>1. b \in commits[r].anc /\ r \in commits[h].anc
  BY DEF rollback_in_range, Ancestors
<1>2. r \in 1 .. Len(commits)
  <2>1. commits[h].anc \subseteq 1 .. h
    BY DEF RepoInv, GraphOK, Commits
  <2>2. Len(commits) \in Nat
    BY DEF RepoInv, IsLog
  <2>3. h \in 1 .. Len(commits)
    BY DEF Commits
  <2> HIDE DEF r
  <2> QED
    BY <1>1, <2>1, <2>2, <2>3
<1>3. PICK p \in commits[r].parents :
        /\ Differ(Tree(p), Tree(r)) \cap Evidence = {}
        /\ audit_only(r, h, Evidence)
        /\ restores_base(r, p, b, h)
  BY DEF rollback_revertible
<1>4. Differ(commits[r].tree, commits[h].tree) \subseteq Evidence
  <2>1. Audited(commits, r, h, Evidence)
    BY <1>3 DEF audit_only, Audited, Between, Ancestors, Tree
  <2>2. Evidence \in SUBSET Paths
    BY DEF Paths
  <2> QED
    BY <1>2, <2>1, <2>2 DEF RepoInv, AuditedPaths, Commits
<1>5. ASSUME NEW q \in Product
      PROVE  commits[p].tree[q] = commits[b].tree[q] /\ commits[r].tree[q] = commits[h].tree[q]
  <2>1. q \in Paths /\ q \notin Evidence
    BY DEF Paths, Product, Evidence
  <2>2. commits[r].tree[q] = commits[h].tree[q]
    BY <1>4, <2>1 DEF Differ
  <2>3. MergesTo(commits[r].tree[q], commits[h].tree[q], commits[p].tree[q], commits[b].tree[q])
    BY <1>3 DEF restores_base, Tree
  <2> QED
    BY <2>2, <2>3 DEF MergesTo
<1>6. commits[h].tree.ev = r /\ Differ(commits[p].tree, commits[r].tree) \cap Evidence = {}
  BY <1>3 DEF Tree
<1> HIDE DEF r
<1> QED
  BY <1>1, <1>2, <1>5, <1>6 DEF Carries

(* Each step of verify_merge establishes what RunInv says of its outcome.   *)
LEMMA VerifyKeepsRunInv ==
    ASSUME RepoInv, RunInv, UNCHANGED repoVars,
           \/ StartVerify \/ ReadGate \/ CheckDigest \/ CheckDeps \/ CheckRollback \/ ScanRaw
           \/ FindProtected \/ CheckReview \/ MergeReady \/ VerifyRefuses \/ LocalGateFails
    PROVE  RunInv'
<1> USE DEF RunInv, repoVars, Commits
<1> DEFINE Same == UNCHANGED <<commits, head, base, signed, now>>
<1>0. Same /\ now \in Nat /\ Len(commits) \in Nat
  BY DEF RepoInv, IsLog
<1>t. /\ head \in Commits /\ base \in Commits /\ commits[head].kind \notin Side
      /\ Gate # NoMergeGate => Gate.head \in Commits /\ commits[Gate.head].kind \notin Side
  BY DEF RepoInv, HeadLine, Attached, Gate
<1>1. CASE StartVerify
  <2>1. run' = [run EXCEPT !.pc = "gate", !.head = head, !.base = base, !.started = now]
    BY <1>1 DEF StartVerify
  <2>2. run'.pc = "gate" /\ run'.head = head /\ run'.base = base /\ run'.started = now
    BY <2>1 DEF RunType
  <2>3. RunType'
    <3>1. head \in Nat /\ base \in Nat
      BY <1>t
    <3> QED
      BY <1>0, <2>1, <3>1 DEF RunType, Steps
  <2> QED
    BY <1>0, <1>t, <2>2, <2>3 DEF StartInv, GateReadInv, GateRead, RollbackInv, RollbackSound, RawInv, StandingInv,
       DigestChecked, RawScanned, ProtectedKnown, Found
<1>2. CASE VerifyRefuses
  <2>1. run' = NoRun
    BY <1>2 DEF VerifyRefuses
  <2>2. run'.pc = "idle" /\ RunType'
    BY <2>1 DEF NoRun, RunType, Steps
  <2> QED
    BY <2>2 DEF StartInv, GateReadInv, GateRead, RollbackInv, RollbackSound, RawInv, StandingInv,
       DigestChecked, RawScanned, ProtectedKnown, Found
<1>3. CASE ReadGate
  <2>1. /\ run.pc = "gate" /\ Gate # NoMergeGate
        /\ audit_only(Gate.head, run.head, {})
        /\ run' = [run EXCEPT !.pc = "digest", !.gate = Gate]
    BY <1>3 DEF ReadGate
  <2>2. /\ run'.pc = "digest" /\ run'.head = run.head /\ run'.base = run.base /\ run'.gate = Gate
        /\ run'.started = run.started /\ run'.moved = run.moved
    BY <2>1 DEF RunType
  <2>3. RunType'
    BY <2>1 DEF RunType, Steps
  <2>4. Audited(commits, Gate.head, run.head, {})
    BY <2>1 DEF audit_only, Audited, Between, Ancestors, Tree
  <2>5. StartInv'
    BY <1>0, <2>1, <2>2 DEF StartInv
  <2>6. GateReadInv'
    BY <1>0, <1>t, <2>1, <2>2, <2>4 DEF GateReadInv, Gated
  <2> QED
    BY <2>2, <2>3, <2>5, <2>6 DEF RollbackInv, RollbackSound, RawInv, StandingInv,
       DigestChecked, RawScanned, ProtectedKnown, Found
<1>k. ASSUME NEW step \in Steps \ {"idle", "gate", "digest"}, run.pc \notin {"idle", "gate"}, Goto(step)
      PROVE  /\ RunType' /\ StartInv' /\ GateReadInv'
             /\ run'.pc = step /\ run'.head = run.head /\ run'.base = run.base /\ run'.gate = run.gate
             /\ run'.started = run.started /\ run'.moved = run.moved /\ run'.protected = run.protected
  <2>1. run' = [run EXCEPT !.pc = step]
    BY <1>k DEF Goto
  <2>2. /\ run'.pc = step /\ run'.head = run.head /\ run'.base = run.base /\ run'.gate = run.gate
        /\ run'.started = run.started /\ run'.moved = run.moved /\ run'.protected = run.protected
    BY <2>1 DEF RunType
  <2>3. RunType'
    BY <2>1 DEF RunType
  <2> QED
    BY <1>0, <1>k, <2>2, <2>3 DEF StartInv, GateReadInv, GateRead, Gated
<1>4. CASE CheckDigest
  <2>1. run.pc = "digest" /\ Gated.digest = change_digest(base, head) /\ Goto("deps")
    BY <1>4 DEF CheckDigest
  <2>2. /\ RunType' /\ StartInv' /\ GateReadInv'
        /\ run'.pc = "deps" /\ run'.head = run.head /\ run'.base = run.base /\ run'.gate = run.gate
        /\ run'.moved = run.moved
    BY <1>k, <2>1 DEF Steps
  <2>3. ~run.moved => run.gate.digest = DigestIn(commits, run.base, run.head)
    BY <2>1, Readings DEF StartInv, Gated
  <2> QED
    BY <1>0, <2>2, <2>3 DEF Gated, RollbackInv, RollbackSound, RawInv, StandingInv, RawScanned, ProtectedKnown, Found
<1>5. CASE CheckDeps
  <2>1. run.pc = "deps" /\ Goto("rollback")
    BY <1>5 DEF CheckDeps
  <2>2. /\ RunType' /\ StartInv' /\ GateReadInv'
        /\ run'.pc = "rollback" /\ run'.head = run.head /\ run'.base = run.base /\ run'.gate = run.gate
        /\ run'.started = run.started /\ run'.moved = run.moved /\ run'.protected = run.protected
    BY <1>k, <2>1 DEF Steps
  <2> QED
    BY <1>0, <2>1, <2>2 DEF RollbackInv, RollbackSound, RawInv, StandingInv, DigestChecked, RawScanned,
       ProtectedKnown, Found, Gated
<1>6. CASE CheckRollback
  <2>1. /\ run.pc = "rollback" /\ Goto("raw")
        /\ rollback_in_range(Tree(run.gate.head).ev, run.base, run.gate.head)
        /\ rollback_revertible(Tree(run.gate.head).ev, run.base, run.gate.head)
    BY <1>6 DEF CheckRollback, RollbackRef, Gated
  <2>2. /\ RunType' /\ StartInv' /\ GateReadInv'
        /\ run'.pc = "raw" /\ run'.head = run.head /\ run'.base = run.base /\ run'.gate = run.gate
        /\ run'.started = run.started /\ run'.moved = run.moved /\ run'.protected = run.protected
    BY <1>k, <2>1 DEF Steps
  <2>3. Carries(commits, run.base, run.gate.head)
    <3>1. run.base \in Commits /\ run.gate.head \in Commits
      BY <2>1 DEF StartInv, GateReadInv, GateRead, Gated
    <3> QED
      BY <2>1, <3>1, RollbackCarries
  <2> QED
    BY <1>0, <2>1, <2>2, <2>3 DEF RollbackInv, RollbackSound, RawInv, StandingInv, DigestChecked, RawScanned,
       ProtectedKnown, Found, Gated
<1>7. CASE ScanRaw
  <2>1. run.pc = "raw" /\ ~raw_tracked /\ Goto("protected")
    BY <1>7 DEF ScanRaw
  <2>2. /\ RunType' /\ StartInv' /\ GateReadInv'
        /\ run'.pc = "protected" /\ run'.head = run.head /\ run'.base = run.base /\ run'.gate = run.gate
        /\ run'.started = run.started /\ run'.moved = run.moved /\ run'.protected = run.protected
    BY <1>k, <2>1 DEF Steps
  <2>3. \A c \in commits[run.head].anc \ commits[base].anc : commits[c].tree.raw # 1
    <3>1. run.head \in Commits /\ commits[run.head].kind \notin Side
      BY <2>1 DEF StartInv
    <3>2. run.head \in commits[head].anc
      BY <3>1 DEF RepoInv, HeadLine
    <3>3. commits[run.head].anc \subseteq commits[head].anc
      BY <1>t, <3>2 DEF RepoInv, GraphOK
    <3> QED
      BY <2>1, <3>3 DEF raw_tracked, Between, Ancestors, Tree
  <2> QED
    BY <1>0, <2>1, <2>2, <2>3 DEF RollbackInv, RollbackSound, RawInv, StandingInv, DigestChecked, RawScanned,
       ProtectedKnown, Found, Gated
<1>8. CASE FindProtected
  <2>1. /\ run.pc = "protected"
        /\ run' = [run EXCEPT !.pc = "review",
                     !.protected = changed_paths(base, head) \cap protected_patterns]
    BY <1>8 DEF FindProtected
  <2>2. /\ run'.pc = "review" /\ run'.head = run.head /\ run'.base = run.base /\ run'.gate = run.gate
        /\ run'.started = run.started /\ run'.moved = run.moved
        /\ run'.protected = changed_paths(base, head) \cap protected_patterns
    BY <2>1 DEF RunType
  <2>3. RunType'
    <3>1. changed_paths(base, head) \cap protected_patterns \in SUBSET Paths
      BY DEF changed_paths, Differ
    <3> QED
      BY <2>1, <3>1 DEF RunType, Steps
  <2>4. StartInv' /\ GateReadInv'
    BY <1>0, <2>1, <2>2 DEF StartInv, GateReadInv, GateRead, Gated
  <2>5. ~run.moved => run'.protected = ChangedIn(commits, run.base, run.head) \cap protected_patterns
    BY <2>1, <2>2, Readings DEF StartInv
  <2> QED
    BY <1>0, <2>1, <2>2, <2>3, <2>4, <2>5 DEF RollbackInv, RollbackSound, RawInv, StandingInv, DigestChecked, RawScanned,
       ProtectedKnown, Found, Gated
<1>9. CASE CheckReview
  <2>1. /\ run.pc = "review" /\ Goto("lock")
        /\ \/ run.protected = {}
           \/ review_verifies(Review, run.gate, base, run.gate.digest)
    BY <1>9 DEF CheckReview, Gated
  <2>2. /\ RunType' /\ StartInv' /\ GateReadInv'
        /\ run'.pc = "lock" /\ run'.head = run.head /\ run'.base = run.base /\ run'.gate = run.gate
        /\ run'.started = run.started /\ run'.moved = run.moved /\ run'.protected = run.protected
    BY <1>k, <2>1 DEF Steps
  <2>3. ~run.moved => run.protected = {} \/ Reviewed'
    <3> SUFFICES ASSUME ~run.moved, review_verifies(Review, run.gate, base, run.gate.digest)
                 PROVE  Reviewed'
      BY <2>1
    <3>1. Review \in signed /\ Review.digest = run.gate.digest
             /\ Review.meta = gate_metadata_digest(run.gate) /\ Review.expires > now
             /\ run.gate.builder # Reviewer /\ trusted_reviewer(base) = "active"
      BY <1>t DEF review_verifies, RepoInv, Attached, Review
    <3>2. Review.expires > run.started
      <4>1. Review.expires \in Nat /\ run.started \in Nat /\ run.started <= now
        BY <2>1, <3>1 DEF RepoInv, StartInv, RunType
      <4> QED
        BY <1>0, <3>1, <4>1
    <3>3. TrustedIn(commits, run.base)
      BY <2>1, <3>1, Readings DEF StartInv
    <3> QED
      BY <1>0, <2>2, <3>1, <3>2, <3>3 DEF Reviewed, Gated
  <2> QED
    BY <1>0, <2>1, <2>2, <2>3 DEF RollbackInv, RollbackSound, RawInv, StandingInv, DigestChecked, RawScanned,
       ProtectedKnown, Found, Gated
<1>10. ASSUME NEW step \in {"ready", "red"}, run.pc = "lock", Goto(step)
       PROVE  RunInv'
  <2>1. /\ RunType' /\ StartInv' /\ GateReadInv'
        /\ run'.pc = step /\ run'.head = run.head /\ run'.base = run.base /\ run'.gate = run.gate
        /\ run'.started = run.started /\ run'.moved = run.moved /\ run'.protected = run.protected
    BY <1>k, <1>10 DEF Steps
  <2>2. Reviewed => Reviewed'
    BY <1>0, <2>1 DEF Reviewed, Gated
  <2> QED
    BY <1>0, <1>10, <2>1, <2>2 DEF RollbackInv, RollbackSound, RawInv, StandingInv, DigestChecked, RawScanned,
       ProtectedKnown, Found, Gated
<1>11. CASE MergeReady \/ LocalGateFails
  BY <1>10, <1>11 DEF MergeReady, LocalGateFails
<1> QED
  BY <1>1, <1>2, <1>3, <1>4, <1>5, <1>6, <1>7, <1>8, <1>9, <1>11

(* Every step keeps both invariants.                                        *)
LEMMA MergeInvStep ==
    ASSUME RepoInv, RunInv, [Next]_vars
    PROVE  RepoInv' /\ RunInv'
<1>0. RepoInv' /\ Grown(commits, commits')
  BY RepoInvStep
<1>1. CASE CommitEdit \/ CommitEvidence \/ CommitGate \/ CommitReview \/ Pull
           \/ BaseAdvances \/ BaseMerges
  <2>1. Disturb /\ now' = now
    BY <1>1 DEF CommitEdit, CommitEvidence, CommitGate, CommitReview, CommitOnHead, Pull, BaseAdvances,
       BaseMerges
  <2> QED
    BY <1>0, <2>1, BaseMovesForward, MovesKeepRunInv
<1>2. CASE Tick \/ SignReview \/ LocalGateStep \/ UNCHANGED vars
  <2>1. /\ UNCHANGED <<commits, head, base, run>>
        /\ signed \subseteq signed'
        /\ now' = now \/ now' = now + 1
    BY <1>2 DEF Tick, SignReview, LocalGateStep, vars, repoVars
  <2>2. now' \in Nat /\ now <= now'
    BY <2>1 DEF RepoInv
  <2> QED
    BY <1>0, <2>1, <2>2, WaitingKeepsRunInv
<1>3. CASE \/ StartVerify \/ ReadGate \/ CheckDigest \/ CheckDeps \/ CheckRollback \/ ScanRaw
           \/ FindProtected \/ CheckReview \/ MergeReady \/ VerifyRefuses \/ LocalGateFails
  <2>1. UNCHANGED repoVars
    BY <1>3 DEF StartVerify, ReadGate, CheckDigest, CheckDeps, CheckRollback, ScanRaw, FindProtected,
       CheckReview, MergeReady, VerifyRefuses, LocalGateFails
  <2> QED
    BY <1>0, <1>3, <2>1, VerifyKeepsRunInv
<1> QED
  BY <1>1, <1>2, <1>3 DEF Next

(* RepoInv and RunInv are invariants of the repository and a verification.  *)
LEMMA MergeInvariant == Spec => [](RepoInv /\ RunInv)
<1>1. Init => RepoInv /\ RunInv
  <2> SUFFICES ASSUME Init
               PROVE  RepoInv /\ RunInv
    OBVIOUS
  <2>1. PICK t \in Roots :
          commits = <<[parents |-> {}, tree |-> t, gate |-> NoMergeGate,
                       review |-> NoReview, kind |-> "root", anc |-> {1}]>>
    BY DEF Init
  <2>2. /\ Len(commits) = 1 /\ IsLog(commits)
        /\ commits[1].parents = {} /\ commits[1].tree = t /\ commits[1].gate = NoMergeGate
        /\ commits[1].review = NoReview /\ commits[1].kind = "root" /\ commits[1].anc = {1}
    BY <2>1 DEF IsLog
  <2>3. IsTree(t) /\ 1 .. Len(commits) = {1}
    BY <2>2, MergeAssumption DEF IsTree
  <2>4. GraphOK(commits)
    BY <2>2, <2>3 DEF GraphOK, Side
  <2>5. AuditedPaths(commits)
    BY <2>2, <2>3 DEF AuditedPaths, Differ
  <2>6. HeadLine(commits, head) /\ Attached(commits, signed) /\ base \in Commits
    BY <2>2, <2>3 DEF Init, HeadLine, Attached, Side, Commits
  <2>7. RepoInv
    BY <2>2, <2>4, <2>5, <2>6 DEF Init, RepoInv
  <2>8. run.pc = "idle" /\ RunType
    BY DEF Init, NoRun, RunType, Steps
  <2>9. RunInv
    BY <2>8 DEF RunInv, StartInv, GateReadInv, GateRead, RollbackInv, RollbackSound, RawInv, StandingInv,
       DigestChecked, RawScanned, ProtectedKnown, Found
  <2> QED
    BY <2>7, <2>9
<1>2. (RepoInv /\ RunInv) /\ [Next]_vars => (RepoInv /\ RunInv)'
  BY MergeInvStep
<1> QED
  BY <1>1, <1>2, PTL DEF Spec

-----------------------------------------------------------------------------
(* Trees that differ nowhere are the same tree.                             *)
LEMMA SameTree ==
    ASSUME NEW t, NEW u, IsTree(t), IsTree(u), Differ(t, u) \subseteq {}
    PROVE  t = u
<1>1. \A p \in Paths : t[p] = u[p]
  BY DEF Differ
<1> QED
  BY <1>1 DEF IsTree

(* A base that is an ancestor of the head is their merge base.              *)
LEMMA AncestorIsMergeBase ==
    ASSUME RepoInv, NEW b \in Commits, NEW h \in Commits, b \in commits[h].anc
    PROVE  MergeBaseIn(commits, b, h) = b
<1> DEFINE common == commits[b].anc \cap commits[h].anc
           P(c) == \A d \in common : c \in commits[d].anc => d = c
<1>1. Len(commits) \in Nat /\ b \in commits[b].anc /\ b \in common
  BY DEF RepoInv, IsLog, GraphOK, Commits
<1>2. \A d \in common : d \in 1 .. b
  BY DEF RepoInv, GraphOK, Commits
<1>3. P(b)
  <2>1. ASSUME NEW d \in common, b \in commits[d].anc
        PROVE  d = b
    <3>1. d \in 1 .. b /\ d \in Commits
      BY <1>1, <1>2 DEF Commits
    <3>2. b \in 1 .. d
      BY <2>1, <3>1 DEF RepoInv, GraphOK, Commits
    <3> QED
      BY <3>1, <3>2 DEF Commits
  <2> QED
    BY <2>1
<1>4. \A c \in common : P(c) => c = b
  BY <1>1
<1>5. (CHOOSE c \in common : P(c)) = b
  <2> HIDE DEF P, common
  <2> QED
    BY <1>1, <1>3, <1>4
<1> QED
  BY <1>5 DEF MergeBaseIn

(* A head found ready has nothing but gate files and receipts after the     *)
(* reviewed head: no commit on the way changes the tree, not even for a     *)
(* moment, and no merge smuggles one in.                                    *)
THEOREM ReviewedHeadStands == Spec => []NothingAfterReview
<1>1. RepoInv /\ RunInv => NothingAfterReview
  <2> SUFFICES ASSUME RepoInv, RunInv, Found, NEW c \in Between(Gated.head, run.head)
               PROVE  Tree(c) = Tree(Gated.head)
    BY DEF NothingAfterReview
  <2> DEFINE s == run.gate.head
             e == run.head
  <2>1. /\ s \in Commits /\ e \in Commits /\ Len(commits) \in Nat
        /\ commits[s].kind \notin Side
        /\ Audited(commits, s, e, {})
    BY DEF RunInv, GateReadInv, GateRead, Gated, StartInv, Found, RepoInv, IsLog
  <2>2. c \in commits[e].anc \ commits[s].anc
    BY DEF Between, Ancestors, Gated
  <2> HIDE DEF s, e
  <2>3. c \in Commits
    BY <2>1, <2>2 DEF RepoInv, GraphOK, Commits
  <2>4. \A p \in commits[c].parents : p \in Commits /\ Differ(commits[p].tree, commits[c].tree) \subseteq {}
    <3>1. commits[c].parents \subseteq 1 .. (c - 1)
      BY <2>3 DEF RepoInv, GraphOK, Commits
    <3>2. \A p \in commits[c].parents : p \in Commits
      BY <2>1, <2>3, <3>1 DEF Commits
    <3>3. \A p \in commits[c].parents : Differ(commits[p].tree, commits[c].tree) \subseteq {}
      BY <2>1, <2>2 DEF Audited
    <3> QED
      BY <3>2, <3>3
  <2>5. \A d \in Commits : IsTree(commits[d].tree)
    BY DEF RepoInv, GraphOK, Commits
  <2>6. commits[c].kind \notin Side
    <3>1. \A p \in commits[c].parents : commits[p].tree = commits[c].tree
      BY <2>3, <2>4, <2>5, SameTree
    <3> QED
      BY <2>3, <3>1 DEF RepoInv, GraphOK, Commits
  <2>7. s \in commits[c].anc
    <3>1. ~(c <= s)
      BY <2>1, <2>2, <2>3, <2>6 DEF RepoInv, HeadLine, Commits
    <3>2. s <= c
      BY <2>1, <2>3, <3>1 DEF Commits
    <3> QED
      BY <2>1, <2>3, <2>6, <3>2 DEF RepoInv, HeadLine, Commits
  <2>8. Audited(commits, s, c, {})
    <3>1. commits[c].anc \subseteq commits[e].anc
      BY <2>1, <2>2 DEF RepoInv, GraphOK, Commits
    <3> QED
      BY <2>1, <2>7, <3>1 DEF Audited
  <2>9. Differ(commits[s].tree, commits[c].tree) \subseteq {}
    BY <2>1, <2>3, <2>8 DEF RepoInv, AuditedPaths, Commits
  <2>10. commits[s].tree = commits[c].tree
    BY <2>1, <2>3, <2>5, <2>9, SameTree
  <2> QED
    BY <2>10 DEF Tree, Gated, s
<1> QED
  BY <1>1, MergeInvariant, PTL

(* The one commit the rollback record names carries the whole product       *)
(* change from the base to the head that was found ready, so that reverting *)
(* it restores the base, also when refs moved meanwhile.                    *)
THEOREM RollbackRestoresBase == Spec => []OneCommitCarriesAll
<1>1. RepoInv /\ RunInv => OneCommitCarriesAll
  <2> SUFFICES ASSUME RepoInv, RunInv, Found
               PROVE  OneCommitCarriesAll
    BY DEF OneCommitCarriesAll
  <2> DEFINE h == run.gate.head
             r == commits[h].tree.ev
  <2>1. /\ h \in Commits /\ run.head \in Commits
        /\ Audited(commits, h, run.head, {})
        /\ Carries(commits, run.base, h)
    BY DEF RunInv, GateReadInv, GateRead, RollbackInv, RollbackSound, StartInv, Gated, Found
  <2>2. Differ(commits[h].tree, commits[run.head].tree) \subseteq {}
    <3>1. {} \in SUBSET Paths
      OBVIOUS
    <3> HIDE DEF h
    <3> QED
      BY <2>1, <3>1 DEF RepoInv, AuditedPaths, Commits
  <2>3. commits[h].tree = commits[run.head].tree
    BY <2>1, <2>2, SameTree DEF RepoInv, GraphOK, Commits
  <2>4. PICK p \in commits[r].parents :
          /\ \A q \in Product :
              commits[p].tree[q] = commits[run.base].tree[q] /\ commits[r].tree[q] = commits[h].tree[q]
          /\ Differ(commits[p].tree, commits[r].tree) \cap Evidence = {}
    BY <2>1 DEF Carries
  <2>5. RollbackRef(Gated) = r
    BY DEF RollbackRef, Gated, Tree
  <2> HIDE DEF r, h
  <2> QED
    BY <2>3, <2>4, <2>5 DEF OneCommitCarriesAll, Tree
<1> QED
  BY <1>1, MergeInvariant, PTL

(* No commit that merging the verified head would bring in tracks raw       *)
(* evidence, not even one that a later commit removed, however HEAD and the *)
(* base ref have moved on around the scan.                                  *)
THEOREM HistoryHasNoRaw == Spec => []NoRawInHistory
<1>1. RepoInv /\ RunInv => NoRawInHistory
  <2> SUFFICES ASSUME RepoInv, RunInv, Found,
                      NEW c \in Between(run.base, run.head) \ Ancestors(base)
               PROVE  Tree(c).raw = 0
    BY DEF NoRawInHistory
  <2>1. c \in commits[run.head].anc \ commits[base].anc /\ run.head \in Commits
    BY DEF Between, Ancestors, RunInv, StartInv, Found
  <2>2. commits[c].tree.raw # 1
    BY <2>1 DEF RunInv, RawInv, RawScanned, Found
  <2>3. c \in Commits
    BY <2>1, SMTT(30) DEF RepoInv, IsLog, GraphOK, Commits
  <2>4. commits[c].tree.raw \in {0, 1}
    BY <2>3 DEF RepoInv, GraphOK, IsTree, Commits
  <2> QED
    BY <2>2, <2>4 DEF Tree
<1> QED
  BY <1>1, MergeInvariant, PTL

(* While HEAD and base stand still, a head with a protected change is ready *)
(* only with an unexpired receipt, for exactly this change under exactly    *)
(* this gate, of a Reviewer the base trusts and who is not the Builder.     *)
THEOREM ProtectedNeedsReview == Spec => []ProtectedIsReviewed
<1>1. RepoInv /\ RunInv => ProtectedIsReviewed
  <2> SUFFICES ASSUME RepoInv, RunInv, Found, ~run.moved,
                      Differ(Tree(run.base), Tree(run.head)) \cap protected_patterns # {}
               PROVE  /\ Gated.builder # Reviewer
                      /\ \/ Tree(run.base).trust = "active"
                         \/ Tree(run.base).trust \in {"absent", "empty"} /\ External = "active"
                      /\ \E rv \in signed :
                           /\ rv.digest = change_digest(run.base, run.head)
                           /\ rv.meta = gate_metadata_digest(Gated)
                           /\ rv.expires > run.started
    BY DEF ProtectedIsReviewed
  <2> DEFINE h == run.gate.head
             r == commits[h].tree.ev
  <2>1. /\ h \in Commits /\ run.head \in Commits /\ run.base \in Commits
        /\ h \in commits[run.head].anc
        /\ r \in Commits /\ run.base \in commits[r].anc /\ r \in commits[h].anc
    BY DEF RunInv, GateReadInv, GateRead, RollbackInv, RollbackSound, StartInv, Gated, Found, Audited,
       Carries, Commits
  <2> HIDE DEF r, h
  <2>2. run.base \in commits[run.head].anc
    BY <2>1 DEF RepoInv, GraphOK, Commits
  <2>3. MergeBaseIn(commits, run.base, run.head) = run.base
    BY <2>1, <2>2, AncestorIsMergeBase
  <2>4. ChangedIn(commits, run.base, run.head) = Differ(Tree(run.base), Tree(run.head))
    BY <2>3 DEF ChangedIn, Tree
  <2>5. Reviewed /\ Gated.digest = DigestIn(commits, run.base, run.head)
    BY <2>4 DEF RunInv, StandingInv, ProtectedKnown, DigestChecked, Found
  <2>6. Gated.digest = change_digest(run.base, run.head)
    BY <2>5, Readings
  <2> QED
    BY <2>5, <2>6 DEF Reviewed, TrustedIn, Tree
<1> QED
  BY <1>1, MergeInvariant, PTL
=============================================================================
