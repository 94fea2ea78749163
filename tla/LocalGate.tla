----------------------------- MODULE LocalGate -----------------------------
(***************************************************************************)
(* The Local Green gate of ci_guard.py: run_local_gate runs the commands of *)
(* the repository's contract under a lock file in /tmp that serialises the  *)
(* gates of one user.  The lock is flock on an inode, while the next gate   *)
(* finds the file by its name: a cleaner of /tmp may remove the file or its *)
(* directory between the two, so the holder compares names and inodes once  *)
(* more after it has the lock.                                              *)
(***************************************************************************)
EXTENDS Naturals, FiniteSets

CONSTANTS Gates,      \* invocations of run_local_gate by one user
          MaxInodes   \* bound: directories and files made under the name

VARIABLES
    lockDir,    \* inode of the lock directory, 0 when there is none
    lockFile,   \* inode of the lock file in that directory, 0 when there is none
    inodes,     \* inodes used so far
    gpc,        \* [Gates -> step]
    seenDir,    \* [Gates -> directory_info at line 720]
    opened,     \* [Gates -> inode behind the open descriptor]
    flock       \* [inode -> the gate that holds its lock, or NoGate]

gateVars == <<lockDir, lockFile, inodes, gpc, seenDir, opened, flock>>

NoGate == "nobody"

ASSUME GateAssumption == MaxInodes \in Nat /\ NoGate \notin Gates

GateSteps == {"idle", "open", "wait", "recheck", "run", "green", "raised"}
Inodes == 1 .. MaxInodes

GateInit ==
    /\ lockDir = 0 /\ lockFile = 0 /\ inodes = 0
    /\ gpc = [g \in Gates |-> "idle"]
    /\ seenDir = [g \in Gates |-> 0]
    /\ opened = [g \in Gates |-> 0]
    /\ flock = [i \in Inodes |-> NoGate]

\* Closing the descriptor drops the lock, whether the gate ends, raises or dies.
Released(g) == [i \in Inodes |-> IF flock[i] = g THEN NoGate ELSE flock[i]]

(* mkdir with exist_ok, then the identity of the directory is remembered.   *)
EnterDirectory(g) ==
    /\ gpc[g] = "idle"
    /\ \/ lockDir # 0 /\ UNCHANGED <<lockDir, lockFile, inodes>>
       \/ /\ lockDir = 0 /\ inodes < MaxInodes
          /\ inodes' = inodes + 1
          /\ lockDir' = inodes + 1
          /\ lockFile' = 0
    /\ seenDir' = [seenDir EXCEPT ![g] = lockDir']
    /\ gpc' = [gpc EXCEPT ![g] = "open"]
    /\ UNCHANGED <<opened, flock>>

(* open(O_CREAT) by name.  The comparison of fstat and lstat follows at     *)
(* once: a file removed in between makes it raise, as GateRaises does.      *)
OpenLock(g) ==
    /\ gpc[g] = "open"
    /\ lockDir # 0
    /\ \/ lockFile # 0 /\ UNCHANGED <<lockFile, inodes>>
       \/ /\ lockFile = 0 /\ inodes < MaxInodes
          /\ inodes' = inodes + 1
          /\ lockFile' = inodes + 1
    /\ opened' = [opened EXCEPT ![g] = lockFile']
    /\ gpc' = [gpc EXCEPT ![g] = "wait"]
    /\ UNCHANGED <<lockDir, seenDir, flock>>

(* flock(LOCK_EX) returns.                                                  *)
AcquireLock(g) ==
    /\ gpc[g] = "wait"
    /\ flock[opened[g]] = NoGate
    /\ flock' = [flock EXCEPT ![opened[g]] = g]
    /\ gpc' = [gpc EXCEPT ![g] = "recheck"]
    /\ UNCHANGED <<lockDir, lockFile, inodes, seenDir, opened>>

(* Mutant: the identity is not compared again once the lock is held.        *)
StillTheLockUnchecked(g) == TRUE

(* The name still leads to the inode that was locked, in the same directory. *)
StillTheLock(g) == opened[g] = lockFile /\ seenDir[g] = lockDir

RecheckLock(g) ==
    /\ gpc[g] = "recheck"
    /\ StillTheLock(g)
    /\ gpc' = [gpc EXCEPT ![g] = "run"]
    /\ UNCHANGED <<lockDir, lockFile, inodes, seenDir, opened, flock>>

(* verify_guard passes, the contract is read again and every command exits 0. *)
GateGreen(g) ==
    /\ gpc[g] = "run"
    /\ gpc' = [gpc EXCEPT ![g] = "green"]
    /\ flock' = Released(g)
    /\ UNCHANGED <<lockDir, lockFile, inodes, seenDir, opened>>

(* A check of the lock, the guard, a command or its timeout raises, or the   *)
(* process dies: the finally block or the kernel drops the lock.            *)
GateRaises(g) ==
    /\ gpc[g] \in {"open", "wait", "recheck", "run"}
    /\ gpc' = [gpc EXCEPT ![g] = "raised"]
    /\ flock' = Released(g)
    /\ UNCHANGED <<lockDir, lockFile, inodes, seenDir, opened>>

(* A cleaner of /tmp removes the file, or the directory with it.  It spares  *)
(* what a gate is using: without that no check of this code could serialise *)
(* two gates.                                                               *)
CleanTmp ==
    /\ \A g \in Gates : gpc[g] # "run"
    /\ \/ lockFile # 0 /\ UNCHANGED lockDir
       \/ lockDir # 0 /\ lockDir' = 0
    /\ lockFile' = 0
    /\ UNCHANGED <<inodes, gpc, seenDir, opened, flock>>

GateStep(g) ==
    \/ EnterDirectory(g) \/ OpenLock(g) \/ AcquireLock(g) \/ RecheckLock(g)
    \/ GateGreen(g) \/ GateRaises(g)

----------------------------------------------------------------------------
(* One user has at most one active Local Green critical section             *)
(* (_local_gate_lock, ci_guard.py:706), although waiters may hold the lock   *)
(* of a file that has been removed and made anew by another gate.           *)
OneGateAtATime == Cardinality({g \in Gates : gpc[g] = "run"}) <= 1

============================================================================
