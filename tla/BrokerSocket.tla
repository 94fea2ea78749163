---------------------------- MODULE BrokerSocket ----------------------------
(***************************************************************************)
(* Publication and removal of the broker's socket pathname                  *)
(* (src/sddgov/broker.py, _publish_broker_socket, _unlink_socket_if_identity*)
(* and _serve_broker_at), and the accept loop of _serve_requests.           *)
(*                                                                          *)
(* A daemon is one run of serve_broker.  The socket inode it binds is       *)
(* represented by the daemon itself: the identity (st_dev, st_ino) the code *)
(* compares.  A pathname is therefore a variable that holds a daemon or     *)
(* NoSocket.                                                                *)
(***************************************************************************)
EXTENDS Naturals

CONSTANTS
    Daemons,         \* runs of the broker service
    NoSocket,        \* a pathname that does not exist
    MaxFailures,     \* MAX_CONSECUTIVE_ACCEPT_FAILURES
    MaxBackoff       \* MAX_ACCEPT_BACKOFF_SECONDS, in units of the first backoff

ASSUME SocketAssumption ==
    /\ NoSocket \notin Daemons
    /\ MaxFailures \in Nat \ {0}
    /\ MaxBackoff \in Nat \ {0}

VARIABLES
    final,       \* the fixed socket path
    staging,     \* the private name of each daemon in .broker-staging
    pending,     \* the private .broker-cleanup name of each daemon
    configured,  \* the sockets with owner root, the broker's group, mode 0660
    pc,          \* where each daemon is in its code
    failures,    \* consecutive_accept_failures of each daemon
    backoff,     \* accept_backoff of each daemon
    disturbed    \* whether somebody removed the path of a live daemon

vars == <<final, staging, pending, configured, pc, failures, backoff, disturbed>>
names == <<final, staging, pending>>
loop == <<failures, backoff>>

TypeOK ==
    /\ final \in Daemons \cup {NoSocket}
    /\ staging \in [Daemons -> Daemons \cup {NoSocket}]
    /\ pending \in [Daemons -> Daemons \cup {NoSocket}]
    /\ configured \subseteq Daemons
    /\ pc \in [Daemons -> {"start", "absent", "bound", "known", "ready", "published", "serving",
                           "unstage", "cleanup", "claimed", "restore", "dead"}]
    /\ failures \in [Daemons -> 0 .. MaxFailures]
    /\ backoff \in [Daemons -> 1 .. MaxBackoff]
    /\ disturbed \in BOOLEAN

Init ==
    /\ final = NoSocket
    /\ staging = [d \in Daemons |-> NoSocket]
    /\ pending = [d \in Daemons |-> NoSocket]
    /\ configured = {}
    /\ pc = [d \in Daemons |-> "start"]
    /\ failures = [d \in Daemons |-> 0]
    /\ backoff = [d \in Daemons |-> 1]
    /\ disturbed = FALSE

Goto(d, l) == pc' = [pc EXCEPT ![d] = l]

-----------------------------------------------------------------------------
(* _publish_broker_socket                                                   *)

(* The final path must not exist; an existing one is never replaced.        *)
CheckFinal(d) ==
    /\ pc[d] = "start"
    /\ Goto(d, IF final = NoSocket THEN "absent" ELSE "dead")
    /\ UNCHANGED <<names, configured, loop, disturbed>>

Bind(d) ==
    /\ pc[d] = "absent"
    /\ staging' = [staging EXCEPT ![d] = d]
    /\ Goto(d, "bound")
    /\ UNCHANGED <<final, pending, configured, loop, disturbed>>

(* The first stat of the staging name; if it fails the name is unlinked.    *)
StatStaging(d) ==
    /\ pc[d] = "bound"
    /\ \/ /\ Goto(d, "known")
          /\ UNCHANGED staging
       \/ /\ staging' = [staging EXCEPT ![d] = NoSocket]
          /\ Goto(d, "dead")
    /\ UNCHANGED <<final, pending, configured, loop, disturbed>>

(* _configure_socket_access sets owner, group and mode 0660, or raises.     *)
Configure(d) ==
    /\ pc[d] = "known"
    /\ \/ /\ configured' = configured \cup {d}
          /\ Goto(d, "ready")
       \/ /\ Goto(d, "unstage")
          /\ UNCHANGED configured
    /\ UNCHANGED <<names, loop, disturbed>>

(* Mutant: a plain rename replaces an existing path.                        *)
PublishClobbers(d) ==
    /\ pc[d] = "ready"
    /\ final' = d
    /\ staging' = [staging EXCEPT ![d] = NoSocket]
    /\ Goto(d, "published")
    /\ UNCHANGED <<pending, configured, loop, disturbed>>

(* _exclusive_rename_at: RENAME_NOREPLACE of the staging name to the final  *)
(* path.                                                                    *)
Publish(d) ==
    /\ pc[d] = "ready"
    /\ \/ /\ final = NoSocket
          /\ final' = d
          /\ staging' = [staging EXCEPT ![d] = NoSocket]
          /\ Goto(d, "published")
       \/ /\ final # NoSocket
          /\ Goto(d, "unstage")
          /\ UNCHANGED <<final, staging>>
    /\ UNCHANGED <<pending, configured, loop, disturbed>>

(* The identity at the final path is compared once more; a failing stat     *)
(* withdraws the publication too.                                           *)
VerifyPublication(d) ==
    /\ pc[d] = "published"
    /\ \/ final = d /\ Goto(d, "serving")
       \/ Goto(d, "cleanup")
    /\ UNCHANGED <<names, configured, loop, disturbed>>

(* Nothing was published: the staging name is removed, through a private    *)
(* name nobody else can create.                                             *)
Unstage(d) ==
    /\ pc[d] = "unstage"
    /\ staging' = [staging EXCEPT ![d] = NoSocket]
    /\ Goto(d, "dead")
    /\ UNCHANGED <<final, pending, configured, loop, disturbed>>

-----------------------------------------------------------------------------
(* _serve_requests: the accept loop                                         *)

Min(m, n) == IF m < n THEN m ELSE n

(* accept returned a connection, or timed out: the counters are reset.      *)
AcceptReturns(d) ==
    /\ pc[d] = "serving"
    /\ failures' = [failures EXCEPT ![d] = 0]
    /\ backoff' = [backoff EXCEPT ![d] = 1]
    /\ UNCHANGED <<names, configured, pc, disturbed>>

(* accept raised OSError: back off, or give up after MaxFailures in a row.  *)
AcceptFails(d) ==
    /\ pc[d] = "serving"
    /\ failures' = [failures EXCEPT ![d] = @ + 1]
    /\ IF failures[d] + 1 >= MaxFailures
       THEN Goto(d, "cleanup") /\ UNCHANGED backoff
       ELSE /\ backoff' = [backoff EXCEPT ![d] = Min(MaxBackoff, 2 * @)]
            /\ UNCHANGED pc
    /\ UNCHANGED <<names, configured, disturbed>>

(* SIGTERM or SIGINT: should_stop() is seen between two accepts.            *)
Shutdown(d) ==
    /\ pc[d] = "serving"
    /\ Goto(d, "cleanup")
    /\ UNCHANGED <<names, configured, loop, disturbed>>

-----------------------------------------------------------------------------
(* _unlink_socket_if_identity on the final path                             *)

(* Mutant: the final path is unlinked without looking at what it is.        *)
ClaimForCleanupBlind(d) ==
    /\ pc[d] = "cleanup"
    /\ final' = NoSocket
    /\ Goto(d, "dead")
    /\ UNCHANGED <<staging, pending, configured, loop, disturbed>>

(* The path is moved to a private name first; if it is gone nothing is left *)
(* to do.                                                                   *)
ClaimForCleanup(d) ==
    /\ pc[d] = "cleanup"
    /\ \/ /\ final = NoSocket
          /\ Goto(d, "dead")
          /\ UNCHANGED names
       \/ /\ final # NoSocket
          /\ pending' = [pending EXCEPT ![d] = final]
          /\ final' = NoSocket
          /\ Goto(d, "claimed")
          /\ UNCHANGED staging
    /\ UNCHANGED <<configured, loop, disturbed>>

(* Mutant: a socket of somebody else is waited for instead of given back.   *)
InspectOnlyOwn(d) ==
    /\ pc[d] = "claimed"
    /\ pending[d] = d
    /\ pending' = [pending EXCEPT ![d] = NoSocket]
    /\ Goto(d, "dead")
    /\ UNCHANGED <<final, staging, configured, loop, disturbed>>

(* Its own socket is unlinked; any other one, or one whose stat fails, is   *)
(* given back.                                                              *)
Inspect(d) ==
    /\ pc[d] = "claimed"
    /\ \/ /\ pending[d] = d
          /\ pending' = [pending EXCEPT ![d] = NoSocket]
          /\ Goto(d, "dead")
       \/ /\ Goto(d, "restore")
          /\ UNCHANGED pending
    /\ UNCHANGED <<final, staging, configured, loop, disturbed>>

(* restore_claim: RENAME_NOREPLACE back; if the path was taken meanwhile    *)
(* the other socket stays under the private name and the daemon reports it. *)
Restore(d) ==
    /\ pc[d] = "restore"
    /\ \/ /\ final = NoSocket
          /\ final' = pending[d]
          /\ pending' = [pending EXCEPT ![d] = NoSocket]
       \/ /\ final # NoSocket
          /\ UNCHANGED <<final, pending>>
    /\ Goto(d, "dead")
    /\ UNCHANGED <<staging, configured, loop, disturbed>>

-----------------------------------------------------------------------------
(* The environment                                                          *)

(* SIGKILL or a crash: every name stays as it is.                           *)
Crash(d) ==
    /\ pc[d] \notin {"start", "dead"}
    /\ Goto(d, "dead")
    /\ UNCHANGED <<names, configured, loop, disturbed>>

(* The operator removes the path of a daemon that no longer runs, as the    *)
(* runbook asks, or, against it, the path of one that does.                 *)
RemovePath ==
    /\ final # NoSocket
    /\ final' = NoSocket
    /\ disturbed' = (disturbed \/ pc[final] # "dead")
    /\ UNCHANGED <<staging, pending, configured, pc, loop>>

-----------------------------------------------------------------------------
Daemon(d) ==
    \/ CheckFinal(d) \/ Bind(d) \/ StatStaging(d) \/ Configure(d) \/ Publish(d)
    \/ VerifyPublication(d) \/ Unstage(d)
    \/ AcceptReturns(d) \/ AcceptFails(d) \/ Shutdown(d)
    \/ ClaimForCleanup(d) \/ Inspect(d) \/ Restore(d)

Next ==
    \/ \E d \in Daemons : Daemon(d) \/ Crash(d)
    \/ RemovePath

Spec == Init /\ [][Next]_vars

(* A daemon that is told to stop finishes its cleanup.                      *)
Cleaning(d) == Unstage(d) \/ ClaimForCleanup(d) \/ Inspect(d) \/ Restore(d)

FairSpec == Spec /\ \A d \in Daemons : WF_vars(Cleaning(d))

-----------------------------------------------------------------------------
(* Properties                                                               *)

(* Where a socket inode is linked.                                          *)
Linked ==
    {d \in Daemons : d = final \/ \E e \in Daemons : d = staging[e] \/ d = pending[e]}

(* No daemon ever unlinks or overwrites the socket of another one, in any   *)
(* order of publication, cleanup, crash and removal by hand: rename without *)
(* replacing, identity check before unlink ("so a replacement is            *)
(* preserved").                                                             *)
OnlyOwnSocketUnlinked ==
    [][\A d \in Linked \ Linked' : Daemon(d) \/ RemovePath]_vars

(* What clients find at the fixed path has its final owner, group and mode, *)
(* in any order of publications; and as long as nobody removes the path of  *)
(* a running daemon, at most one daemon serves, and clients reach it there.  *)
ServedIsReachable ==
    /\ final # NoSocket => final \in configured
    /\ ~disturbed => \A d \in Daemons : pc[d] = "serving" => final = d

(* A daemon that starts its cleanup ends, whoever else renames the path.    *)
CleanupEnds ==
    \A d \in Daemons : pc[d] \in {"unstage", "cleanup", "claimed", "restore"} ~> pc[d] = "dead"
=============================================================================
