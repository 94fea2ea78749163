------------------------- MODULE BrokerSocketProofs -------------------------
(***************************************************************************)
(* Proofs about BrokerSocket for every number of daemons and every limit of *)
(* the accept loop.                                                         *)
(*                                                                          *)
(* ServedIsReachable is not inductive: cleanup moves away whatever it finds *)
(* at the fixed path before it looks at it, and a failed look puts it back. *)
(* That this never moves the socket of a serving daemon rests on the path   *)
(* being owned from the publication on, and that it never exposes a socket  *)
(* without its mode and group rests on where a private name can come from.  *)
(***************************************************************************)
EXTENDS BrokerSocket, TLAPS

(* The accept loop gives up before the counter passes its limit.            *)
CounterInv ==
    \A d \in Daemons :
        pc[d] \notin {"cleanup", "claimed", "restore", "dead"} => failures[d] < MaxFailures

(* Each private name belongs to one daemon: staging holds its own socket,   *)
(* and the cleanup name is in use only between the claim and its outcome    *)
(* (a crash or a path taken meanwhile may leave it behind).                 *)
PrivateInv ==
    \A d \in Daemons :
        /\ staging[d] \in {d, NoSocket}
        /\ pc[d] \notin {"claimed", "restore", "dead"} => pending[d] = NoSocket

(* Mode and group are set before the first rename and travel with the       *)
(* socket through every later one.                                          *)
ConfiguredInv ==
    /\ final # NoSocket => final \in configured
    /\ \A d \in Daemons :
          /\ pc[d] = "ready" => d \in configured
          /\ pc[d] \in {"claimed", "restore"} => pending[d] \in configured

(* From its publication until its own cleanup claims it, the fixed path is  *)
(* the daemon's, unless somebody removes the path of a running daemon.      *)
OwnedInv ==
    ~disturbed =>
        \A d \in Daemons : pc[d] \in {"published", "serving", "cleanup"} => final = d

SocketInv ==
    /\ TypeOK
    /\ CounterInv
    /\ PrivateInv
    /\ ConfiguredInv
    /\ OwnedInv

-----------------------------------------------------------------------------
(* Every step of a daemon, a crash and the operator preserve SocketInv.     *)
LEMMA SocketInvStep ==
    ASSUME SocketInv, [Next]_vars
    PROVE  SocketInv'
<1> USE SocketAssumption DEF SocketInv, names, loop, Goto
<1>1. ASSUME NEW d \in Daemons, CheckFinal(d)
      PROVE  SocketInv'
  <2>1. TypeOK'
    BY <1>1 DEF CheckFinal, TypeOK, CounterInv
  <2>2. CounterInv' /\ PrivateInv'
    BY <1>1 DEF CheckFinal, TypeOK, CounterInv, PrivateInv
  <2>3. ConfiguredInv'
    BY <1>1 DEF CheckFinal, TypeOK, ConfiguredInv
  <2>4. OwnedInv'
    BY <1>1 DEF CheckFinal, TypeOK, OwnedInv
  <2> QED
    BY <2>1, <2>2, <2>3, <2>4
<1>2. ASSUME NEW d \in Daemons, Bind(d)
      PROVE  SocketInv'
  <2>1. TypeOK'
    BY <1>2 DEF Bind, TypeOK, CounterInv
  <2>2. CounterInv' /\ PrivateInv'
    BY <1>2 DEF Bind, TypeOK, CounterInv, PrivateInv
  <2>3. ConfiguredInv'
    BY <1>2 DEF Bind, TypeOK, ConfiguredInv
  <2>4. OwnedInv'
    BY <1>2 DEF Bind, TypeOK, OwnedInv
  <2> QED
    BY <2>1, <2>2, <2>3, <2>4
<1>3. ASSUME NEW d \in Daemons, StatStaging(d)
      PROVE  SocketInv'
  <2>1. TypeOK'
    BY <1>3 DEF StatStaging, TypeOK, CounterInv
  <2>2. CounterInv' /\ PrivateInv'
    BY <1>3 DEF StatStaging, TypeOK, CounterInv, PrivateInv
  <2>3. ConfiguredInv'
    BY <1>3 DEF StatStaging, TypeOK, ConfiguredInv
  <2>4. OwnedInv'
    BY <1>3 DEF StatStaging, TypeOK, OwnedInv
  <2> QED
    BY <2>1, <2>2, <2>3, <2>4
<1>4. ASSUME NEW d \in Daemons, Configure(d)
      PROVE  SocketInv'
  <2>1. TypeOK'
    BY <1>4 DEF Configure, TypeOK, CounterInv
  <2>2. CounterInv' /\ PrivateInv'
    BY <1>4 DEF Configure, TypeOK, CounterInv, PrivateInv
  <2>3. ConfiguredInv'
    BY <1>4 DEF Configure, TypeOK, ConfiguredInv
  <2>4. OwnedInv'
    BY <1>4 DEF Configure, TypeOK, OwnedInv
  <2> QED
    BY <2>1, <2>2, <2>3, <2>4
<1>5. ASSUME NEW d \in Daemons, Publish(d)
      PROVE  SocketInv'
  <2>1. TypeOK'
    BY <1>5 DEF Publish, TypeOK, CounterInv
  <2>2. CounterInv' /\ PrivateInv'
    BY <1>5 DEF Publish, TypeOK, CounterInv, PrivateInv
  <2>3. ConfiguredInv'
    BY <1>5 DEF Publish, TypeOK, ConfiguredInv
  <2>4. OwnedInv'
    BY <1>5 DEF Publish, TypeOK, OwnedInv
  <2> QED
    BY <2>1, <2>2, <2>3, <2>4
<1>6. ASSUME NEW d \in Daemons, VerifyPublication(d)
      PROVE  SocketInv'
  <2>1. TypeOK'
    BY <1>6 DEF VerifyPublication, TypeOK, CounterInv
  <2>2. CounterInv' /\ PrivateInv'
    BY <1>6 DEF VerifyPublication, TypeOK, CounterInv, PrivateInv
  <2>3. ConfiguredInv'
    BY <1>6 DEF VerifyPublication, TypeOK, ConfiguredInv
  <2>4. OwnedInv'
    BY <1>6 DEF VerifyPublication, TypeOK, OwnedInv
  <2> QED
    BY <2>1, <2>2, <2>3, <2>4
<1>7. ASSUME NEW d \in Daemons, Unstage(d)
      PROVE  SocketInv'
  <2>1. TypeOK'
    BY <1>7 DEF Unstage, TypeOK, CounterInv
  <2>2. CounterInv' /\ PrivateInv'
    BY <1>7 DEF Unstage, TypeOK, CounterInv, PrivateInv
  <2>3. ConfiguredInv'
    BY <1>7 DEF Unstage, TypeOK, ConfiguredInv
  <2>4. OwnedInv'
    BY <1>7 DEF Unstage, TypeOK, OwnedInv
  <2> QED
    BY <2>1, <2>2, <2>3, <2>4
<1>8. ASSUME NEW d \in Daemons, AcceptReturns(d)
      PROVE  SocketInv'
  <2>1. TypeOK'
    BY <1>8 DEF AcceptReturns, TypeOK, CounterInv
  <2>2. CounterInv' /\ PrivateInv'
    BY <1>8 DEF AcceptReturns, TypeOK, CounterInv, PrivateInv
  <2>3. ConfiguredInv'
    BY <1>8 DEF AcceptReturns, TypeOK, ConfiguredInv
  <2>4. OwnedInv'
    BY <1>8 DEF AcceptReturns, TypeOK, OwnedInv
  <2> QED
    BY <2>1, <2>2, <2>3, <2>4
<1>9. ASSUME NEW d \in Daemons, AcceptFails(d)
      PROVE  SocketInv'
  <2>1. TypeOK'
    BY <1>9 DEF AcceptFails, Min, TypeOK, CounterInv
  <2>2. CounterInv' /\ PrivateInv'
    BY <1>9 DEF AcceptFails, TypeOK, CounterInv, PrivateInv
  <2>3. ConfiguredInv'
    BY <1>9 DEF AcceptFails, TypeOK, ConfiguredInv
  <2>4. OwnedInv'
    BY <1>9 DEF AcceptFails, TypeOK, OwnedInv
  <2> QED
    BY <2>1, <2>2, <2>3, <2>4
<1>10. ASSUME NEW d \in Daemons, Shutdown(d)
      PROVE  SocketInv'
  <2>1. TypeOK'
    BY <1>10 DEF Shutdown, TypeOK, CounterInv
  <2>2. CounterInv' /\ PrivateInv'
    BY <1>10 DEF Shutdown, TypeOK, CounterInv, PrivateInv
  <2>3. ConfiguredInv'
    BY <1>10 DEF Shutdown, TypeOK, ConfiguredInv
  <2>4. OwnedInv'
    BY <1>10 DEF Shutdown, TypeOK, OwnedInv
  <2> QED
    BY <2>1, <2>2, <2>3, <2>4
<1>11. ASSUME NEW d \in Daemons, ClaimForCleanup(d)
      PROVE  SocketInv'
  <2>1. TypeOK'
    BY <1>11 DEF ClaimForCleanup, TypeOK, CounterInv
  <2>2. CounterInv' /\ PrivateInv'
    BY <1>11 DEF ClaimForCleanup, TypeOK, CounterInv, PrivateInv
  <2>3. ConfiguredInv'
    BY <1>11 DEF ClaimForCleanup, TypeOK, ConfiguredInv
  <2>4. OwnedInv'
    BY <1>11 DEF ClaimForCleanup, TypeOK, OwnedInv
  <2> QED
    BY <2>1, <2>2, <2>3, <2>4
<1>12. ASSUME NEW d \in Daemons, Inspect(d)
      PROVE  SocketInv'
  <2>1. TypeOK'
    BY <1>12 DEF Inspect, TypeOK, CounterInv
  <2>2. CounterInv' /\ PrivateInv'
    BY <1>12 DEF Inspect, TypeOK, CounterInv, PrivateInv
  <2>3. ConfiguredInv'
    BY <1>12 DEF Inspect, TypeOK, ConfiguredInv
  <2>4. OwnedInv'
    BY <1>12 DEF Inspect, TypeOK, OwnedInv
  <2> QED
    BY <2>1, <2>2, <2>3, <2>4
<1>13. ASSUME NEW d \in Daemons, Restore(d)
      PROVE  SocketInv'
  <2>1. TypeOK'
    BY <1>13 DEF Restore, TypeOK, CounterInv
  <2>2. CounterInv' /\ PrivateInv'
    BY <1>13 DEF Restore, TypeOK, CounterInv, PrivateInv
  <2>3. ConfiguredInv'
    BY <1>13 DEF Restore, TypeOK, ConfiguredInv
  <2>4. OwnedInv'
    BY <1>13 DEF Restore, TypeOK, OwnedInv
  <2> QED
    BY <2>1, <2>2, <2>3, <2>4
<1>14. ASSUME NEW d \in Daemons, Crash(d)
      PROVE  SocketInv'
  <2>1. TypeOK'
    BY <1>14 DEF Crash, TypeOK, CounterInv
  <2>2. CounterInv' /\ PrivateInv'
    BY <1>14 DEF Crash, TypeOK, CounterInv, PrivateInv
  <2>3. ConfiguredInv'
    BY <1>14 DEF Crash, TypeOK, ConfiguredInv
  <2>4. OwnedInv'
    BY <1>14 DEF Crash, TypeOK, OwnedInv
  <2> QED
    BY <2>1, <2>2, <2>3, <2>4
<1>15. CASE RemovePath
  <2>1. TypeOK' /\ CounterInv' /\ PrivateInv' /\ ConfiguredInv'
    BY <1>15 DEF RemovePath, TypeOK, CounterInv, PrivateInv, ConfiguredInv
  <2>2. OwnedInv'
    BY <1>15 DEF RemovePath, TypeOK, OwnedInv
  <2> QED
    BY <2>1, <2>2
<1>16. CASE UNCHANGED vars
  BY <1>16 DEF vars, TypeOK, CounterInv, PrivateInv, ConfiguredInv, OwnedInv
<1> QED
  BY <1>1, <1>2, <1>3, <1>4, <1>5, <1>6, <1>7, <1>8, <1>9, <1>10, <1>11, <1>12, <1>13, <1>14, <1>15, <1>16 DEF Next, Daemon

(* SocketInv is an invariant of the broker's socket.                        *)
LEMMA SocketInvariant == Spec => []SocketInv
<1>1. Init => SocketInv
  <2>1. Init => TypeOK
    <3>1. Init => disturbed \in BOOLEAN
      BY DEF Init
    <3>2. Init => failures \in [Daemons -> 0 .. MaxFailures] /\ backoff \in [Daemons -> 1 .. MaxBackoff]
      BY SocketAssumption DEF Init
    <3> QED
      BY <3>1, <3>2 DEF Init, TypeOK
  <2>2. Init => CounterInv
    BY SocketAssumption DEF Init, CounterInv
  <2>3. Init => PrivateInv /\ ConfiguredInv /\ OwnedInv
    BY DEF Init, PrivateInv, ConfiguredInv, OwnedInv
  <2> QED
    BY <2>1, <2>2, <2>3 DEF SocketInv
<1>2. SocketInv /\ [Next]_vars => SocketInv'
  BY SocketInvStep
<1> QED
  BY <1>1, <1>2, PTL DEF Spec

-----------------------------------------------------------------------------
(* Type correctness; in particular consecutive_accept_failures never passes *)
(* MAX_CONSECUTIVE_ACCEPT_FAILURES and the backoff stays within its bounds. *)
THEOREM SocketTypeCorrect == Spec => []TypeOK
<1>1. SocketInv => TypeOK
  BY DEF SocketInv
<1> QED
  BY <1>1, SocketInvariant, PTL

(* Whatever the order of publications, cleanups, crashes and removals,      *)
(* clients find at the fixed path only a socket whose owner, group and mode *)
(* are final; and while nobody removes the path of a running daemon, a      *)
(* daemon in its accept loop is the one clients reach.                      *)
THEOREM ServingIsReached == Spec => []ServedIsReachable
<1>1. SocketInv => ServedIsReachable
  BY DEF SocketInv, ConfiguredInv, OwnedInv, ServedIsReachable
<1> QED
  BY <1>1, SocketInvariant, PTL

(* No daemon removes the last name of another one's socket: publication     *)
(* never replaces, and cleanup unlinks only after the identity check.       *)
THEOREM ForeignSocketsKept == Spec => OnlyOwnSocketUnlinked
<1> DEFINE OwnOnly == \A d \in Linked \ Linked' : Daemon(d) \/ RemovePath
<1>1. SocketInv /\ [Next]_vars => [OwnOnly]_vars
  <2> SUFFICES ASSUME SocketInv, Next
               PROVE  OwnOnly
    OBVIOUS
  <2> USE SocketAssumption DEF SocketInv, names, loop, Goto
  <2>1. CASE UNCHANGED names
    BY <2>1 DEF Linked
  <2>2. ASSUME NEW e \in Daemons, Daemon(e)
        PROVE  \A d \in Linked \ Linked' : d = e
    <3>1. CASE Bind(e)
      BY <3>1 DEF Bind, Linked, TypeOK, PrivateInv
    <3>2. CASE StatStaging(e)
      BY <3>2 DEF StatStaging, Linked, TypeOK, PrivateInv
    <3>3. CASE Publish(e)
      BY <3>3 DEF Publish, Linked, TypeOK, PrivateInv
    <3>4. CASE Unstage(e)
      BY <3>4 DEF Unstage, Linked, TypeOK, PrivateInv
    <3>5. CASE ClaimForCleanup(e)
      BY <3>5 DEF ClaimForCleanup, Linked, TypeOK, PrivateInv
    <3>6. CASE Inspect(e)
      BY <3>6 DEF Inspect, Linked, TypeOK, PrivateInv
    <3>7. CASE Restore(e)
      BY <3>7 DEF Restore, Linked, TypeOK, PrivateInv
    <3>8. CASE CheckFinal(e) \/ Configure(e) \/ VerifyPublication(e) \/ AcceptReturns(e) \/ AcceptFails(e) \/ Shutdown(e)
      BY <2>1, <3>8 DEF CheckFinal, Configure, VerifyPublication, AcceptReturns, AcceptFails, Shutdown, Linked
    <3> QED
      BY <2>2, <3>1, <3>2, <3>3, <3>4, <3>5, <3>6, <3>7, <3>8 DEF Daemon
  <2>3. ASSUME NEW e \in Daemons, Crash(e)
        PROVE  UNCHANGED names
    BY <2>3 DEF Crash
  <2> QED
    BY <2>1, <2>2, <2>3 DEF Next
<1> QED
  BY <1>1, SocketInvariant, PTL DEF Spec, OnlyOwnSocketUnlinked
=============================================================================
