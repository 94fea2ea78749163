--------------------------- MODULE AutonomyProofs ---------------------------
(***************************************************************************)
(* Proofs about the way an L3 operation is authorized: the broker's ledger  *)
(* of nonces (NonceBroker), the one-shot approval that spends a nonce       *)
(* (L3Approval, an extension of the broker) and the classifier that asks    *)
(* for it (Escalation); and about the claims on work packages (WorkClaims). *)
(* They share no state but that of the broker.                              *)
(*                                                                          *)
(* The broker, for every set of nonces, daemons and connections and every   *)
(* capacity.  ConsumedOnce is not inductive: a daemon that has appended its *)
(* record and not yet answered must be known to hold the lock alone and to  *)
(* have written a nonce nobody has won; and a nonce somebody has won must   *)
(* be known to be on the disk, or a power loss would let it be won again.   *)
(***************************************************************************)
EXTENDS L3Approval, Escalation, WorkClaims, TLAPS

(* The daemon inside consume, between flock and the unlock, is the one the  *)
(* kernel lists as the holder.                                              *)
LockInv ==
    \A b \in Brokers : bpc[b] \in {"locked", "fresh", "written"} <=> exlock = b

(* The connection a busy daemon serves is its own and is not yet settled.   *)
ServingInv ==
    \A b \in Brokers :
        bpc[b] \in {"recv", "locked", "fresh", "written", "reply"} =>
            /\ serving[b] \in Conns
            /\ cst[serving[b]] = "serving"
            /\ cto[serving[b]] = b
            /\ bpc[b] \in {"locked", "fresh", "written"} => cnonce[serving[b]] \in Nonces

(* No response before the request has been handled.                         *)
UndecidedInv ==
    /\ \A b \in Brokers :
          bpc[b] \in {"recv", "locked", "fresh", "written"} => cresp[serving[b]] = "none"
    /\ \A k \in Conns : cst[k] \in {"unused", "queued"} => cresp[k] = "none"

(* A daemon that found its nonce fresh is right until it appends: nobody    *)
(* else writes while it holds the lock.                                     *)
FreshInv ==
    \A b \in Brokers : bpc[b] = "fresh" => cnonce[serving[b]] \notin Records(ledger)

(* Between the append and the fsync the last record is the daemon's own,    *)
(* and its nonce has not been won by anybody.                               *)
WrittenInv ==
    \A b \in Brokers : bpc[b] = "written" =>
        /\ Len(ledger) > 0
        /\ ledger[Len(ledger)] = cnonce[serving[b]]
        /\ \A k \in Won : cnonce[k] # cnonce[serving[b]]

SyncedInv == synced <= Len(ledger)

(* A daemon that runs has opened the ledger, and nothing removes it.        *)
PresentInv == entry = "absent" => \A b \in Brokers : bpc[b] = "down"

(* How the daemons are placed in their code; holds on any file system.      *)
BaseInv ==
    /\ BrokerTypeOK
    /\ SyncedInv
    /\ PresentInv
    /\ LockInv
    /\ ServingInv
    /\ UndecidedInv
    /\ FreshInv

BrokerInv ==
    /\ BaseInv
    /\ WrittenInv
    /\ ConsumedIsDurable
    /\ ConsumedOnce

-----------------------------------------------------------------------------
(* What a power loss leaves of the ledger: everything synced, nothing that  *)
(* was not there except one fragment at the end.                            *)
LEMMA DiskImageFacts ==
    ASSUME ledger \in Seq(Nonces \cup {Torn}), synced \in Nat, synced <= Len(ledger),
           NEW l \in DiskImages
    PROVE  /\ l \in Seq(Nonces \cup {Torn})
           /\ synced <= Len(l)
           /\ Len(l) <= Len(ledger)
           /\ \A i \in 1 .. synced : l[i] = ledger[i]
           /\ \A i \in 1 .. Len(l) : l[i] = ledger[i] \/ (i = Len(l) /\ l[i] = Torn)
<1>1. CASE \E n \in synced .. Len(ledger) : l = SubSeq(ledger, 1, n)
  <2>1. PICK n \in synced .. Len(ledger) : l = SubSeq(ledger, 1, n)
    BY <1>1
  <2>2. /\ l \in Seq(Nonces \cup {Torn})
        /\ Len(l) = n
        /\ \A i \in 1 .. n : l[i] = ledger[i]
    BY <2>1
  <2> QED
    BY <2>1, <2>2
<1>2. CASE \E n \in {m \in synced .. Len(ledger) : m < Len(ledger)} :
              l = Append(SubSeq(ledger, 1, n), Torn)
  <2>1. PICK n \in {m \in synced .. Len(ledger) : m < Len(ledger)} :
              l = Append(SubSeq(ledger, 1, n), Torn)
    BY <1>2
  <2> DEFINE p == SubSeq(ledger, 1, n)
  <2>2. /\ p \in Seq(Nonces \cup {Torn})
        /\ Len(p) = n
        /\ \A i \in 1 .. n : p[i] = ledger[i]
    BY <2>1
  <2> HIDE DEF p
  <2>3. /\ l \in Seq(Nonces \cup {Torn})
        /\ Len(l) = n + 1
        /\ \A i \in 1 .. n : l[i] = p[i]
        /\ l[n + 1] = Torn
    BY <2>1, <2>2 DEF p
  <2> QED
    BY <2>1, <2>2, <2>3
<1> QED
  BY <1>1, <1>2 DEF DiskImages

-----------------------------------------------------------------------------
(* Every step of a daemon, a client or the environment preserves BaseInv.   *)
LEMMA BaseInvStep ==
    ASSUME BaseInv, [BrokerNext]_brokerVars
    PROVE  BaseInv'
<1> USE BrokerAssumption DEF BaseInv, ledgerVars, connVars
<1>1. ASSUME NEW b \in Brokers, OpenLedger(b)
      PROVE  BaseInv'
  <2>0. ledger' \in Seq(Nonces \cup {Torn}) /\ synced' \in Nat
    <3>1. CASE ledger' = <<>> /\ synced' = 0
      BY <3>1
    <3>2. CASE ledger' = ledger /\ synced' = synced
      BY <3>2 DEF BrokerTypeOK
    <3> QED
      BY <1>1, <3>1, <3>2 DEF OpenLedger
  <2>1. BrokerTypeOK'
    BY <1>1, <2>0 DEF OpenLedger, BrokerTypeOK
  <2>2. PresentInv' /\ LockInv' /\ ServingInv' /\ UndecidedInv' /\ FreshInv'
    BY <1>1 DEF OpenLedger, BrokerTypeOK, PresentInv, LockInv, ServingInv, UndecidedInv, FreshInv
  <2>3. SyncedInv'
    BY <1>1, <2>0 DEF OpenLedger, SyncedInv
  <2> QED
    BY <2>1, <2>2, <2>3 DEF BaseInv
<1>2. ASSUME NEW b \in Brokers, SyncDirectory(b)
      PROVE  BaseInv'
  <2>1. BrokerTypeOK'
    BY <1>2 DEF SyncDirectory, BrokerTypeOK
  <2>2. PresentInv' /\ LockInv' /\ ServingInv' /\ UndecidedInv' /\ FreshInv'
    BY <1>2 DEF SyncDirectory, BrokerTypeOK, PresentInv, LockInv, ServingInv, UndecidedInv, FreshInv
  <2>3. SyncedInv'
    BY <1>2 DEF SyncDirectory, SyncedInv
  <2> QED
    BY <2>1, <2>2, <2>3 DEF BaseInv
<1>3. ASSUME NEW b \in Brokers, ScanAtStart(b)
      PROVE  BaseInv'
  <2>1. BrokerTypeOK'
    BY <1>3 DEF ScanAtStart, BrokerTypeOK, Listening
  <2>2. PresentInv' /\ LockInv' /\ ServingInv' /\ UndecidedInv' /\ FreshInv'
    BY <1>3 DEF ScanAtStart, PresentInv, LockInv, ServingInv, UndecidedInv, FreshInv
  <2>3. SyncedInv'
    BY <1>3 DEF ScanAtStart, SyncedInv
  <2> QED
    BY <2>1, <2>2, <2>3 DEF BaseInv
<1>4. ASSUME NEW b \in Brokers, NEW k \in Conns, Accept(b, k)
      PROVE  BaseInv'
  <2>1. BrokerTypeOK'
    BY <1>4 DEF Accept, BrokerTypeOK, Listening
  <2>2. PresentInv' /\ LockInv' /\ ServingInv' /\ UndecidedInv' /\ FreshInv'
    BY <1>4 DEF Accept, BrokerTypeOK, PresentInv, LockInv, ServingInv, UndecidedInv, FreshInv
  <2>3. SyncedInv'
    BY <1>4 DEF Accept, SyncedInv
  <2> QED
    BY <2>1, <2>2, <2>3 DEF BaseInv
<1>5. ASSUME NEW b \in Brokers, RejectUnread(b)
      PROVE  BaseInv'
  <2>1. BrokerTypeOK'
    BY <1>5 DEF RejectUnread, Respond, BrokerTypeOK, Listening, Responses
  <2>2. PresentInv' /\ LockInv' /\ ServingInv' /\ UndecidedInv' /\ FreshInv'
    BY <1>5 DEF RejectUnread, Respond, BrokerTypeOK, PresentInv, LockInv, ServingInv, UndecidedInv, FreshInv
  <2>3. SyncedInv'
    BY <1>5 DEF RejectUnread, SyncedInv
  <2> QED
    BY <2>1, <2>2, <2>3 DEF BaseInv
<1>6. ASSUME NEW b \in Brokers, AnswerHealth(b)
      PROVE  BaseInv'
  <2>1. BrokerTypeOK'
    BY <1>6 DEF AnswerHealth, Respond, BrokerTypeOK, Listening, Responses
  <2>2. PresentInv' /\ LockInv' /\ ServingInv' /\ UndecidedInv' /\ FreshInv'
    BY <1>6 DEF AnswerHealth, Respond, BrokerTypeOK, PresentInv, LockInv, ServingInv, UndecidedInv, FreshInv
  <2>3. SyncedInv'
    BY <1>6 DEF AnswerHealth, SyncedInv
  <2> QED
    BY <2>1, <2>2, <2>3 DEF BaseInv
<1>7. ASSUME NEW b \in Brokers, LockLedger(b)
      PROVE  BaseInv'
  <2>1. BrokerTypeOK'
    BY <1>7 DEF LockLedger, BrokerTypeOK, Listening
  <2>2. PresentInv' /\ LockInv' /\ ServingInv' /\ UndecidedInv' /\ FreshInv'
    BY <1>7 DEF LockLedger, BrokerTypeOK, PresentInv, LockInv, ServingInv, UndecidedInv, FreshInv
  <2>3. SyncedInv'
    BY <1>7 DEF LockLedger, SyncedInv
  <2> QED
    BY <2>1, <2>2, <2>3 DEF BaseInv
<1>8. ASSUME NEW b \in Brokers, RefuseConsume(b)
      PROVE  BaseInv'
  <2>1. BrokerTypeOK'
    <3>1. \E r \in Responses : Respond(b, r)
      BY <1>8 DEF RefuseConsume, Responses
    <3> QED
      BY <1>8, <3>1 DEF RefuseConsume, Respond, BrokerTypeOK, ServingInv, Listening
  <2>2. PresentInv' /\ LockInv' /\ ServingInv' /\ UndecidedInv' /\ FreshInv'
    BY <1>8 DEF RefuseConsume, Respond, BrokerTypeOK, PresentInv, LockInv, ServingInv, UndecidedInv,
       FreshInv
  <2>3. SyncedInv'
    BY <1>8 DEF RefuseConsume, SyncedInv
  <2> QED
    BY <2>1, <2>2, <2>3 DEF BaseInv
<1>9. ASSUME NEW b \in Brokers, AppendRecord(b)
      PROVE  BaseInv'
  <2>0. /\ ledger' \in Seq(Nonces \cup {Torn})
        /\ Len(ledger') = Len(ledger) + 1
        /\ ledger'[Len(ledger')] = cnonce[serving[b]]
        /\ \A i \in 1 .. Len(ledger) : ledger'[i] = ledger[i]
    BY <1>9 DEF AppendRecord, Appended, BrokerTypeOK, ServingInv
  <2>1. BrokerTypeOK'
    BY <1>9, <2>0 DEF AppendRecord, BrokerTypeOK, Listening
  <2>2. PresentInv' /\ LockInv' /\ ServingInv' /\ UndecidedInv' /\ FreshInv'
    BY <1>9 DEF AppendRecord, BrokerTypeOK, PresentInv, LockInv, ServingInv, UndecidedInv, FreshInv
  <2>3. SyncedInv'
    BY <1>9, <2>0 DEF AppendRecord, SyncedInv, BrokerTypeOK
  <2> QED
    BY <2>1, <2>2, <2>3 DEF BaseInv
<1>10. ASSUME NEW b \in Brokers, AppendFails(b)
      PROVE  BaseInv'
  <2>0. /\ ledger' \in Seq(Nonces \cup {Torn})
        /\ Len(ledger) <= Len(ledger')
        /\ \A i \in 1 .. Len(ledger) : ledger'[i] = ledger[i]
    <3>1. CASE ledger' = Append(ledger, Torn)
      BY <3>1 DEF BrokerTypeOK
    <3>2. CASE ledger' = ledger
      BY <3>2 DEF BrokerTypeOK
    <3> QED
      BY <1>10, <3>1, <3>2 DEF AppendFails, Appended
  <2>1. BrokerTypeOK'
    BY <1>10, <2>0 DEF AppendFails, Respond, BrokerTypeOK, Listening, Responses
  <2>2. PresentInv' /\ LockInv' /\ ServingInv' /\ UndecidedInv' /\ FreshInv'
    BY <1>10 DEF AppendFails, Respond, BrokerTypeOK, PresentInv, LockInv, ServingInv, UndecidedInv, FreshInv
  <2>3. SyncedInv'
    BY <1>10, <2>0 DEF AppendFails, SyncedInv, BrokerTypeOK
  <2> QED
    BY <2>1, <2>2, <2>3 DEF BaseInv
<1>11. ASSUME NEW b \in Brokers, FsyncLedger(b)
      PROVE  BaseInv'
  <2>1. BrokerTypeOK'
    BY <1>11 DEF FsyncLedger, Respond, BrokerTypeOK, ServingInv, Listening, Responses
  <2>2. PresentInv' /\ LockInv' /\ ServingInv' /\ UndecidedInv' /\ FreshInv'
    BY <1>11 DEF FsyncLedger, Respond, BrokerTypeOK, PresentInv, LockInv, ServingInv, UndecidedInv, FreshInv
  <2>3. SyncedInv'
    BY <1>11 DEF FsyncLedger, SyncedInv
  <2> QED
    BY <2>1, <2>2, <2>3 DEF BaseInv
<1>12. ASSUME NEW b \in Brokers, FsyncFails(b)
      PROVE  BaseInv'
  <2>1. BrokerTypeOK'
    BY <1>12 DEF FsyncFails, Respond, BrokerTypeOK, Listening, Responses
  <2>2. PresentInv' /\ LockInv' /\ ServingInv' /\ UndecidedInv' /\ FreshInv'
    BY <1>12 DEF FsyncFails, Respond, BrokerTypeOK, PresentInv, LockInv, ServingInv, UndecidedInv, FreshInv
  <2>3. SyncedInv'
    BY <1>12 DEF FsyncFails, SyncedInv
  <2> QED
    BY <2>1, <2>2, <2>3 DEF BaseInv
<1>13. ASSUME NEW b \in Brokers, Reply(b)
      PROVE  BaseInv'
  <2>1. BrokerTypeOK'
    BY <1>13 DEF Reply, BrokerTypeOK, Listening
  <2>2. PresentInv' /\ LockInv' /\ ServingInv' /\ UndecidedInv' /\ FreshInv'
    BY <1>13 DEF Reply, BrokerTypeOK, PresentInv, LockInv, ServingInv, UndecidedInv, FreshInv
  <2>3. SyncedInv'
    BY <1>13 DEF Reply, SyncedInv
  <2> QED
    BY <2>1, <2>2, <2>3 DEF BaseInv
<1>14. ASSUME NEW b \in Brokers, BrokerExit(b)
      PROVE  BaseInv'
  <2>1. BrokerTypeOK'
    BY <1>14 DEF BrokerExit, BrokerTypeOK
  <2>2. PresentInv' /\ LockInv' /\ ServingInv' /\ UndecidedInv' /\ FreshInv'
    BY <1>14 DEF BrokerExit, Reset, BrokerTypeOK, PresentInv, LockInv, ServingInv, UndecidedInv, FreshInv
  <2>3. SyncedInv'
    BY <1>14 DEF BrokerExit, SyncedInv
  <2> QED
    BY <2>1, <2>2, <2>3 DEF BaseInv
<1>15. ASSUME NEW k \in Conns, NEW b \in Brokers, NEW n \in Nonces \cup {NoOne}, Connect(k, b, n)
      PROVE  BaseInv'
  <2>1. BrokerTypeOK'
    BY <1>15 DEF Connect, BrokerTypeOK
  <2>2. PresentInv' /\ LockInv' /\ ServingInv' /\ UndecidedInv' /\ FreshInv'
    BY <1>15 DEF Connect, PresentInv, LockInv, ServingInv, UndecidedInv, FreshInv
  <2>3. SyncedInv'
    BY <1>15 DEF Connect, SyncedInv
  <2> QED
    BY <2>1, <2>2, <2>3 DEF BaseInv
<1>16. ASSUME PowerLoss
      PROVE  BaseInv'
  <2>0. ledger' \in Seq(Nonces \cup {Torn}) /\ synced' \in Nat
    <3>1. CASE ledger' = <<>> /\ synced' = 0
      BY <3>1
    <3>2. CASE ledger' \in DiskImages /\ synced' = Len(ledger')
      BY <3>2, DiskImageFacts DEF BrokerTypeOK, SyncedInv
    <3> QED
      BY <1>16, <3>1, <3>2 DEF PowerLoss
  <2>1. BrokerTypeOK'
    BY <1>16, <2>0 DEF PowerLoss, BrokerTypeOK
  <2>2. PresentInv' /\ LockInv' /\ ServingInv' /\ UndecidedInv' /\ FreshInv'
    BY <1>16 DEF PowerLoss, PresentInv, LockInv, ServingInv, UndecidedInv, FreshInv
  <2>3. SyncedInv'
    BY <1>16, <2>0, DiskImageFacts DEF PowerLoss, SyncedInv
  <2> QED
    BY <2>1, <2>2, <2>3 DEF BaseInv
<1>17. ASSUME NEW b \in Brokers, FindFresh(b)
      PROVE  BaseInv'
  <2>1. BrokerTypeOK'
    BY <1>17 DEF FindFresh, BrokerTypeOK, Listening
  <2>2. PresentInv' /\ LockInv' /\ ServingInv' /\ UndecidedInv' /\ FreshInv'
    BY <1>17 DEF FindFresh, PresentInv, LockInv, ServingInv, UndecidedInv, FreshInv
  <2>3. SyncedInv'
    BY <1>17 DEF FindFresh, SyncedInv
  <2> QED
    BY <2>1, <2>2, <2>3 DEF BaseInv
<1>18. CASE UNCHANGED brokerVars
  BY <1>18 DEF brokerVars, BrokerTypeOK, SyncedInv, PresentInv, LockInv, ServingInv, UndecidedInv, FreshInv
<1> QED
  BY <1>1, <1>2, <1>3, <1>4, <1>5, <1>6, <1>7, <1>8, <1>9, <1>10, <1>11, <1>12, <1>13, <1>14, <1>15, <1>16, <1>17, <1>18 DEF 
     BrokerNext, Daemon

(* Every step preserves BrokerInv, given that fsync of the ledger also      *)
(* makes its directory entry durable.                                       *)
LEMMA BrokerInvStep ==
    ASSUME EntryFollowsFile, BrokerInv, [BrokerNext]_brokerVars
    PROVE  BrokerInv'
<1> USE BrokerAssumption DEF BrokerInv, BaseInv, ledgerVars, connVars
<1>0. BaseInv'
  BY BaseInvStep
<1>1. ASSUME NEW b \in Brokers, OpenLedger(b)
      PROVE  BrokerInv'
  <2>0. ledger' \in Seq(Nonces \cup {Torn}) /\ synced' \in Nat
    <3>1. CASE ledger' = <<>> /\ synced' = 0
      BY <3>1
    <3>2. CASE ledger' = ledger /\ synced' = synced
      BY <3>2 DEF BrokerTypeOK
    <3> QED
      BY <1>1, <3>1, <3>2 DEF OpenLedger
  <2>1. WrittenInv' /\ ConsumedIsDurable' /\ ConsumedOnce'
    BY <1>1 DEF OpenLedger, BrokerTypeOK, PresentInv, WrittenInv, ConsumedIsDurable, ConsumedOnce, Won
  <2> QED
    BY <1>0, <2>1
<1>2. ASSUME NEW b \in Brokers, SyncDirectory(b)
      PROVE  BrokerInv'
  <2>1. WrittenInv' /\ ConsumedIsDurable' /\ ConsumedOnce'
    BY <1>2 DEF SyncDirectory, BrokerTypeOK, WrittenInv, ConsumedIsDurable, ConsumedOnce, Won
  <2> QED
    BY <1>0, <2>1
<1>3. ASSUME NEW b \in Brokers, ScanAtStart(b)
      PROVE  BrokerInv'
  <2>1. WrittenInv' /\ ConsumedIsDurable' /\ ConsumedOnce'
    BY <1>3 DEF ScanAtStart, WrittenInv, ConsumedIsDurable, ConsumedOnce, Won
  <2> QED
    BY <1>0, <2>1
<1>4. ASSUME NEW b \in Brokers, NEW k \in Conns, Accept(b, k)
      PROVE  BrokerInv'
  <2>1. WrittenInv' /\ ConsumedIsDurable' /\ ConsumedOnce'
    BY <1>4 DEF Accept, WrittenInv, ConsumedIsDurable, ConsumedOnce, Won
  <2> QED
    BY <1>0, <2>1
<1>5. ASSUME NEW b \in Brokers, RejectUnread(b)
      PROVE  BrokerInv'
  <2>1. WrittenInv' /\ ConsumedIsDurable' /\ ConsumedOnce'
    BY <1>5 DEF RejectUnread, Respond, WrittenInv, ConsumedIsDurable, ConsumedOnce, Won
  <2> QED
    BY <1>0, <2>1
<1>6. ASSUME NEW b \in Brokers, AnswerHealth(b)
      PROVE  BrokerInv'
  <2>1. WrittenInv' /\ ConsumedIsDurable' /\ ConsumedOnce'
    BY <1>6 DEF AnswerHealth, Respond, WrittenInv, ConsumedIsDurable, ConsumedOnce, Won
  <2> QED
    BY <1>0, <2>1
<1>7. ASSUME NEW b \in Brokers, LockLedger(b)
      PROVE  BrokerInv'
  <2>1. WrittenInv' /\ ConsumedIsDurable' /\ ConsumedOnce'
    BY <1>7 DEF LockLedger, WrittenInv, ConsumedIsDurable, ConsumedOnce, Won
  <2> QED
    BY <1>0, <2>1
<1>8. ASSUME NEW b \in Brokers, RefuseConsume(b)
      PROVE  BrokerInv'
  <2>1. WrittenInv' /\ ConsumedIsDurable' /\ ConsumedOnce'
    BY <1>8 DEF RefuseConsume, Respond, BrokerTypeOK, WrittenInv, ConsumedIsDurable, ConsumedOnce, Won
  <2> QED
    BY <1>0, <2>1
<1>9. ASSUME NEW b \in Brokers, AppendRecord(b)
      PROVE  BrokerInv'
  <2>0. /\ ledger' \in Seq(Nonces \cup {Torn})
        /\ Len(ledger') = Len(ledger) + 1
        /\ ledger'[Len(ledger')] = cnonce[serving[b]]
        /\ \A i \in 1 .. Len(ledger) : ledger'[i] = ledger[i]
    BY <1>9 DEF AppendRecord, Appended, BrokerTypeOK, ServingInv
  <2>1. ConsumedIsDurable'
    BY <1>9, <2>0 DEF AppendRecord, ConsumedIsDurable, Won
  <2>2. ConsumedOnce'
    BY <1>9 DEF AppendRecord, ConsumedOnce, Won
  <2>3. WrittenInv'
    <3>1. \A k \in Won : cnonce[k] \in Records(ledger)
      BY DEF ConsumedIsDurable, Records
    <3>2. \A k \in Won : cnonce[k] # cnonce[serving[b]]
      BY <1>9, <3>1 DEF AppendRecord, FreshInv
    <3>3. \A c \in Brokers : bpc'[c] = "written" => c = b
      BY <1>9 DEF AppendRecord, LockInv
    <3> QED
      BY <1>9, <2>0, <3>2, <3>3 DEF AppendRecord, WrittenInv, Won
  <2> QED
    BY <1>0, <2>1, <2>2, <2>3
<1>10. ASSUME NEW b \in Brokers, AppendFails(b)
      PROVE  BrokerInv'
  <2>0. /\ ledger' \in Seq(Nonces \cup {Torn})
        /\ Len(ledger) <= Len(ledger')
        /\ \A i \in 1 .. Len(ledger) : ledger'[i] = ledger[i]
    <3>1. CASE ledger' = Append(ledger, Torn)
      BY <3>1 DEF BrokerTypeOK
    <3>2. CASE ledger' = ledger
      BY <3>2 DEF BrokerTypeOK
    <3> QED
      BY <1>10, <3>1, <3>2 DEF AppendFails, Appended
  <2>1. WrittenInv' /\ ConsumedIsDurable' /\ ConsumedOnce'
    BY <1>10, <2>0 DEF AppendFails, Respond, LockInv, ServingInv, WrittenInv, ConsumedIsDurable,
       ConsumedOnce, Won
  <2> QED
    BY <1>0, <2>1
<1>11. ASSUME NEW b \in Brokers, FsyncLedger(b)
      PROVE  BrokerInv'
  <2>1. WrittenInv'
    BY <1>11 DEF FsyncLedger, Respond, BrokerTypeOK, LockInv, WrittenInv
  <2>2. ConsumedIsDurable'
    BY <1>11 DEF FsyncLedger, Respond, WrittenInv, ConsumedIsDurable, Won
  <2>3. ConsumedOnce'
    BY <1>11 DEF FsyncLedger, Respond, WrittenInv, ConsumedOnce, Won
  <2> QED
    BY <1>0, <2>1, <2>2, <2>3
<1>12. ASSUME NEW b \in Brokers, FsyncFails(b)
      PROVE  BrokerInv'
  <2>1. WrittenInv' /\ ConsumedIsDurable' /\ ConsumedOnce'
    BY <1>12 DEF FsyncFails, Respond, WrittenInv, ConsumedIsDurable, ConsumedOnce, Won
  <2> QED
    BY <1>0, <2>1
<1>13. ASSUME NEW b \in Brokers, Reply(b)
      PROVE  BrokerInv'
  <2>1. WrittenInv' /\ ConsumedIsDurable' /\ ConsumedOnce'
    BY <1>13 DEF Reply, WrittenInv, ConsumedIsDurable, ConsumedOnce, Won
  <2> QED
    BY <1>0, <2>1
<1>14. ASSUME NEW b \in Brokers, BrokerExit(b)
      PROVE  BrokerInv'
  <2>1. WrittenInv' /\ ConsumedIsDurable' /\ ConsumedOnce'
    BY <1>14 DEF BrokerExit, BrokerTypeOK, WrittenInv, ConsumedIsDurable, ConsumedOnce, Won
  <2> QED
    BY <1>0, <2>1
<1>15. ASSUME NEW k \in Conns, NEW b \in Brokers, NEW n \in Nonces \cup {NoOne}, Connect(k, b, n)
      PROVE  BrokerInv'
  <2>1. WrittenInv' /\ ConsumedIsDurable' /\ ConsumedOnce'
    BY <1>15 DEF Connect, ServingInv, UndecidedInv, WrittenInv, ConsumedIsDurable, ConsumedOnce, Won
  <2> QED
    BY <1>0, <2>1
<1>16. ASSUME PowerLoss
      PROVE  BrokerInv'
  <2>0. ledger' \in Seq(Nonces \cup {Torn}) /\ synced' \in Nat
    <3>1. CASE ledger' = <<>> /\ synced' = 0
      BY <3>1
    <3>2. CASE ledger' \in DiskImages /\ synced' = Len(ledger')
      BY <3>2, DiskImageFacts DEF BrokerTypeOK, SyncedInv
    <3> QED
      BY <1>16, <3>1, <3>2 DEF PowerLoss
  <2>1. WrittenInv'
    BY <1>16, DiskImageFacts DEF PowerLoss, WrittenInv
  <2>2. ConsumedIsDurable'
    <3> SUFFICES ASSUME NEW k \in Won'
                 PROVE  /\ entry' = "durable"
                        /\ \E i \in 1 .. synced' : i <= Len(ledger') /\ ledger'[i] = cnonce'[k]
      BY DEF ConsumedIsDurable
    <3>1. k \in Won /\ cnonce'[k] = cnonce[k]
      BY <1>16 DEF PowerLoss, Won
    <3>2. entry = "durable"
      BY <3>1 DEF ConsumedIsDurable
    <3>3. entry' = "durable" /\ ledger' \in DiskImages /\ synced' = Len(ledger')
      BY <1>16, <3>2 DEF PowerLoss
    <3>4. PICK i \in 1 .. synced : ledger[i] = cnonce[k]
      BY <3>1 DEF ConsumedIsDurable
    <3>5. synced <= Len(ledger') /\ ledger'[i] = ledger[i]
      BY <3>3, <3>4, DiskImageFacts DEF BrokerTypeOK, SyncedInv
    <3> QED
      BY <3>1, <3>3, <3>4, <3>5 DEF BrokerTypeOK
  <2>3. ConsumedOnce'
    BY <1>16, DiskImageFacts DEF PowerLoss, ConsumedOnce, Won
  <2> QED
    BY <1>0, <2>1, <2>2, <2>3
<1>17. ASSUME NEW b \in Brokers, FindFresh(b)
      PROVE  BrokerInv'
  <2>1. WrittenInv' /\ ConsumedIsDurable' /\ ConsumedOnce'
    BY <1>17 DEF FindFresh, WrittenInv, ConsumedIsDurable, ConsumedOnce, Won
  <2> QED
    BY <1>0, <2>1
<1>18. CASE UNCHANGED brokerVars
  BY <1>0, <1>18 DEF brokerVars, WrittenInv, ConsumedIsDurable, ConsumedOnce, Won
<1> QED
  BY <1>1, <1>2, <1>3, <1>4, <1>5, <1>6, <1>7, <1>8, <1>9, <1>10, <1>11, <1>12, <1>13, <1>14, <1>15, <1>16, <1>17, <1>18 DEF 
     BrokerNext, Daemon

-----------------------------------------------------------------------------
(* Type correctness: every variable keeps its type over every step of the   *)
(* daemons, the clients and the environment.                                *)
THEOREM BrokerTypeCorrect == BrokerSpec => []BrokerTypeOK
<1>1. BrokerInit => BaseInv
  BY BrokerAssumption DEF BrokerInit, BaseInv, BrokerTypeOK, SyncedInv, PresentInv, LockInv, ServingInv,
     UndecidedInv, FreshInv
<1>2. BaseInv /\ [BrokerNext]_brokerVars => BaseInv'
  BY BaseInvStep
<1>3. BaseInv => BrokerTypeOK
  BY DEF BaseInv
<1> QED
  BY <1>1, <1>2, <1>3, PTL DEF BrokerSpec

(* BrokerInv is an invariant of the broker on a file system that makes the  *)
(* directory entry durable together with the file.                          *)
LEMMA BrokerInvariant ==
    ASSUME EntryFollowsFile
    PROVE  BrokerSpec => []BrokerInv
<1>1. BrokerInit => BrokerInv
  BY BrokerAssumption DEF BrokerInit, BrokerInv, BaseInv, BrokerTypeOK, SyncedInv, PresentInv, LockInv,
     ServingInv, UndecidedInv, FreshInv, WrittenInv, ConsumedIsDurable, ConsumedOnce, Won
<1>2. BrokerInv /\ [BrokerNext]_brokerVars => BrokerInv'
  BY BrokerInvStep
<1> QED
  BY <1>1, <1>2, PTL DEF BrokerSpec

(* Over every interleaving of daemons, crash, restart and power loss a      *)
(* nonce is answered CONSUMED to at most one connection (NonceLedger        *)
(* .consume scans, appends and fsyncs under one exclusive lock).            *)
THEOREM NonceConsumedOnce ==
    ASSUME EntryFollowsFile
    PROVE  BrokerSpec => []ConsumedOnce
<1>1. BrokerInv => ConsumedOnce
  BY DEF BrokerInv
<1> QED
  BY <1>1, BrokerInvariant, PTL

(* A response CONSUMED is always backed by a record that a power loss       *)
(* cannot take away (consume fsyncs before it returns True).                *)
THEOREM ConsumedOnDisk ==
    ASSUME EntryFollowsFile
    PROVE  BrokerSpec => []ConsumedIsDurable
<1>1. BrokerInv => ConsumedIsDurable
  BY DEF BrokerInv
<1> QED
  BY <1>1, BrokerInvariant, PTL

-----------------------------------------------------------------------------
(* Damage fails closed, and what has reached the disk stays.                *)

(* The daemon about to append has just scanned the whole file, found it     *)
(* valid with room for one more record, and the lock keeps it so until it   *)
(* has appended; the file is then valid with its record too.                *)
RoomInv ==
    \A b \in Brokers :
        /\ bpc[b] = "fresh" => ScanOK(ledger) /\ Len(ledger) + 1 < MaxLedger
        /\ bpc[b] = "written" => ScanOK(ledger)

ScannedInv == BaseInv /\ RoomInv

(* The steps that leave the ledger and the set of winners alone and bring   *)
(* no daemon to the append or past it.                                      *)
QuietStep ==
    /\ ledger' = ledger
    /\ Won' = Won
    /\ \A b \in Brokers : bpc'[b] \in {"fresh", "written"} => bpc'[b] = bpc[b]

(* A response other than CONSUMED, to a connection that had none, makes no  *)
(* winner.                                                                  *)
LEMMA OtherResponse ==
    ASSUME BaseInv, NEW b \in Brokers, bpc[b] \in {"recv", "locked", "fresh", "written"},
           NEW r \in Responses \ {"CONSUMED"}, Respond(b, r)
    PROVE  /\ Won' = Won
           /\ \A c \in Brokers : bpc'[c] \in {"fresh", "written"} => bpc'[c] = bpc[c]
<1>1. cresp[serving[b]] = "none" /\ cresp \in [Conns -> Responses \cup {"none"}]
  BY DEF BaseInv, UndecidedInv, BrokerTypeOK
<1>2. Won' = Won
  BY <1>1 DEF Respond, Won
<1> QED
  BY <1>2 DEF Respond, BaseInv, BrokerTypeOK

(* Only FindFresh and AppendRecord bring a daemon to the append and past    *)
(* it; only OpenLedger, the two appends and a power loss change the         *)
(* records; only FsyncLedger makes a winner.                                *)
LEMMA QuietOrWriting ==
    ASSUME BaseInv, [BrokerNext]_brokerVars
    PROVE  \/ QuietStep
           \/ PowerLoss
           \/ \E b \in Brokers : \/ OpenLedger(b) \/ FindFresh(b) \/ AppendRecord(b)
                                 \/ AppendFails(b) \/ FsyncLedger(b)
<1> USE DEF ledgerVars, connVars
<1>t. bpc \in [Brokers -> {"down", "syncdir", "scan"} \cup Listening]
  BY DEF BaseInv, BrokerTypeOK
<1>1. ASSUME NEW b \in Brokers, SyncDirectory(b)
      PROVE  QuietStep
  BY <1>1, <1>t DEF SyncDirectory, QuietStep, Won
<1>2. ASSUME NEW b \in Brokers, ScanAtStart(b)
      PROVE  QuietStep
  BY <1>2, <1>t DEF ScanAtStart, QuietStep, Won
<1>3. ASSUME NEW b \in Brokers, NEW k \in Conns, Accept(b, k)
      PROVE  QuietStep
  BY <1>3, <1>t DEF Accept, QuietStep, Won
<1>4. ASSUME NEW b \in Brokers, RejectUnread(b)
      PROVE  QuietStep
  <2>1. bpc[b] = "recv" /\ Respond(b, "REJECTED") /\ ledger' = ledger
    BY <1>4 DEF RejectUnread
  <2> QED
    BY <2>1, OtherResponse DEF QuietStep, Responses
<1>5. ASSUME NEW b \in Brokers, AnswerHealth(b)
      PROVE  QuietStep
  <2>1. bpc[b] = "recv" /\ ledger' = ledger /\ (Respond(b, "READY") \/ Respond(b, "REJECTED"))
    BY <1>5 DEF AnswerHealth
  <2> QED
    BY <2>1, OtherResponse DEF QuietStep, Responses
<1>6. ASSUME NEW b \in Brokers, LockLedger(b)
      PROVE  QuietStep
  BY <1>6, <1>t DEF LockLedger, QuietStep, Won
<1>7. ASSUME NEW b \in Brokers, RefuseConsume(b)
      PROVE  QuietStep
  <2>1. /\ bpc[b] = "locked" /\ ledger' = ledger
        /\ Respond(b, "ALREADY_CONSUMED") \/ Respond(b, "REJECTED")
    BY <1>7 DEF RefuseConsume
  <2> QED
    BY <2>1, OtherResponse DEF QuietStep, Responses
<1>8. ASSUME NEW b \in Brokers, FsyncFails(b)
      PROVE  QuietStep
  <2>1. bpc[b] = "written" /\ Respond(b, "REJECTED") /\ ledger' = ledger
    BY <1>8 DEF FsyncFails
  <2> QED
    BY <2>1, OtherResponse DEF QuietStep, Responses
<1>9. ASSUME NEW b \in Brokers, Reply(b)
      PROVE  QuietStep
  BY <1>9, <1>t DEF Reply, QuietStep, Won
<1>10. ASSUME NEW b \in Brokers, BrokerExit(b)
       PROVE  QuietStep
  BY <1>10, <1>t DEF BrokerExit, QuietStep, Won
<1>11. ASSUME NEW k \in Conns, NEW b \in Brokers, NEW n \in Nonces \cup {NoOne}, Connect(k, b, n)
       PROVE  QuietStep
  BY <1>11 DEF Connect, QuietStep, Won
<1>12. CASE UNCHANGED brokerVars
  BY <1>12 DEF brokerVars, QuietStep, Won
<1> QED
  BY <1>1, <1>2, <1>3, <1>4, <1>5, <1>6, <1>7, <1>8, <1>9, <1>10, <1>11, <1>12 DEF BrokerNext, Daemon

(* A valid file with one more record, of a nonce that is not in it, is a    *)
(* valid file.                                                              *)
LEMMA AppendedIsScanned ==
    ASSUME ledger \in Seq(Nonces \cup {Torn}), ScanOK(ledger), Len(ledger) + 1 < MaxLedger,
           NEW n \in Nonces, n \notin Records(ledger)
    PROVE  ScanOK(Append(ledger, n))
<1> DEFINE l == Append(ledger, n)
<1>1. /\ Len(l) = Len(ledger) + 1
      /\ l[Len(l)] = n
      /\ \A i \in 1 .. Len(ledger) : l[i] = ledger[i]
      /\ Len(ledger) \in Nat
  OBVIOUS
<1> HIDE DEF l
<1>2. Torn \notin Records(l)
  BY <1>1, BrokerAssumption DEF Records, ScanOK
<1>3. \A i, j \in 1 .. Len(l) : l[i] = l[j] => i = j
  <2> SUFFICES ASSUME NEW i \in 1 .. Len(l), NEW j \in 1 .. Len(l), l[i] = l[j]
               PROVE  i = j
    OBVIOUS
  <2>1. \A m \in 1 .. Len(ledger) : ledger[m] # n
    BY DEF Records
  <2>2. CASE i \in 1 .. Len(ledger) /\ j \in 1 .. Len(ledger)
    BY <1>1, <2>2 DEF ScanOK
  <2>3. CASE i = Len(l) \/ j = Len(l)
    BY <1>1, <2>1, <2>3
  <2> QED
    BY <1>1, <2>2, <2>3
<1>4. Len(l) < MaxLedger
  BY <1>1
<1> QED
  BY <1>2, <1>3, <1>4 DEF ScanOK, l

(* Every step keeps the file valid under the feet of the daemon that holds  *)
(* the lock to append to it.                                                *)
LEMMA ScannedInvStep ==
    ASSUME ScannedInv, [BrokerNext]_brokerVars
    PROVE  ScannedInv'
<1> USE BrokerAssumption DEF ScannedInv, ledgerVars, connVars
<1>0. BaseInv'
  BY BaseInvStep
<1>t. ledger \in Seq(Nonces \cup {Torn}) /\ MaxLedger \in Nat
  BY DEF BaseInv, BrokerTypeOK
<1>q. ASSUME ledger' = ledger, \A b \in Brokers : bpc'[b] \in {"fresh", "written"} => bpc'[b] = bpc[b]
      PROVE  RoomInv'
  BY <1>q DEF RoomInv, ScanOK, Records
<1>n. ASSUME \A b \in Brokers : bpc'[b] \notin {"fresh", "written"}
      PROVE  RoomInv'
  BY <1>n DEF RoomInv
<1>1. CASE QuietStep
  BY <1>0, <1>1, <1>q DEF QuietStep
<1>2. ASSUME NEW b \in Brokers, OpenLedger(b)
      PROVE  ScannedInv'
  <2>0. \A c \in Brokers : bpc'[c] \in {"fresh", "written"} => bpc'[c] = bpc[c]
    BY <1>2 DEF OpenLedger, BaseInv, BrokerTypeOK
  <2>1. CASE entry = "absent"
    BY <1>0, <1>n, <2>0, <2>1 DEF BaseInv, PresentInv
  <2>2. CASE entry # "absent"
    BY <1>0, <1>2, <1>q, <2>0, <2>2 DEF OpenLedger
  <2> QED
    BY <2>1, <2>2
<1>3. ASSUME NEW b \in Brokers, FindFresh(b)
      PROVE  ScannedInv'
  <2>1. /\ ScanOK(ledger) /\ Len(ledger) + 1 < MaxLedger
        /\ ledger' = ledger
    BY <1>3, <1>t DEF FindFresh, AtCapacity
  <2>2. RoomInv'
    BY <2>1 DEF RoomInv, ScanOK, Records
  <2> QED
    BY <1>0, <2>2
<1>4. ASSUME NEW b \in Brokers, AppendRecord(b)
      PROVE  ScannedInv'
  <2>1. /\ bpc[b] = "fresh" /\ exlock = b
        /\ cnonce[serving[b]] \in Nonces
        /\ cnonce[serving[b]] \notin Records(ledger)
    BY <1>4 DEF AppendRecord, BaseInv, LockInv, ServingInv, FreshInv
  <2>2. \A c \in Brokers : bpc'[c] # "fresh"
    BY <1>4, <2>1 DEF AppendRecord, BaseInv, LockInv, BrokerTypeOK
  <2>3. ledger' = Append(ledger, cnonce[serving[b]])
    BY <1>4 DEF AppendRecord, Appended
  <2>4. ScanOK(ledger')
    BY <1>t, <2>1, <2>3, AppendedIsScanned DEF RoomInv
  <2>5. RoomInv'
    BY <2>2, <2>4 DEF RoomInv, ScanOK, Records
  <2> QED
    BY <1>0, <2>5
<1>5. ASSUME NEW b \in Brokers, AppendFails(b)
      PROVE  ScannedInv'
  <2>1. \A c \in Brokers : bpc'[c] \notin {"fresh", "written"}
    BY <1>5 DEF AppendFails, Respond, BaseInv, LockInv, BrokerTypeOK
  <2> QED
    BY <1>0, <1>n, <2>1
<1>6. ASSUME NEW b \in Brokers, FsyncLedger(b)
      PROVE  ScannedInv'
  <2>1. \A c \in Brokers : bpc'[c] \notin {"fresh", "written"}
    BY <1>6 DEF FsyncLedger, Respond, BaseInv, LockInv, BrokerTypeOK
  <2> QED
    BY <1>0, <1>n, <2>1
<1>7. CASE PowerLoss
  BY <1>0, <1>7, <1>n DEF PowerLoss
<1> QED
  BY <1>1, <1>2, <1>3, <1>4, <1>5, <1>6, <1>7, QuietOrWriting

(* A damaged ledger consumes nothing more, whichever daemon damaged it and  *)
(* whichever serves: every consume scans the whole file under the lock      *)
(* under which it appends.  And whoever is answered CONSUMED leaves a file  *)
(* the next start accepts, since the same scan and the capacity check of    *)
(* one record more are still true of it.  Needs nothing of the file system. *)
THEOREM DamagedLedgerRefuses == BrokerSpec => DamageFailsClosed
<1> DEFINE Closed ==
      /\ Torn \in Records(ledger) => Won' = Won /\ Len(ledger') <= Len(ledger)
      /\ Won' # Won => ScanOK(ledger')
<1>1. ScannedInv /\ [BrokerNext]_brokerVars => [Closed]_brokerVars
  <2> SUFFICES ASSUME ScannedInv, [BrokerNext]_brokerVars
               PROVE  Closed
    OBVIOUS
  <2> USE DEF ledgerVars, connVars
  <2>0. ledger \in Seq(Nonces \cup {Torn}) /\ synced \in Nat /\ synced <= Len(ledger)
    BY DEF ScannedInv, BaseInv, BrokerTypeOK, SyncedInv
  <2>1. ASSUME ledger' = ledger, Won' = Won
        PROVE  Closed
    BY <2>0, <2>1
  <2>2. ASSUME Len(ledger') <= Len(ledger), Won' = Won
        PROVE  Closed
    BY <2>2
  <2>3. CASE QuietStep
    BY <2>1, <2>3 DEF QuietStep
  <2>4. ASSUME NEW b \in Brokers, OpenLedger(b)
        PROVE  Closed
    <3>1. Won' = Won /\ (ledger' = ledger \/ ledger' = <<>>)
      BY <2>4 DEF OpenLedger, Won
    <3>2. CASE ledger' = <<>>
      BY <2>0, <2>2, <3>1, <3>2
    <3> QED
      BY <2>1, <3>1, <3>2
  <2>5. ASSUME NEW b \in Brokers, FindFresh(b)
        PROVE  Closed
    BY <2>1, <2>5 DEF FindFresh, Won
  <2>6. ASSUME NEW b \in Brokers, AppendRecord(b) \/ AppendFails(b)
        PROVE  Closed
    <3>1. bpc[b] = "fresh"
      BY <2>6 DEF AppendRecord, AppendFails
    <3>2. Torn \notin Records(ledger)
      BY <3>1 DEF ScannedInv, RoomInv, ScanOK
    <3>3. Won' = Won
      <4>1. CASE AppendRecord(b)
        BY <4>1 DEF AppendRecord, Won
      <4>2. CASE AppendFails(b)
        <5>1. Respond(b, "REJECTED")
          BY <4>2 DEF AppendFails
        <5> QED
          BY <3>1, <5>1, OtherResponse DEF ScannedInv, Responses
      <4> QED
        BY <2>6, <4>1, <4>2
    <3> QED
      BY <3>2, <3>3
  <2>7. ASSUME NEW b \in Brokers, FsyncLedger(b)
        PROVE  Closed
    <3>1. bpc[b] = "written" /\ ledger' = ledger
      BY <2>7 DEF FsyncLedger
    <3>2. ScanOK(ledger)
      BY <3>1 DEF ScannedInv, RoomInv
    <3>3. Torn \notin Records(ledger)
      BY <3>2 DEF ScanOK
    <3> QED
      BY <3>1, <3>2, <3>3 DEF ScanOK, Records
  <2>8. CASE PowerLoss
    <3>1. Won' = Won /\ (ledger' = <<>> \/ ledger' \in DiskImages)
      BY <2>8 DEF PowerLoss, Won
    <3>2. CASE ledger' = <<>>
      BY <2>0, <2>2, <3>1, <3>2
    <3>3. CASE ledger' \in DiskImages
      <4>1. Len(ledger') <= Len(ledger)
        BY <2>0, <3>3, DiskImageFacts
      <4> QED
        BY <2>2, <3>1, <4>1
    <3> QED
      BY <3>1, <3>2, <3>3
  <2> QED
    BY <2>3, <2>4, <2>5, <2>6, <2>7, <2>8, QuietOrWriting DEF ScannedInv
<1>2. BrokerInit => ScannedInv
  BY BrokerAssumption DEF BrokerInit, ScannedInv, RoomInv, BaseInv, BrokerTypeOK,
     SyncedInv, PresentInv, LockInv, ServingInv, UndecidedInv, FreshInv
<1>3. ScannedInv /\ [BrokerNext]_brokerVars => ScannedInv'
  BY ScannedInvStep
<1> QED
  BY <1>1, <1>2, <1>3, PTL DEF BrokerSpec, DamageFailsClosed

(* The ledger is append-only as far as the disk is concerned: no step of a  *)
(* daemon and no power loss takes back or rewrites a record that was synced *)
(* in a file whose directory entry is durable.                              *)
THEOREM SyncedRecordsStay == BrokerSpec => DurablePrefixKept
<1> DEFINE Kept == entry = "durable" =>
                     /\ entry' = "durable"
                     /\ \A i \in 1 .. synced : i <= Len(ledger') /\ ledger'[i] = ledger[i]
<1>1. BaseInv /\ [BrokerNext]_brokerVars => [Kept]_brokerVars
  <2> SUFFICES ASSUME BaseInv, [BrokerNext]_brokerVars, entry = "durable"
               PROVE  Kept
    BY DEF BaseInv
  <2> USE DEF ledgerVars, connVars
  <2>0. ledger \in Seq(Nonces \cup {Torn}) /\ synced \in Nat /\ synced <= Len(ledger)
    BY DEF BaseInv, BrokerTypeOK, SyncedInv
  <2>1. CASE ledger' = ledger /\ entry' = "durable"
    BY <2>0, <2>1
  <2>2. ASSUME NEW b \in Brokers, AppendRecord(b) \/ AppendFails(b)
        PROVE  Kept
    <3>1. \A r : ledger' = Append(ledger, r) =>
             /\ Len(ledger') = Len(ledger) + 1
             /\ \A i \in 1 .. Len(ledger) : ledger'[i] = ledger[i]
      BY <2>0
    <3>2. entry' = "durable" /\ (ledger' = ledger \/ \E r : ledger' = Append(ledger, r))
      BY <2>2 DEF AppendRecord, AppendFails, Appended
    <3> QED
      BY <2>0, <3>1, <3>2
  <2>3. CASE PowerLoss
    <3>1. entry' = "durable" /\ ledger' \in DiskImages
      BY <2>3 DEF PowerLoss
    <3>2. /\ synced <= Len(ledger')
          /\ ledger' \in Seq(Nonces \cup {Torn})
          /\ \A i \in 1 .. synced : ledger'[i] = ledger[i]
      BY <2>0, <3>1, DiskImageFacts
    <3> QED
      BY <2>0, <3>1, <3>2
  <2>4. ASSUME NEW b \in Brokers, BrokerExit(b) \/ Daemon(b), ~AppendRecord(b), ~AppendFails(b)
        PROVE  ledger' = ledger /\ entry' = "durable"
    BY <2>4 DEF Daemon, OpenLedger, SyncDirectory, ScanAtStart, Accept, RejectUnread, AnswerHealth,
       LockLedger, RefuseConsume, FindFresh, FsyncLedger, FsyncFails, Reply, BrokerExit
  <2>5. ASSUME NEW k \in Conns, NEW b \in Brokers, NEW n \in Nonces \cup {NoOne}, Connect(k, b, n)
        PROVE  ledger' = ledger /\ entry' = "durable"
    BY <2>5 DEF Connect
  <2>6. CASE UNCHANGED brokerVars
    BY <2>1, <2>6 DEF brokerVars
  <2> QED
    BY <2>1, <2>2, <2>3, <2>4, <2>5, <2>6 DEF BrokerNext
<1>2. BrokerInit => BaseInv
  BY BrokerAssumption DEF BrokerInit, BaseInv, BrokerTypeOK, SyncedInv, PresentInv, LockInv, ServingInv,
     UndecidedInv, FreshInv
<1>3. BaseInv /\ [BrokerNext]_brokerVars => BaseInv'
  BY BaseInvStep
<1> QED
  BY <1>1, <1>2, <1>3, PTL DEF BrokerSpec, DurablePrefixKept

-----------------------------------------------------------------------------
(***************************************************************************)
(* One-shot approvals, for every number of agents, clones, receipts,        *)
(* daemons and connections.  The broker's theorems carry over because every *)
(* step of the whole system is a step of the broker or leaves it alone.     *)
(***************************************************************************)

(* The states of an agent that holds decisions.lock of its clone.           *)
Holding == {"importing", "checked", "waiting", "consumed"}

(* An agent inside an operation knows its receipt; inside the lock it is    *)
(* the holder the kernel lists, and its copy of the store is still exact.   *)
AgentInv ==
    /\ \A a \in Agents : apc[a] # "idle" => arcpt[a] \in Receipts
    /\ \A a \in Agents : apc[a] \in Holding => dlock[CloneOf[a]] = a
    /\ \A a \in Agents : apc[a] \in Holding => aview[a] = store[CloneOf[a]]
    /\ \A a \in Agents : apc[a] = "consumed" => store[CloneOf[a]][arcpt[a]] = "approved"
    /\ \A a \in Agents : apc[a] = "waiting" => store[CloneOf[a]][arcpt[a]] = "approved"
    /\ \A a \in Agents : apc[a] = "checked" => store[CloneOf[a]][arcpt[a]] = "approved"
    /\ \A a \in Agents : apc[a] # "idle" \/ arcpt[a] = NoOne

(* The connection of a waiting agent asks for the nonce of its receipt; an  *)
(* agent that read CONSUMED is on a winning connection.                     *)
ConnInv ==
    /\ \A a \in Agents : apc[a] \in {"waiting", "consumed"} =>
          aconn[a] \in Conns /\ cnonce[aconn[a]] = NonceOf[arcpt[a]]
    /\ \A a \in Agents : apc[a] = "consumed" => aconn[a] \in Won
    /\ \A k \in Conns : cst[k] = "unused" => cnonce[k] = NoOne
    /\ granted \subseteq Won

ApprovalInv ==
    /\ TypeOK
    /\ BrokerInv
    /\ AgentInv
    /\ ConnInv
    /\ CompletedWasConsumed
    /\ OneRowPerNonce

-----------------------------------------------------------------------------
(* Every step of the whole system is a step of the broker or leaves it as   *)
(* it is.                                                                   *)
LEMMA StepIsBrokerStep ==
    ASSUME TypeOK, AgentInv, [Next]_vars
    PROVE  [BrokerNext]_brokerVars
<1> USE ApprovalAssumption
<1>1. ASSUME NEW b \in Brokers, Daemon(b) \/ BrokerExit(b)
      PROVE  BrokerNext
  BY <1>1 DEF BrokerNext
<1>2. ASSUME NEW a \in Agents, Agent(a) \/ AgentExit(a)
      PROVE  [BrokerNext]_brokerVars
  <2>1. ASSUME NEW k \in Conns, NEW b \in Brokers, SendConsume(a, k, b)
        PROVE  BrokerNext
    BY <2>1 DEF SendConsume, BrokerNext, AgentInv
  <2> QED
    BY <1>2, <2>1 DEF Agent, AgentExit, BeginImport, LockForImport, FinishImport, BeginEvaluate, CheckRow,
       RefuseRow, BrokerUnavailable, ReadConsumed, NotConsumed, Complete
<1>3. ASSUME NEW r \in Receipts, Lapse(r)
      PROVE  UNCHANGED brokerVars
  BY <1>3 DEF Lapse
<1>4. CASE HostLoss
  BY <1>4 DEF HostLoss, BrokerNext
<1>5. CASE UNCHANGED vars
  BY <1>5 DEF vars
<1> QED
  BY <1>1, <1>2, <1>3, <1>4, <1>5 DEF Next

(* A connection that has won stays a winner and keeps its nonce.            *)
LEMMA WonIsStable ==
    ASSUME BaseInv, [BrokerNext]_brokerVars
    PROVE  /\ Won \subseteq Won'
           /\ \A k \in Won : cnonce'[k] = cnonce[k]
           /\ \A k \in Conns : cst[k] # "unused" => cst'[k] # "unused" /\ cnonce'[k] = cnonce[k]
           /\ \A k \in Conns : cst'[k] = "unused" => cnonce'[k] = cnonce[k]
<1> USE BrokerAssumption DEF BaseInv, ledgerVars, connVars, brokerVars
<1>1. ASSUME NEW b \in Brokers, Daemon(b) \/ BrokerExit(b)
      PROVE  /\ \A k \in Conns : cresp[k] = "CONSUMED" => cresp'[k] = "CONSUMED"
             /\ \A k \in Conns : cst[k] # "unused" => cst'[k] # "unused"
             /\ \A k \in Conns : cst'[k] = "unused" => cst[k] = "unused"
             /\ cnonce' = cnonce
  BY <1>1 DEF Daemon, OpenLedger, SyncDirectory, ScanAtStart, Accept, RejectUnread, AnswerHealth,
     LockLedger, RefuseConsume, FindFresh, AppendRecord, AppendFails, FsyncLedger, FsyncFails, Reply,
     BrokerExit, Respond, Reset, BrokerTypeOK, UndecidedInv
<1>2. ASSUME NEW k \in Conns, NEW b \in Brokers, NEW n \in Nonces \cup {NoOne}, Connect(k, b, n)
      PROVE  /\ cresp' = cresp
             /\ \A j \in Conns : j # k => cst'[j] = cst[j] /\ cnonce'[j] = cnonce[j]
             /\ cst[k] = "unused" /\ cst'[k] = "queued"
  BY <1>2 DEF Connect, BrokerTypeOK
<1>3. CASE PowerLoss
  BY <1>3 DEF PowerLoss, Reset, Won
<1>4. CASE UNCHANGED brokerVars
  BY <1>4 DEF Won
<1> QED
  BY <1>1, <1>2, <1>3, <1>4 DEF BrokerNext, Won, UndecidedInv

-----------------------------------------------------------------------------
(* The agents' part of ApprovalInv is preserved by every step, given that   *)
(* the broker's part is.                                                    *)
LEMMA ApprovalInvStep ==
    ASSUME EntryFollowsFile, ApprovalInv, [Next]_vars
    PROVE  ApprovalInv'
<1> USE BrokerAssumption, ApprovalAssumption DEF ApprovalInv
<1>1. BrokerInv' /\ BrokerTypeOK'
  BY StepIsBrokerStep, BrokerInvStep DEF BrokerInv, BaseInv
<1>2. /\ Won \subseteq Won'
      /\ \A k \in Won : cnonce'[k] = cnonce[k]
      /\ \A k \in Conns : cst[k] # "unused" => cst'[k] # "unused" /\ cnonce'[k] = cnonce[k]
      /\ \A k \in Conns : cst'[k] = "unused" => cnonce'[k] = cnonce[k]
  BY StepIsBrokerStep, WonIsStable DEF BrokerInv
<1>3. ASSUME \A c \in Clones, r \in Receipts : store'[c][r] = "completed" => store[c][r] = "completed"
      PROVE  CompletedWasConsumed'
  BY <1>2, <1>3 DEF CompletedWasConsumed
<1>4. ASSUME \A c \in Clones, r \in Receipts : store'[c][r] # "none" => store[c][r] # "none"
      PROVE  OneRowPerNonce'
  BY <1>4 DEF OneRowPerNonce
<1>5. ASSUME NEW b \in Brokers, Daemon(b) \/ BrokerExit(b), UNCHANGED agentVars
      PROVE  ApprovalInv'
  <2>1. TypeOK'
    BY <1>1, <1>5 DEF agentVars, TypeOK, Rows, NoRows
  <2>2. AgentInv'
    BY <1>5 DEF agentVars, TypeOK, Rows, AgentInv
  <2>3. ConnInv'
    BY <1>2, <1>5 DEF agentVars, TypeOK, BrokerTypeOK, ConnInv, AgentInv
  <2>4. CompletedWasConsumed' /\ OneRowPerNonce'
    BY <1>3, <1>4, <1>5 DEF agentVars
  <2> QED
    BY <1>1, <2>1, <2>2, <2>3, <2>4
<1>6. ASSUME NEW a \in Agents, NEW r \in Receipts, BeginImport(a, r)
      PROVE  ApprovalInv'
  <2>1. TypeOK'
    BY <1>1, <1>6 DEF BeginImport, TypeOK, Rows, NoRows
  <2>2. AgentInv'
    BY <1>6 DEF BeginImport, TypeOK, Rows, AgentInv, Holding
  <2>3. ConnInv'
    BY <1>2, <1>6 DEF BeginImport, TypeOK, BrokerTypeOK, ConnInv, AgentInv
  <2>4. CompletedWasConsumed' /\ OneRowPerNonce'
    BY <1>3, <1>4, <1>6 DEF BeginImport
  <2> QED
    BY <1>1, <2>1, <2>2, <2>3, <2>4
<1>7. ASSUME NEW a \in Agents, LockForImport(a)
      PROVE  ApprovalInv'
  <2>1. TypeOK'
    BY <1>1, <1>7 DEF LockForImport, LockAndRead, TypeOK, Rows, NoRows
  <2>2. AgentInv'
    BY <1>7 DEF LockForImport, LockAndRead, TypeOK, Rows, AgentInv
  <2>3. ConnInv'
    BY <1>2, <1>7 DEF LockForImport, LockAndRead, TypeOK, BrokerTypeOK, ConnInv, AgentInv
  <2>4. CompletedWasConsumed' /\ OneRowPerNonce'
    BY <1>3, <1>4, <1>7 DEF LockForImport
  <2> QED
    BY <1>1, <2>1, <2>2, <2>3, <2>4
<1>8. ASSUME NEW a \in Agents, FinishImport(a)
      PROVE  ApprovalInv'
  <2> DEFINE c == CloneOf[a]
             r == arcpt[a]
  <2>0. /\ c \in Clones /\ r \in Receipts
        /\ aview[a] = store[c] /\ dlock[c] = a /\ apc[a] \in Holding
    BY <1>8 DEF FinishImport, AgentInv, Holding
  <2>1. store' = store \/ store' = [store EXCEPT ![c] = [store[c] EXCEPT ![r] = "approved"]]
    BY <1>8, <2>0 DEF FinishImport, WriteRow
  <2>2. store' \in [Clones -> Rows]
    <3>1. [store[c] EXCEPT ![r] = "approved"] \in Rows
      BY <2>0 DEF TypeOK, Rows
    <3> QED
      BY <2>0, <2>1, <3>1 DEF TypeOK
  <2>3. TypeOK'
    BY <1>1, <1>8, <2>2 DEF FinishImport, Leave, TypeOK, Rows, NoRows
  <2>4. \A b \in Agents : b # a /\ apc[b] \in Holding => CloneOf[b] # c
    BY <2>0 DEF AgentInv
  <2>5. \A b \in Agents : b # a /\ apc[b] \in Holding => store'[CloneOf[b]] = store[CloneOf[b]]
    BY <2>0, <2>1, <2>4 DEF TypeOK
  <2>6. AgentInv'
    BY <1>8, <2>5 DEF FinishImport, Leave, TypeOK, AgentInv, Holding
  <2>7. ConnInv'
    BY <1>2, <1>8 DEF FinishImport, Leave, TypeOK, BrokerTypeOK, ConnInv, AgentInv
  <2>8. CompletedWasConsumed'
    BY <1>3, <2>0, <2>1 DEF TypeOK, Rows
  <2>9. OneRowPerNonce'
    <3>1. CASE store' = store
      BY <1>4, <3>1
    <3>2. CASE ~Imported(a) /\ store' = [store EXCEPT ![c] = [store[c] EXCEPT ![r] = "approved"]]
      <4>1. \A q \in Receipts : store[c][q] # "none" => NonceOf[q] # NonceOf[r]
        BY <2>0, <3>2 DEF Imported
      <4> QED
        BY <2>0, <3>2, <4>1 DEF OneRowPerNonce, TypeOK
    <3> QED
      BY <1>8, <2>0, <3>1, <3>2 DEF FinishImport, WriteRow
  <2> QED
    BY <1>1, <2>3, <2>6, <2>7, <2>8, <2>9
<1>9. ASSUME NEW a \in Agents, NEW r \in Receipts, BeginEvaluate(a, r)
      PROVE  ApprovalInv'
  <2>1. TypeOK'
    BY <1>1, <1>9 DEF BeginEvaluate, TypeOK, Rows, NoRows
  <2>2. AgentInv'
    BY <1>9 DEF BeginEvaluate, TypeOK, Rows, AgentInv, Holding
  <2>3. ConnInv'
    BY <1>2, <1>9 DEF BeginEvaluate, TypeOK, BrokerTypeOK, ConnInv, AgentInv
  <2>4. CompletedWasConsumed' /\ OneRowPerNonce'
    BY <1>3, <1>4, <1>9 DEF BeginEvaluate
  <2> QED
    BY <1>1, <2>1, <2>2, <2>3, <2>4
<1>10. ASSUME NEW a \in Agents, CheckRow(a)
      PROVE  ApprovalInv'
  <2>1. TypeOK'
    BY <1>1, <1>10 DEF CheckRow, LockAndRead, TypeOK, Rows, NoRows
  <2>2. AgentInv'
    BY <1>10 DEF CheckRow, LockAndRead, TypeOK, Rows, AgentInv
  <2>3. ConnInv'
    BY <1>2, <1>10 DEF CheckRow, LockAndRead, TypeOK, BrokerTypeOK, ConnInv, AgentInv
  <2>4. CompletedWasConsumed' /\ OneRowPerNonce'
    BY <1>3, <1>4, <1>10 DEF CheckRow
  <2> QED
    BY <1>1, <2>1, <2>2, <2>3, <2>4
<1>11. ASSUME NEW a \in Agents, RefuseRow(a)
      PROVE  ApprovalInv'
  <2>1. TypeOK'
    BY <1>1, <1>11 DEF RefuseRow, Leave, TypeOK, Rows, NoRows
  <2>2. AgentInv'
    BY <1>11 DEF RefuseRow, Leave, TypeOK, Rows, AgentInv, Holding
  <2>3. ConnInv'
    BY <1>2, <1>11 DEF RefuseRow, Leave, TypeOK, BrokerTypeOK, ConnInv, AgentInv
  <2>4. CompletedWasConsumed' /\ OneRowPerNonce'
    BY <1>3, <1>4, <1>11 DEF RefuseRow
  <2> QED
    BY <1>1, <2>1, <2>2, <2>3, <2>4
<1>12. ASSUME NEW a \in Agents, NEW k \in Conns, NEW b \in Brokers, SendConsume(a, k, b)
      PROVE  ApprovalInv'
  <2>1. TypeOK'
    BY <1>1, <1>12 DEF SendConsume, Connect, TypeOK, Rows, NoRows
  <2>2. AgentInv'
    BY <1>12 DEF SendConsume, Connect, TypeOK, Rows, AgentInv, Holding
  <2>3. ConnInv'
    BY <1>2, <1>12 DEF SendConsume, Connect, TypeOK, BrokerTypeOK, ConnInv, AgentInv
  <2>4. CompletedWasConsumed' /\ OneRowPerNonce'
    BY <1>3, <1>4, <1>12 DEF SendConsume
  <2> QED
    BY <1>1, <2>1, <2>2, <2>3, <2>4
<1>13. ASSUME NEW a \in Agents, BrokerUnavailable(a)
      PROVE  ApprovalInv'
  <2>1. TypeOK'
    BY <1>1, <1>13 DEF BrokerUnavailable, Leave, TypeOK, Rows, NoRows
  <2>2. AgentInv'
    BY <1>13 DEF BrokerUnavailable, Leave, TypeOK, Rows, AgentInv, Holding
  <2>3. ConnInv'
    BY <1>2, <1>13 DEF BrokerUnavailable, Leave, TypeOK, BrokerTypeOK, ConnInv, AgentInv
  <2>4. CompletedWasConsumed' /\ OneRowPerNonce'
    BY <1>3, <1>4, <1>13 DEF BrokerUnavailable
  <2> QED
    BY <1>1, <2>1, <2>2, <2>3, <2>4
<1>14. ASSUME NEW a \in Agents, ReadConsumed(a)
      PROVE  ApprovalInv'
  <2>1. TypeOK'
    BY <1>1, <1>14 DEF ReadConsumed, Won, TypeOK, Rows, NoRows
  <2>2. AgentInv'
    BY <1>14 DEF ReadConsumed, Won, TypeOK, Rows, AgentInv, Holding
  <2>3. ConnInv'
    BY <1>2, <1>14 DEF ReadConsumed, Won, TypeOK, BrokerTypeOK, ConnInv, AgentInv
  <2>4. CompletedWasConsumed' /\ OneRowPerNonce'
    BY <1>3, <1>4, <1>14 DEF ReadConsumed
  <2> QED
    BY <1>1, <2>1, <2>2, <2>3, <2>4
<1>15. ASSUME NEW a \in Agents, NotConsumed(a)
      PROVE  ApprovalInv'
  <2>1. TypeOK'
    BY <1>1, <1>15 DEF NotConsumed, Leave, TypeOK, Rows, NoRows
  <2>2. AgentInv'
    BY <1>15 DEF NotConsumed, Leave, TypeOK, Rows, AgentInv, Holding
  <2>3. ConnInv'
    BY <1>2, <1>15 DEF NotConsumed, Leave, TypeOK, BrokerTypeOK, ConnInv, AgentInv
  <2>4. CompletedWasConsumed' /\ OneRowPerNonce'
    BY <1>3, <1>4, <1>15 DEF NotConsumed
  <2> QED
    BY <1>1, <2>1, <2>2, <2>3, <2>4
<1>16. ASSUME NEW a \in Agents, Complete(a)
      PROVE  ApprovalInv'
  <2> DEFINE c == CloneOf[a]
             r == arcpt[a]
  <2>0. /\ c \in Clones /\ r \in Receipts
        /\ aview[a] = store[c] /\ dlock[c] = a /\ apc[a] \in Holding
    BY <1>16 DEF Complete, AgentInv, Holding
  <2>1. store' = store \/ store' = [store EXCEPT ![c] = [store[c] EXCEPT ![r] = "completed"]]
    BY <1>16, <2>0 DEF Complete, WriteRow
  <2>2. store' \in [Clones -> Rows]
    <3>1. [store[c] EXCEPT ![r] = "completed"] \in Rows
      BY <2>0 DEF TypeOK, Rows
    <3> QED
      BY <2>0, <2>1, <3>1 DEF TypeOK
  <2>3. TypeOK'
    BY <1>1, <1>16, <2>2 DEF Complete, Leave, TypeOK, Rows, NoRows, ConnInv
  <2>4. \A b \in Agents : b # a /\ apc[b] \in Holding => CloneOf[b] # c
    BY <2>0 DEF AgentInv
  <2>5. \A b \in Agents : b # a /\ apc[b] \in Holding => store'[CloneOf[b]] = store[CloneOf[b]]
    BY <2>0, <2>1, <2>4 DEF TypeOK
  <2>6. AgentInv'
    BY <1>16, <2>5 DEF Complete, Leave, TypeOK, AgentInv, Holding
  <2>7. ConnInv'
    BY <1>2, <1>16 DEF Complete, Leave, TypeOK, BrokerTypeOK, ConnInv, AgentInv
  <2>8. CompletedWasConsumed'
    <3>1. aconn[a] \in Won' /\ cnonce'[aconn[a]] = NonceOf[r]
      BY <1>2, <1>16 DEF Complete, ConnInv
    <3>2. \A d \in Clones, q \in Receipts :
             store'[d][q] = "completed" => store[d][q] = "completed" \/ q = r
      BY <2>0, <2>1, SMTT(30) DEF TypeOK, Rows
    <3> QED
      BY <1>2, <3>1, <3>2 DEF CompletedWasConsumed
  <2>9. OneRowPerNonce'
    <3>1. store[c][r] = "approved"
      BY <1>16 DEF Complete, AgentInv
    <3> QED
      BY <1>4, <2>0, <2>1, <3>1 DEF TypeOK, Rows
  <2> QED
    BY <1>1, <2>3, <2>6, <2>7, <2>8, <2>9
<1>17. ASSUME NEW a \in Agents, AgentExit(a)
      PROVE  ApprovalInv'
  <2>1. TypeOK'
    BY <1>1, <1>17 DEF AgentExit, Leave, TypeOK, Rows, NoRows
  <2>2. AgentInv'
    BY <1>17 DEF AgentExit, Leave, TypeOK, Rows, AgentInv, Holding
  <2>3. ConnInv'
    BY <1>2, <1>17 DEF AgentExit, Leave, TypeOK, BrokerTypeOK, ConnInv, AgentInv
  <2>4. CompletedWasConsumed' /\ OneRowPerNonce'
    BY <1>3, <1>4, <1>17 DEF AgentExit
  <2> QED
    BY <1>1, <2>1, <2>2, <2>3, <2>4
<1>18. ASSUME NEW r \in Receipts, Lapse(r)
      PROVE  ApprovalInv'
  <2>1. TypeOK'
    BY <1>1, <1>18 DEF Lapse, TypeOK, Rows, NoRows
  <2>2. AgentInv'
    BY <1>18 DEF Lapse, TypeOK, Rows, AgentInv
  <2>3. ConnInv'
    BY <1>2, <1>18 DEF Lapse, TypeOK, BrokerTypeOK, ConnInv, AgentInv
  <2>4. CompletedWasConsumed' /\ OneRowPerNonce'
    BY <1>3, <1>4, <1>18 DEF Lapse
  <2> QED
    BY <1>1, <2>1, <2>2, <2>3, <2>4
<1>19. ASSUME HostLoss
      PROVE  ApprovalInv'
  <2>1. TypeOK'
    BY <1>1, <1>19 DEF HostLoss, TypeOK, Rows, NoRows
  <2>2. AgentInv'
    BY <1>19 DEF HostLoss, TypeOK, Rows, AgentInv, Holding
  <2>3. ConnInv'
    BY <1>2, <1>19 DEF HostLoss, TypeOK, BrokerTypeOK, ConnInv
  <2>4. CompletedWasConsumed' /\ OneRowPerNonce'
    <3>1. \A s \in {"none", "approved", "completed"} : \A t \in Older(s) :
             (t = "completed" => s = "completed") /\ (t # "none" => s # "none")
      BY DEF Older
    <3>2. \A c \in Clones, r \in Receipts : store[c][r] \in {"none", "approved", "completed"}
      BY DEF TypeOK, Rows
    <3>3. \A c \in Clones, r \in Receipts : store'[c][r] \in Older(store[c][r])
      BY <1>19 DEF HostLoss
    <3> QED
      BY <1>3, <1>4, <3>1, <3>2, <3>3
  <2> QED
    BY <1>1, <2>1, <2>2, <2>3, <2>4
<1>20. ASSUME UNCHANGED vars
      PROVE  ApprovalInv'
  <2>1. TypeOK'
    BY <1>1, <1>20 DEF vars, agentVars, TypeOK, Rows, NoRows
  <2>2. AgentInv'
    BY <1>20 DEF vars, agentVars, TypeOK, Rows, AgentInv
  <2>3. ConnInv'
    BY <1>2, <1>20 DEF vars, agentVars, TypeOK, BrokerTypeOK, ConnInv, AgentInv
  <2>4. CompletedWasConsumed' /\ OneRowPerNonce'
    BY <1>3, <1>4, <1>20 DEF vars, agentVars
  <2> QED
    BY <1>1, <2>1, <2>2, <2>3, <2>4
<1> QED
  BY <1>5, <1>6, <1>7, <1>8, <1>9, <1>10, <1>11, <1>12, <1>13, <1>14, <1>15, <1>16, <1>17, <1>18, <1>19, <1>20 DEF 
     Next, Agent

-----------------------------------------------------------------------------
(* The whole system starts in ApprovalInv.                                  *)
LEMMA ApprovalInvInit == Init => ApprovalInv
<1> SUFFICES ASSUME Init PROVE ApprovalInv
  OBVIOUS
<1> USE BrokerAssumption, ApprovalAssumption DEF Init, BrokerInit
<1>1. TypeOK
  BY DEF TypeOK, BrokerTypeOK, Rows, NoRows
<1>2. BrokerInv
  BY <1>1 DEF TypeOK, BrokerInv, BaseInv, SyncedInv, PresentInv, LockInv, ServingInv, UndecidedInv,
     FreshInv, WrittenInv, ConsumedIsDurable, ConsumedOnce, Won
<1>3. AgentInv /\ ConnInv
  BY DEF AgentInv, ConnInv, Holding
<1>4. CompletedWasConsumed /\ OneRowPerNonce
  BY DEF CompletedWasConsumed, OneRowPerNonce, NoRows
<1> QED
  BY <1>1, <1>2, <1>3, <1>4 DEF ApprovalInv

(* ApprovalInv holds in every reachable state.                              *)
LEMMA ApprovalInvariant ==
    ASSUME EntryFollowsFile
    PROVE  Spec => []ApprovalInv
<1>1. ApprovalInv /\ [Next]_vars => ApprovalInv'
  BY ApprovalInvStep
<1> QED
  BY <1>1, ApprovalInvInit, PTL DEF Spec

(* No nonce, and so no receipt, ever authorizes two operations: over all    *)
(* clones, agents and daemons, with crashes, timeouts, lost answers and     *)
(* power losses (_consume_operation_approval returns the row only after the *)
(* broker answered CONSUMED).                                               *)
THEOREM OperationAuthorizedOnce ==
    ASSUME EntryFollowsFile
    PROVE  Spec => []AuthorizedOnce
<1>1. ApprovalInv => AuthorizedOnce
  BY DEF ApprovalInv, BrokerInv, ConnInv, ConsumedOnce, AuthorizedOnce
<1> QED
  BY <1>1, ApprovalInvariant, PTL

(* A decision row says completed only if the broker consumed its nonce, and *)
(* a clone never holds two rows for one nonce.                              *)
THEOREM DecisionRowsSound ==
    ASSUME EntryFollowsFile
    PROVE  Spec => [](CompletedWasConsumed /\ OneRowPerNonce)
<1>1. ApprovalInv => CompletedWasConsumed /\ OneRowPerNonce
  BY DEF ApprovalInv
<1> QED
  BY <1>1, ApprovalInvariant, PTL

(* Short of a power loss no agent takes back or overwrites a row of a       *)
(* decision store: what an agent writes is the copy it read under the lock, *)
(* with one row advanced.                                                   *)
THEOREM DecisionsNeverLost ==
    ASSUME EntryFollowsFile
    PROVE  Spec => NoLostDecision
<1> USE ApprovalAssumption
<1> DEFINE Kept == \A c \in Clones, r \in Receipts : Rank(store[c][r]) <= Rank(store'[c][r])
<1>1. ASSUME ApprovalInv, [Next]_vars
      PROVE  [HostLoss \/ Kept]_vars
  <2>1. \A c \in Clones, r \in Receipts : Rank(store[c][r]) \in {0, 1, 2}
    BY DEF Rank
  <2>2. ASSUME store' = store PROVE Kept
    BY <2>1, <2>2
  <2>3. ASSUME NEW a \in Agents, NEW s \in {"approved", "completed"},
               apc[a] \in Holding, WriteRow(a, arcpt[a], s),
               Rank(store[CloneOf[a]][arcpt[a]]) <= Rank(s)
        PROVE  Kept
    <3>1. arcpt[a] \in Receipts /\ CloneOf[a] \in Clones /\ aview[a] = store[CloneOf[a]]
      BY <1>1, <2>3 DEF ApprovalInv, AgentInv, Holding
    <3>2. \A c \in Clones, r \in Receipts :
             \/ store'[c][r] = store[c][r]
             \/ c = CloneOf[a] /\ r = arcpt[a] /\ store'[c][r] = s
      BY <1>1, <2>3, <3>1 DEF WriteRow, ApprovalInv
    <3> QED
      BY <2>1, <2>3, <3>2
  <2>4. ASSUME NEW a \in Agents, FinishImport(a) PROVE Kept
    <3>1. CASE ~Imported(a) /\ WriteRow(a, arcpt[a], "approved")
      <4>1. apc[a] \in Holding /\ arcpt[a] \in Receipts /\ aview[a] = store[CloneOf[a]]
        BY <1>1, <2>4 DEF FinishImport, Holding, ApprovalInv, AgentInv
      <4>2. store[CloneOf[a]][arcpt[a]] = "none"
        BY <3>1, <4>1 DEF Imported
      <4> QED
        BY <2>3, <3>1, <4>1, <4>2 DEF Rank
    <3> QED
      BY <2>2, <2>4, <3>1 DEF FinishImport
  <2>5. ASSUME NEW a \in Agents, Complete(a) PROVE Kept
    <3>1. apc[a] \in Holding /\ store[CloneOf[a]][arcpt[a]] = "approved"
      BY <1>1, <2>5 DEF Complete, Holding, ApprovalInv, AgentInv
    <3> QED
      BY <2>3, <2>5, <3>1 DEF Complete, Rank
  <2> QED
    BY <1>1, <2>2, <2>4, <2>5 DEF Next, Agent, AgentExit, BeginImport, LockForImport, BeginEvaluate,
       CheckRow, RefuseRow, SendConsume, BrokerUnavailable, ReadConsumed, NotConsumed, Lapse, agentVars
<1> QED
  BY <1>1, ApprovalInvariant, PTL DEF Spec, NoLostDecision

-----------------------------------------------------------------------------
(* The agents, the stores and the broker together implement the one-shot    *)
(* approval: FsyncLedger spends a nonce, Complete grants, SendConsume asks, *)
(* and nothing else is visible.                                             *)
THEOREM RefinesOneShot ==
    ASSUME EntryFollowsFile
    PROVE  Spec => ImplementsOneShot
<1> USE BrokerAssumption, ApprovalAssumption
<1>1. Init => OneShot!Init
  BY DEF Init, BrokerInit, OneShot!Init, Won
<1>2. ASSUME ApprovalInv, [Next]_vars
      PROVE  [OneShot!Next]_OneShot!vars
  <2> USE <1>2 DEF ApprovalInv, BrokerInv, BaseInv
  <2>1. ASSUME NEW b \in Brokers, Daemon(b) \/ BrokerExit(b), UNCHANGED agentVars
        PROVE  [OneShot!Next]_OneShot!vars
    <3>0. granted' = granted
      BY <2>1 DEF agentVars
    <3>1. CASE FsyncLedger(b)
      <4> DEFINE k == serving[b]
      <4>1. k \in Conns /\ cnonce[k] # NoOne /\ \A p \in Won : cnonce[p] # cnonce[k]
        BY <3>1 DEF FsyncLedger, ServingInv, WrittenInv
      <4>2. Won' = Won \cup {k} /\ cnonce' = cnonce
        BY <3>1, <4>1 DEF FsyncLedger, Respond, Won, BrokerTypeOK
      <4> QED
        BY <3>0, <4>1, <4>2 DEF OneShot!Next, OneShot!Spend
    <3>2. CASE ~FsyncLedger(b)
      <4>1. Won' = Won /\ cnonce' = cnonce
        BY <2>1, <3>2 DEF Daemon, OpenLedger, SyncDirectory, ScanAtStart, Accept, RejectUnread,
           AnswerHealth, LockLedger, RefuseConsume, FindFresh, AppendRecord, AppendFails, FsyncFails,
           Reply, BrokerExit, Respond, connVars, Won, BrokerTypeOK, UndecidedInv
      <4> QED
        BY <3>0, <4>1 DEF OneShot!vars
    <3> QED
      BY <3>1, <3>2
  <2>2. ASSUME NEW a \in Agents, NEW k \in Conns, NEW b \in Brokers, SendConsume(a, k, b)
        PROVE  OneShot!Next
    <3>1. cnonce[k] = NoOne /\ NonceOf[arcpt[a]] \in Nonces
      BY <2>2 DEF SendConsume, Connect, ConnInv, AgentInv
    <3>2. cnonce' = [cnonce EXCEPT ![k] = NonceOf[arcpt[a]]] /\ Won' = Won /\ granted' = granted
      BY <2>2 DEF SendConsume, Connect, Won
    <3> QED
      BY <3>1, <3>2 DEF OneShot!Next, OneShot!Ask
  <2>3. ASSUME NEW a \in Agents, Complete(a)
        PROVE  [OneShot!Next]_OneShot!vars
    <3>1. aconn[a] \in Won /\ aconn[a] \in Conns
      BY <2>3 DEF Complete, ConnInv
    <3>2. granted' = granted \cup {aconn[a]} /\ cnonce' = cnonce /\ Won' = Won
      BY <2>3 DEF Complete, brokerVars, Won
    <3>3. CASE aconn[a] \in granted
      BY <3>2, <3>3 DEF OneShot!vars
    <3>4. CASE aconn[a] \notin granted
      BY <3>1, <3>2, <3>4 DEF OneShot!Next, OneShot!Grant
    <3> QED
      BY <3>3, <3>4
  <2>4. CASE HostLoss
    BY <2>4 DEF HostLoss, PowerLoss, Won, OneShot!vars
  <2>5. ASSUME UNCHANGED <<brokerVars, granted>>
        PROVE  UNCHANGED OneShot!vars
    BY <2>5 DEF brokerVars, Won, OneShot!vars
  <2> QED
    BY <2>1, <2>2, <2>3, <2>4, <2>5 DEF Next, Agent, AgentExit, BeginImport, LockForImport, FinishImport,
       BeginEvaluate, CheckRow, RefuseRow, BrokerUnavailable, ReadConsumed, NotConsumed, Lapse, vars,
       agentVars
<1> QED
  BY <1>1, <1>2, ApprovalInvariant, PTL DEF Spec, ImplementsOneShot, OneShot!Spec

-----------------------------------------------------------------------------
(***************************************************************************)
(* The classifier.  Every answer is judged in the state in which it was     *)
(* given, because nothing moves until the Agent has acted on it; what has   *)
(* to be carried from one evaluation to the next is that the nonce of an    *)
(* approval which authorized an operation is burnt.                         *)
(***************************************************************************)

(* An operation was authorized at most once, and only with the nonce.       *)
SpentInv == uses <= (IF burnt THEN 1 ELSE 0)

EscalationInv ==
    /\ EscalationTypeOK
    /\ SpentInv
    /\ AuthorizedExactly
    /\ ReusedOnlyUnchanged

(* An answer that keeps the recorded state is one of evaluate_escalation's  *)
(* answers.                                                                 *)
LEMMA AnswerType ==
    ASSUME NEW g \in Gates, NEW r \in Requests, NEW w \in Whys,
           NEW s \in {"BLOCKED", "CONTINUE", "ACTION_REQUIRED"}, Answer(g, r, s, w)
    PROVE  /\ answer' \in [state : {"BLOCKED"}, why : Whys]
                \cup [state : {"CONTINUE", "ACTION_REQUIRED"}, why : Whys, request : Requests, gate : Gates]
           /\ answer'.why = w /\ answer'.state = s
           /\ s # "BLOCKED" => answer'.request = r /\ answer'.gate = g
  BY DEF Answer

(* An answer that is neither an authorization nor a reuse has nothing to    *)
(* show but the label of its effects.                                       *)
LEMMA OrdinaryAnswer ==
    ASSUME NEW g \in Gates, NEW r \in Requests, NEW w \in Whys \ {"authorized", "reused"},
           NEW s \in {"BLOCKED", "CONTINUE", "ACTION_REQUIRED"}, Answer(g, r, s, w),
           s # "BLOCKED" => ~Refused(g, r), uses' <= 1
    PROVE  AuthorizedExactly' /\ ReusedOnlyUnchanged'
<1>1. answer'.why = w /\ answer'.state = s /\ (s # "BLOCKED" => answer'.request = r)
  BY AnswerType
<1>2. s # "BLOCKED" /\ r.effects # {} => r.risk = "L3"
  BY DEF Refused, Downgraded
<1>3. answer' # NoAnswer
  BY <1>1, AnswerType DEF NoAnswer
<1> QED
  BY <1>1, <1>2, <1>3 DEF AuthorizedExactly, ReusedOnlyUnchanged, Because

(* Nothing is due while no answer stands.                                   *)
LEMMA NothingDue ==
    ASSUME answer' = NoAnswer, uses' <= 1
    PROVE  AuthorizedExactly' /\ ReusedOnlyUnchanged'
  BY DEF AuthorizedExactly, ReusedOnlyUnchanged, Because

(* Every evaluation preserves EscalationInv.                                *)
LEMMA EvaluateKeepsInv ==
    ASSUME EscalationInv, NEW g \in Gates, NEW r \in Requests, Quiet, Evaluate(g, r)
    PROVE  EscalationInv'
<1> USE EscalationAssumption DEF EscalationInv
<1>0. uses <= 1 /\ uses \in Nat
  BY DEF SpentInv, EscalationTypeOK
<1>1. ASSUME NEW w \in Whys \ {"authorized", "reused"}, NEW s \in {"BLOCKED", "CONTINUE", "ACTION_REQUIRED"},
             Say(g, r, s, w), s # "BLOCKED" => ~Refused(g, r)
      PROVE  EscalationInv'
  <2>1. Answer(g, r, s, w) /\ UNCHANGED <<profile, files, decision, approval, burnt, queued, uses>>
    BY <1>1 DEF Say
  <2>2. EscalationTypeOK'
    BY <2>1, AnswerType DEF EscalationTypeOK
  <2>3. AuthorizedExactly' /\ ReusedOnlyUnchanged'
    BY <1>0, <1>1, <2>1, OrdinaryAnswer
  <2> QED
    BY <2>1, <2>2, <2>3 DEF SpentInv
<1>2. CASE Refuse(g, r)
  BY <1>1, <1>2 DEF Refuse, Whys
<1>3. CASE Inform(g, r)
  BY <1>1, <1>3 DEF Inform, Whys
<1>4. CASE Investigate(g, r)
  BY <1>1, <1>4 DEF Investigate, Whys
<1>5. CASE PreAuthorized(g, r)
  BY <1>1, <1>5 DEF PreAuthorized, Whys
<1>6. CASE ReuseDecision(g, r)
  <2>1. CASE ~Reusable(r)
    BY <1>1, <1>6, <2>1 DEF ReuseDecision, Whys
  <2>2. CASE Reusable(r)
    <3>1. Say(g, r, "CONTINUE", "reused") /\ ~Refused(g, r) /\ r.category = "product_decision"
      BY <1>6, <2>2 DEF ReuseDecision
    <3>2. /\ Answer(g, r, "CONTINUE", "reused")
          /\ UNCHANGED <<profile, files, decision, approval, burnt, queued, uses>>
      BY <3>1 DEF Say
    <3>3. /\ answer'.why = "reused" /\ answer'.state = "CONTINUE" /\ answer'.request = r
          /\ EscalationTypeOK'
      BY <3>2, AnswerType DEF EscalationTypeOK, Whys
    <3>4. r.effects = {}
      BY <3>1 DEF Refused, Downgraded
    <3>5. r.fields \subseteq {"decision", "otherScope", "package", "wrongPackage", "unrelated"}
      <4>1. Allowed("product_decision") = {"decision", "otherScope", "package", "wrongPackage", "unrelated"}
        BY DEF Allowed, HighRisk, OwnerActions
      <4>2. r.fields \subseteq Allowed(r.category)
        BY <3>1 DEF Refused, OutsideSchema
      <4> QED
        BY <3>1, <4>1, <4>2
    <3>6. "decision" \in r.fields /\ "otherScope" \notin r.fields /\ "wrongPackage" \notin r.fields
      BY <2>2 DEF Reusable, Requests
    <3>7. /\ decision.files = files /\ decision.live
          /\ decision.mode = "plain" => profile = "team-standard"
      BY <2>2 DEF Reusable, DecisionHolds
    <3>8. ReusedOnlyUnchanged'
      BY <3>2, <3>3, <3>4, <3>5, <3>6, <3>7 DEF ReusedOnlyUnchanged
    <3>9. AuthorizedExactly'
      BY <1>0, <3>2, <3>3, <3>4 DEF AuthorizedExactly, Because
    <3> QED
      BY <3>2, <3>3, <3>8, <3>9 DEF SpentInv
  <2> QED
    BY <2>1, <2>2
<1>7. CASE RefuseOperation(g, r)
  BY <1>1, <1>7 DEF RefuseOperation, Whys
<1>8. CASE Authorize(g, r)
  <2>1. /\ ~Refused(g, r) /\ r.category \in HighRisk
        /\ approval # NoApproval /\ ~burnt /\ burnt'
        /\ approval.payload = [category |-> r.category, effects |-> r.effects]
        /\ approval' = [approval EXCEPT !.status = "completed"]
        /\ uses' = uses + 1
        /\ Answer(g, r, "CONTINUE", "authorized")
        /\ UNCHANGED <<profile, files, decision, queued>>
    BY <1>8 DEF Authorize, NamesApproval, Covered
  <2>2. /\ approval'.payload = approval.payload /\ approval'.status = "completed"
        /\ approval' \in [payload : Payloads, status : {"approved", "completed"}, live : BOOLEAN]
    BY <2>1 DEF EscalationTypeOK
  <2>3. /\ answer'.why = "authorized" /\ answer'.state = "CONTINUE"
        /\ answer'.request = r /\ answer'.gate = g
        /\ EscalationTypeOK'
    BY <1>0, <2>1, <2>2, AnswerType DEF EscalationTypeOK, Whys
  <2>4. r.risk = "L3" /\ g # "red"
    BY <2>1 DEF Refused, Downgraded, GateClosed
  <2>5. uses' <= 1 /\ SpentInv'
    BY <1>0, <2>1 DEF SpentInv
  <2>6. AuthorizedExactly'
    BY <2>1, <2>2, <2>3, <2>4, <2>5 DEF AuthorizedExactly
  <2>7. ReusedOnlyUnchanged'
    BY <2>3 DEF ReusedOnlyUnchanged, Because
  <2> QED
    BY <2>3, <2>5, <2>6, <2>7
<1>9. CASE ControlPlaneBlocked(g, r)
  <2>1. /\ burnt' \in {burnt, TRUE} /\ Answer(g, r, "BLOCKED", "refused")
        /\ UNCHANGED <<profile, files, decision, approval, queued, uses>>
    BY <1>9 DEF ControlPlaneBlocked
  <2>2. EscalationTypeOK'
    <3>1. burnt \in BOOLEAN /\ burnt' \in BOOLEAN
      BY <2>1 DEF EscalationTypeOK
    <3>2. answer' \in [state : {"BLOCKED"}, why : Whys]
            \cup [state : {"CONTINUE", "ACTION_REQUIRED"}, why : Whys, request : Requests, gate : Gates]
      BY <2>1, AnswerType DEF Whys
    <3> QED
      BY <2>1, <3>1, <3>2 DEF EscalationTypeOK
  <2>3. AuthorizedExactly' /\ ReusedOnlyUnchanged'
    BY <1>0, <2>1, OrdinaryAnswer DEF Whys
  <2>4. SpentInv'
    <3>1. burnt => burnt'
      BY <2>1
    <3>2. uses <= (IF burnt THEN 1 ELSE 0) /\ uses' = uses
      BY <2>1 DEF SpentInv
    <3>3. uses' <= (IF burnt' THEN 1 ELSE 0)
      BY <1>0, <3>1, <3>2
    <3> QED
      BY <3>3 DEF SpentInv
  <2> QED
    BY <2>2, <2>3, <2>4
<1>10. CASE RefusePackage(g, r)
  BY <1>1, <1>10 DEF RefusePackage, Whys
<1>11. CASE AskDecision(g, r)
  BY <1>1, <1>11 DEF AskDecision, Unanswered, AskState, AskWhy, Whys
<1>12. ASSUME NEW w \in Whys \ {"authorized", "reused"}, NEW s \in {"BLOCKED", "CONTINUE", "ACTION_REQUIRED"},
              Answer(g, r, s, w), s # "BLOCKED" => ~Refused(g, r),
              queued' \in {"none", "pending", "completed", "cancelled", "expired"},
              UNCHANGED <<profile, files, decision, approval, burnt, uses>>
       PROVE  EscalationInv'
  <2>1. EscalationTypeOK'
    BY <1>12, AnswerType DEF EscalationTypeOK
  <2>2. AuthorizedExactly' /\ ReusedOnlyUnchanged'
    BY <1>0, <1>12, OrdinaryAnswer
  <2> QED
    BY <1>12, <2>1, <2>2 DEF SpentInv
<1>13. CASE QueueAction(g, r)
  BY <1>12, <1>13 DEF QueueAction, Unanswered, AskState, AskWhy, Whys
<1>14. CASE FindAction(g, r)
  <2>1. /\ ~Refused(g, r)
        /\ queued' \in {"none", "pending", "completed", "cancelled", "expired"}
        /\ UNCHANGED <<profile, files, decision, approval, burnt, uses>>
    BY <1>14 DEF FindAction, Unanswered, EscalationTypeOK
  <2>2. \/ Answer(g, r, "CONTINUE", "completed") \/ Answer(g, r, "CONTINUE", "unrelated")
        \/ Answer(g, r, "BLOCKED", "refused")
    BY <1>14 DEF FindAction
  <2> QED
    BY <1>12, <2>1, <2>2 DEF Whys
<1> QED
  BY <1>2, <1>3, <1>4, <1>5, <1>6, <1>7, <1>8, <1>9, <1>10, <1>11, <1>13, <1>14 DEF Evaluate

(* The Agent, the owner, the repository and the clock preserve it.          *)
LEMMA EscalationInvStep ==
    ASSUME EscalationInv, [EscalationNext]_escalationVars
    PROVE  EscalationInv'
<1> USE EscalationAssumption DEF EscalationInv
<1>0. uses <= 1 /\ uses \in Nat
  BY DEF SpentInv, EscalationTypeOK
<1>1. CASE Quiet /\ \E g \in Gates, r \in Requests : Evaluate(g, r)
  BY <1>1, EvaluateKeepsInv
<1>2. ASSUME answer' = NoAnswer, UNCHANGED <<burnt, uses>>, EscalationTypeOK'
      PROVE  EscalationInv'
  BY <1>0, <1>2, NothingDue DEF SpentInv
<1>3. CASE ActOnAnswer
  BY <1>2, <1>3 DEF ActOnAnswer, EscalationTypeOK
<1>4. ASSUME NEW m \in Modes, ApproveDecision(m)
      PROVE  EscalationInv'
  BY <1>2, <1>4 DEF ApproveDecision, Quiet, EscalationTypeOK
<1>5. CASE DecisionExpires
  <2>1. decision \in [mode : Modes, files : {1, 2}, live : BOOLEAN]
    BY <1>5 DEF DecisionExpires, EscalationTypeOK, NoDecision
  <2>2. decision' \in [mode : Modes, files : {1, 2}, live : BOOLEAN]
    BY <1>5, <2>1 DEF DecisionExpires
  <2> QED
    BY <1>2, <1>5, <2>2 DEF DecisionExpires, Quiet, EscalationTypeOK
<1>6. ASSUME NEW v \in {1, 2}, NEW p \in Profiles, EditRepository(v, p)
      PROVE  EscalationInv'
  BY <1>2, <1>6 DEF EditRepository, Quiet, EscalationTypeOK
<1>7. ASSUME NEW p \in Payloads, ImportApproval(p)
      PROVE  EscalationInv'
  BY <1>2, <1>7 DEF ImportApproval, Quiet, EscalationTypeOK
<1>8. CASE ApprovalExpires
  <2>1. approval' \in [payload : Payloads, status : {"approved", "completed"}, live : BOOLEAN]
    BY <1>8 DEF ApprovalExpires, EscalationTypeOK
  <2> QED
    BY <1>2, <1>8, <2>1 DEF ApprovalExpires, Quiet, EscalationTypeOK
<1>9. ASSUME NEW s \in {"completed", "cancelled"}, ResolveAction(s)
      PROVE  EscalationInv'
  BY <1>2, <1>9 DEF ResolveAction, Quiet, EscalationTypeOK
<1>10. CASE UNCHANGED escalationVars
  <2>1. EscalationTypeOK' /\ SpentInv'
    BY <1>10 DEF escalationVars, EscalationTypeOK, SpentInv
  <2> QED
    BY <1>10, <2>1 DEF escalationVars, AuthorizedExactly, ReusedOnlyUnchanged, Because
<1> QED
  BY <1>1, <1>3, <1>4, <1>5, <1>6, <1>7, <1>8, <1>9, <1>10 DEF EscalationNext

(* EscalationInv holds in every reachable state.                            *)
LEMMA EscalationInvariant == EscalationSpec => []EscalationInv
<1>1. EscalationInit => EscalationInv
  <2> SUFFICES ASSUME EscalationInit PROVE EscalationInv
    OBVIOUS
  <2>1. EscalationTypeOK
    BY DEF EscalationInit, EscalationTypeOK
  <2>2. SpentInv
    BY DEF EscalationInit, SpentInv
  <2>3. AuthorizedExactly /\ ReusedOnlyUnchanged
    BY DEF EscalationInit, AuthorizedExactly, ReusedOnlyUnchanged, Because
  <2> QED
    BY <2>1, <2>2, <2>3 DEF EscalationInv
<1> QED
  BY <1>1, EscalationInvStep, PTL DEF EscalationSpec

(* A low label never lets an effect through, and an approval authorizes     *)
(* exactly what was signed, once, with its nonce burnt and the deployment   *)
(* guards true, in every sequence of evaluations (evaluate_escalation and   *)
(* evaluate_deployment, autonomy.py).                                       *)
THEOREM AuthorizationIsExact == EscalationSpec => []AuthorizedExactly
<1>1. EscalationInv => AuthorizedExactly
  BY DEF EscalationInv
<1> QED
  BY <1>1, EscalationInvariant, PTL

(* A recorded product decision is reused only for unchanged files, and      *)
(* carries no operation and no effect (_plain_l2_approval_matches and       *)
(* _verify_product_envelope, autonomy.py).                                  *)
THEOREM ReuseNeedsUnchangedFiles == EscalationSpec => []ReusedOnlyUnchanged
<1>1. EscalationInv => ReusedOnlyUnchanged
  BY DEF EscalationInv
<1> QED
  BY <1>1, EscalationInvariant, PTL

-----------------------------------------------------------------------------
(***************************************************************************)
(* Work claims.  claim_work takes no lock, and OneHolder fails.  What does  *)
(* hold is that no file ever claims a work package twice, whatever was lost *)
(* between the read and the write.                                          *)
(***************************************************************************)

(* A call of claim_work knows its package and, once it has prepared the     *)
(* new file, finds its own claim in it.                                     *)
CallerInv ==
    \A a \in Claimants :
        /\ pc[a] # "idle" => want[a] \in Packages
        /\ pc[a] \in {"write", "emit"} =>
             \E c \in active[a] : c.agent = a /\ c.package = want[a]

(* No work package is claimed twice in the file or in what replaces it.     *)
FileInv == Disjoint(claims) /\ \A a \in Claimants : Disjoint(active[a])

ClaimInv == ClaimsTypeOK /\ CallerInv /\ FileInv

(* The claim a call returns is in the file it wrote.                        *)
LEMMA MineIsPrepared ==
    ASSUME CallerInv, NEW a \in Claimants, pc[a] \in {"write", "emit"}
    PROVE  Mine(a) \in active[a]
BY DEF CallerInv, Mine

(* Every step of a call preserves ClaimInv.                                 *)
LEMMA ClaimInvStep ==
    ASSUME MaxTime \in Nat, MaxTtl \in Nat \ {0}, ClaimInv, [ClaimsNext]_claimVars
    PROVE  ClaimInv'
<1> USE DEF ClaimInv, ClaimsTypeOK, Claim, CallerInv, FileInv, Goto, EndCall
<1>1. ASSUME NEW a \in Claimants, NEW p \in Packages, NEW t \in Ttls, Begin(a, p, t)
      PROVE  ClaimInv'
  BY <1>1 DEF Begin, Disjoint
<1>2. ASSUME NEW a \in Claimants, RefuseClaim(a) \/ Crash(a)
      PROVE  ClaimInv'
  BY <1>2 DEF RefuseClaim, Crash, Disjoint
<1>3. ASSUME NEW a \in Claimants, Prepare(a)
      PROVE  ClaimInv'
  <2> DEFINE S == StillActive(active[a])
             c == NewClaim(a)
  <2>1. /\ pc[a] = "read" /\ pc' = [pc EXCEPT ![a] = "write"] /\ active' = [active EXCEPT ![a] = S \cup {c}]
        /\ UNCHANGED <<claims, now, want, ttl, held>>
    BY <1>3 DEF Prepare
  <2>2. c \in Claim /\ c.agent = a /\ c.package = want[a]
    BY <2>1 DEF NewClaim
  <2>3. S \subseteq active[a] /\ \A d \in S : d.package # c.package
    BY <1>3, <2>2 DEF Prepare, StillActive, Taken
  <2> HIDE DEF S, c
  <2>4. ClaimsTypeOK'
    BY <2>1, <2>2, <2>3
  <2>5. CallerInv'
    BY <2>1, <2>2
  <2>6. Disjoint(S \cup {c})
    BY <2>3 DEF Disjoint
  <2>7. FileInv'
    <3>1. Disjoint(claims)' /\ \A b \in Claimants \ {a} : active'[b] = active[b]
      BY <2>1 DEF Disjoint
    <3>2. active'[a] = S \cup {c}
      BY <2>1
    <3> QED
      BY <2>6, <3>1, <3>2 DEF Disjoint
  <2> QED
    BY <2>4, <2>5, <2>7
<1>4. ASSUME NEW a \in Claimants, Replace(a)
      PROVE  ClaimInv'
  BY <1>4 DEF Replace, Disjoint
<1>5. ASSUME NEW a \in Claimants, EmitAndReturn(a)
      PROVE  ClaimInv'
  <2>1. Mine(a) \in Claim
    BY <1>5, MineIsPrepared DEF EmitAndReturn
  <2> QED
    BY <1>5, <2>1 DEF EmitAndReturn, Disjoint
<1>6. CASE Tick
  BY <1>6 DEF Tick, Disjoint
<1>7. CASE UNCHANGED claimVars
  BY <1>7 DEF claimVars, Disjoint
<1> QED
  BY <1>1, <1>2, <1>3, <1>4, <1>5, <1>6, <1>7 DEF ClaimsNext

(* In the first file nothing is claimed.                                    *)
LEMMA ClaimInvInit ==
    ASSUME MaxTime \in Nat, MaxTtl \in Nat \ {0}, ClaimsInit
    PROVE  ClaimInv
BY DEF ClaimsInit, ClaimInv, ClaimsTypeOK, Claim, CallerInv, FileInv, Disjoint

(* work-claims.json never names a work package twice, although calls of     *)
(* claim_work overwrite each other's file (governance.py): a lost claim     *)
(* cannot be told from the file.                                            *)
THEOREM FileClaimsOnce ==
    ASSUME MaxTime \in Nat, MaxTtl \in Nat \ {0}
    PROVE  ClaimsSpec => [](ClaimsTypeOK /\ Disjoint(claims))
<1>1. ClaimsInit => ClaimInv
  BY ClaimInvInit
<1>2. ClaimInv /\ [ClaimsNext]_claimVars => ClaimInv'
  BY ClaimInvStep
<1>3. ClaimInv => ClaimsTypeOK /\ Disjoint(claims)
  BY DEF ClaimInv, FileInv
<1> QED
  BY <1>1, <1>2, <1>3, PTL DEF ClaimsSpec
=============================================================================
