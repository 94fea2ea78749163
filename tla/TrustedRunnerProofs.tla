------------------------ MODULE TrustedRunnerProofs ------------------------
(***************************************************************************)
(* Proofs about TrustedRunner for every number of activations, receipts and *)
(* versions of the approver stores.                                         *)
(*                                                                          *)
(* SpendInv follows a receipt from the decision to the credential: the      *)
(* broker's ledger, which no crash takes back, is what separates two        *)
(* activations with one receipt.  BoundInv follows the fixed approver store *)
(* from its comparison to the decision: whoever replaces it in between is   *)
(* on record, whatever is put back later.  The last three follow            *)
(* credential, child and result through the finally block.                  *)
(***************************************************************************)
EXTENDS TrustedRunner, TLAPS

(* From the decision to the opening of the credential ...                   *)
Decided == {"decided", "consumed", "verified"}

(* ... and from there to the end of the child.                              *)
Holding == {"opened", "isolated", "waiting", "terminating", "killing", "ended", "endedLate"}

(* The finally block of execute and what follows it.                        *)
Finishing == {"cleanup", "removing", "signing", "signed", "dead"}

(* An activation that got its receipt's one decision, and may open the      *)
(* credential or has done so.                                               *)
Winner(r) == pc[r] \in Decided \/ r \in opened

SpendInv ==
    /\ \A r \in Runners : pc[r] \notin {"idle"} \cup Finishing => request[r] \in Receipts
    /\ \A r \in Runners : r \in opened => pc[r] \in Holding \cup Finishing
    /\ \A r \in Runners : Winner(r) => request[r] \in spent
    /\ \A r, s \in Runners : Winner(r) /\ Winner(s) /\ request[r] = request[s] => r = s

BoundInv ==
    \A r \in Runners :
        /\ pc[r] \in Approving => fixedStore = Bound \/ r \in disturbed
        /\ Winner(r) => /\ decidedUnder[r] \in Versions
                        /\ request[r] \in Trusts[decidedUnder[r]]
                        /\ decidedUnder[r] = Bound \/ r \in disturbed

(* Where the credential and the isolation root are.                         *)
SecretInv ==
    \A r \in Runners :
        /\ pc[r] \in Holding => secret[r] = "held" /\ r \in opened
        /\ pc[r] \in {"removing", "signing", "signed"} => secret[r] # "held"
        /\ pc[r] \in {"signing", "signed"} /\ isolation[r] => ~result[r].isolation_root_removed

(* Until the child was observed the result claims nothing of it.            *)
ResultInv ==
    \A r \in Runners :
        /\ pc[r] \notin Finishing =>
            /\ result[r].outcome = "stopped_fail_closed"
            /\ result[r].descriptors_closed
            /\ ~result[r].runtime_started
        /\ pc[r] \in {"waiting", "terminating", "killing", "ended", "endedLate"} => child[r] # "none"
        /\ pc[r] \in {"ended", "endedLate"} => child[r] # "running"
        /\ result[r].approval_consumed => pc[r] # "idle" /\ request[r] \in spent
        /\ result[r].runtime_started => child[r] # "none"

(* What a completed outcome stands on.                                      *)
CompletedAt(r) ==
    /\ child[r] = "completed" /\ ~result[r].timed_out
    /\ result[r].runtime_started /\ result[r].descriptors_closed
    /\ request[r] \in spent
    /\ pc[r] = "cleanup" => secret[r] = "held"
    /\ pc[r] \in {"removing", "signing", "signed"} => secret[r] = "zeroized"
    /\ pc[r] \in {"signing", "signed"} => ~isolation[r]

CompletedInv == \A r \in Runners : result[r].outcome = "completed" => CompletedAt(r)

RunnerInv == TypeOK /\ SpendInv /\ BoundInv /\ SecretInv /\ ResultInv /\ CompletedInv

-----------------------------------------------------------------------------
(* A result whose fields are set as execute sets them is a result.          *)
LEMMA ResultFields ==
    ASSUME NEW v \in Results, NEW c \in BOOLEAN, NEW o \in {"stopped_fail_closed", "completed"}
    PROVE  /\ [v EXCEPT !.approval_consumed = c] \in Results
           /\ [v EXCEPT !.credential_material_opened = c] \in Results
           /\ [v EXCEPT !.descriptors_closed = c] \in Results
           /\ [v EXCEPT !.runtime_started = TRUE, !.timed_out = c, !.outcome = o] \in Results
           /\ [v EXCEPT !.isolation_root_removed = FALSE, !.outcome = o] \in Results
<1>1. [v EXCEPT !.approval_consumed = c] \in Results
  BY DEF Results
<1>2. [v EXCEPT !.credential_material_opened = c] \in Results
  BY DEF Results
<1>3. [v EXCEPT !.descriptors_closed = c] \in Results
  BY DEF Results
<1>4. [v EXCEPT !.runtime_started = TRUE, !.timed_out = c, !.outcome = o] \in Results
  BY DEF Results
<1>5. [v EXCEPT !.isolation_root_removed = FALSE, !.outcome = o] \in Results
  BY DEF Results
<1> QED
  BY <1>1, <1>2, <1>3, <1>4, <1>5

(* Whatever execute notes in the result of one activation, the results keep *)
(* their type.                                                              *)
LEMMA ResultChanges ==
    ASSUME result \in [Runners -> Results], NEW r \in Runners,
           \/ result' = result
           \/ result' = [result EXCEPT ![r].approval_consumed = TRUE]
           \/ result' = [result EXCEPT ![r].credential_material_opened = TRUE]
           \/ \E c \in BOOLEAN : result' = [result EXCEPT ![r].descriptors_closed = c]
           \/ \E c \in BOOLEAN, o \in {"stopped_fail_closed", "completed"} :
                result' = [result EXCEPT ![r].runtime_started = TRUE, ![r].timed_out = c,
                                         ![r].outcome = o]
           \/ result' = [result EXCEPT ![r].isolation_root_removed = FALSE,
                                       ![r].outcome = "stopped_fail_closed"]
    PROVE  result' \in [Runners -> Results]
<1>1. result[r] \in Results
  OBVIOUS
<1>2. ASSUME result' = [result EXCEPT ![r].approval_consumed = TRUE]
      PROVE  result' \in [Runners -> Results]
  <2>1. [result[r] EXCEPT !.approval_consumed = TRUE] \in Results
    BY <1>1, ResultFields
  <2> QED
    BY <1>2, <2>1
<1>3. ASSUME result' = [result EXCEPT ![r].credential_material_opened = TRUE]
      PROVE  result' \in [Runners -> Results]
  <2>1. [result[r] EXCEPT !.credential_material_opened = TRUE] \in Results
    BY <1>1, ResultFields
  <2> QED
    BY <1>3, <2>1
<1>4. ASSUME NEW c \in BOOLEAN, result' = [result EXCEPT ![r].descriptors_closed = c]
      PROVE  result' \in [Runners -> Results]
  <2>1. [result[r] EXCEPT !.descriptors_closed = c] \in Results
    BY <1>1, ResultFields
  <2> QED
    BY <1>4, <2>1
<1>5. ASSUME NEW c \in BOOLEAN, NEW o \in {"stopped_fail_closed", "completed"},
             result' = [result EXCEPT ![r].runtime_started = TRUE, ![r].timed_out = c,
                                      ![r].outcome = o]
      PROVE  result' \in [Runners -> Results]
  <2>1. [result[r] EXCEPT !.runtime_started = TRUE, !.timed_out = c, !.outcome = o] \in Results
    BY <1>1, ResultFields
  <2> QED
    BY <1>5, <2>1
<1>6. ASSUME result' = [result EXCEPT ![r].isolation_root_removed = FALSE,
                                      ![r].outcome = "stopped_fail_closed"]
      PROVE  result' \in [Runners -> Results]
  <2>1. [result[r] EXCEPT !.isolation_root_removed = FALSE, !.outcome = "stopped_fail_closed"]
          \in Results
    BY <1>1, ResultFields
  <2> QED
    BY <1>6, <2>1
<1> QED
  BY <1>2, <1>3, <1>4, <1>5, <1>6

(* Every step of an activation and of its surroundings preserves RunnerInv. *)
LEMMA RunnerInvStep ==
    ASSUME RunnerInv, [Next]_vars
    PROVE  RunnerInv'
<1> USE RunnerAssumption DEF RunnerInv, approvals, world, held, Goto
<1>1. ASSUME NEW r \in Runners, NEW q \in Receipts, Receive(r, q)
      PROVE  RunnerInv'
  <2>1. TypeOK'
    BY <1>1, SMTT(30) DEF Receive, TypeOK, Results
  <2>2. SpendInv'
    BY <1>1 DEF Receive, TypeOK, SpendInv, Winner, Decided, Holding, Finishing
  <2>3. BoundInv'
    BY <1>1 DEF Receive, TypeOK, SpendInv, BoundInv, Approving, Winner, Decided, Holding, Finishing
  <2>4. SecretInv'
    BY <1>1 DEF Receive, TypeOK, SecretInv, Holding, Finishing
  <2>5. ResultInv'
    <3>1. \A x \in Runners : pc'[x] # pc[x] => x = r /\ pc[x] = "idle" /\ pc'[x] \in {"received", "dead"}
      BY <1>1 DEF Receive, TypeOK
    <3>2. \A x \in Runners : request'[x] # request[x] => x = r /\ pc[x] = "idle"
      BY <1>1 DEF Receive, TypeOK
    <3>3. UNCHANGED <<result, child, spent>>
      BY <1>1 DEF Receive
    <3>4. pc[r] = "idle"
      BY <1>1 DEF Receive
    <3> QED
      BY <3>1, <3>2, <3>3, <3>4 DEF ResultInv, Finishing
  <2>6. CompletedInv'
    BY <1>1 DEF Receive, TypeOK, ResultInv, CompletedInv, CompletedAt, Finishing
  <2> QED
    BY <2>1, <2>2, <2>3, <2>4, <2>5, <2>6
<1>2. ASSUME NEW r \in Runners, Validate(r)
      PROVE  RunnerInv'
  <2>1. TypeOK'
    BY <1>2 DEF Validate, Abort, TypeOK, Results
  <2>2. SpendInv'
    BY <1>2 DEF Validate, Abort, TypeOK, SpendInv, Winner, Decided, Holding, Finishing
  <2>3. BoundInv'
    BY <1>2 DEF Validate, Abort, TypeOK, SpendInv, BoundInv, Approving, Winner, Decided, Holding, Finishing
  <2>4. SecretInv'
    BY <1>2 DEF Validate, Abort, TypeOK, SecretInv, Holding, Finishing
  <2>5. ResultInv'
    BY <1>2 DEF Validate, Abort, TypeOK, ResultInv, Finishing
  <2>6. CompletedInv'
    BY <1>2 DEF Validate, Abort, TypeOK, ResultInv, CompletedInv, CompletedAt, Finishing
  <2> QED
    BY <2>1, <2>2, <2>3, <2>4, <2>5, <2>6
<1>3. ASSUME NEW r \in Runners, LockApprovals(r)
      PROVE  RunnerInv'
  <2>1. TypeOK'
    BY <1>3 DEF LockApprovals, Step, TypeOK, Results
  <2>2. SpendInv'
    BY <1>3 DEF LockApprovals, Step, TypeOK, SpendInv, Winner, Decided, Holding, Finishing
  <2>3. BoundInv'
    BY <1>3 DEF LockApprovals, Step, TypeOK, SpendInv, BoundInv, Approving, Winner, Decided, Holding, Finishing
  <2>4. SecretInv'
    BY <1>3 DEF LockApprovals, Step, TypeOK, SecretInv, Holding, Finishing
  <2>5. ResultInv'
    BY <1>3 DEF LockApprovals, Step, TypeOK, ResultInv, Finishing
  <2>6. CompletedInv'
    BY <1>3 DEF LockApprovals, Step, TypeOK, ResultInv, CompletedInv, CompletedAt, Finishing
  <2> QED
    BY <2>1, <2>2, <2>3, <2>4, <2>5, <2>6
<1>4. ASSUME NEW r \in Runners, LockUnavailable(r)
      PROVE  RunnerInv'
  <2>1. TypeOK'
    BY <1>4 DEF LockUnavailable, Abort, TypeOK, Results
  <2>2. SpendInv'
    BY <1>4 DEF LockUnavailable, Abort, TypeOK, SpendInv, Winner, Decided, Holding, Finishing
  <2>3. BoundInv'
    BY <1>4 DEF LockUnavailable, Abort, TypeOK, SpendInv, BoundInv, Approving, Winner, Decided, Holding, Finishing
  <2>4. SecretInv'
    BY <1>4 DEF LockUnavailable, Abort, TypeOK, SecretInv, Holding, Finishing
  <2>5. ResultInv'
    BY <1>4 DEF LockUnavailable, Abort, TypeOK, ResultInv, Finishing
  <2>6. CompletedInv'
    BY <1>4 DEF LockUnavailable, Abort, TypeOK, ResultInv, CompletedInv, CompletedAt, Finishing
  <2> QED
    BY <2>1, <2>2, <2>3, <2>4, <2>5, <2>6
<1>5. ASSUME NEW r \in Runners, CheckAuthority(r)
      PROVE  RunnerInv'
  <2>1. TypeOK'
    BY <1>5 DEF CheckAuthority, Abort, TypeOK, Results
  <2>2. SpendInv'
    BY <1>5 DEF CheckAuthority, Abort, TypeOK, SpendInv, Winner, Decided, Holding, Finishing
  <2>3. BoundInv'
    BY <1>5 DEF CheckAuthority, Abort, TypeOK, SpendInv, BoundInv, Approving, Winner, Decided, Holding, Finishing
  <2>4. SecretInv'
    BY <1>5 DEF CheckAuthority, Abort, TypeOK, SecretInv, Holding, Finishing
  <2>5. ResultInv'
    BY <1>5 DEF CheckAuthority, Abort, TypeOK, ResultInv, Finishing
  <2>6. CompletedInv'
    BY <1>5 DEF CheckAuthority, Abort, TypeOK, ResultInv, CompletedInv, CompletedAt, Finishing
  <2> QED
    BY <2>1, <2>2, <2>3, <2>4, <2>5, <2>6
<1>6. ASSUME NEW r \in Runners, Import(r)
      PROVE  RunnerInv'
  <2>1. TypeOK'
    <3>1. rows' \in [Receipts -> {"none", "approved", "completed"}]
      BY <1>6 DEF Import, TypeOK
    <3>2. pc' = [pc EXCEPT ![r] = "imported"] \/ pc' = [pc EXCEPT ![r] = "cleanup"]
      BY <1>6 DEF Import, Abort
    <3>3. lock' \in Runners \cup {NoOne}
      BY <1>6 DEF Import, Abort, TypeOK
    <3> QED
      BY <1>6, <3>1, <3>2, <3>3 DEF Import, TypeOK
  <2>2. SpendInv'
    BY <1>6 DEF Import, Abort, TypeOK, SpendInv, Winner, Decided, Holding, Finishing
  <2>3. BoundInv'
    BY <1>6 DEF Import, Abort, TypeOK, SpendInv, BoundInv, Approving, Winner, Decided, Holding, Finishing
  <2>4. SecretInv'
    BY <1>6 DEF Import, Abort, TypeOK, SecretInv, Holding, Finishing
  <2>5. ResultInv'
    BY <1>6 DEF Import, Abort, TypeOK, ResultInv, Finishing
  <2>6. CompletedInv'
    BY <1>6 DEF Import, Abort, TypeOK, ResultInv, CompletedInv, CompletedAt, Finishing
  <2> QED
    BY <2>1, <2>2, <2>3, <2>4, <2>5, <2>6
<1>7. ASSUME NEW r \in Runners, Evaluate(r)
      PROVE  RunnerInv'
  <2>1. TypeOK'
    <3>1. request[r] \in Receipts
      BY <1>7 DEF Evaluate, SpendInv, Finishing
    <3>2. spent' \subseteq Receipts /\ rows' \in [Receipts -> {"none", "approved", "completed"}]
      BY <1>7, <3>1 DEF Evaluate, TypeOK
    <3>3. decidedUnder' \in [Runners -> Versions \cup {NoOne}]
      BY <1>7 DEF Evaluate, TypeOK
    <3>4. pc' = [pc EXCEPT ![r] = "decided"] \/ pc' = [pc EXCEPT ![r] = "cleanup"]
      BY <1>7 DEF Evaluate, Abort
    <3>5. lock' \in Runners \cup {NoOne} /\ UNCHANGED <<fresh, ownBound, fixedStore, disturbed, request, result, secret, isolation, child, opened>>
      BY <1>7 DEF Evaluate, Abort, TypeOK
    <3> QED
      BY <3>2, <3>3, <3>4, <3>5 DEF TypeOK
  <2>2. SpendInv'
    BY <1>7 DEF Evaluate, Abort, TypeOK, SpendInv, Winner, Decided, Holding, Finishing
  <2>3. BoundInv'
    <3>0. pc[r] = "imported" /\ r \notin opened
      BY <1>7 DEF Evaluate, TypeOK, SpendInv, Holding, Finishing
    <3>1. /\ UNCHANGED <<fixedStore, disturbed, request, opened>>
          /\ \A x \in Runners : x # r => decidedUnder'[x] = decidedUnder[x] /\ pc'[x] = pc[x]
      BY <1>7 DEF Evaluate, Abort, TypeOK
    <3>2. fixedStore = Bound \/ r \in disturbed
      BY <3>0 DEF BoundInv, Approving
    <3>3. CASE pc' = [pc EXCEPT ![r] = "decided"] /\ decidedUnder' = [decidedUnder EXCEPT ![r] = fixedStore]
               /\ request[r] \in Trusts[fixedStore]
      <4>1. pc'[r] = "decided" /\ decidedUnder'[r] = fixedStore /\ fixedStore \in Versions
        BY <3>3 DEF TypeOK
      <4>2. \A x \in Runners : x # r => (Winner(x)' => Winner(x))
        BY <3>1 DEF Winner
      <4> QED
        BY <3>1, <3>2, <3>3, <4>1, <4>2 DEF BoundInv, Approving
    <3>4. CASE pc' = [pc EXCEPT ![r] = "cleanup"]
      <4>1. pc'[r] = "cleanup"
        BY <3>4 DEF TypeOK
      <4>2. ~Winner(r)' /\ \A x \in Runners : x # r => (Winner(x)' => Winner(x))
        BY <3>0, <3>1, <4>1 DEF Winner, Decided
      <4> QED
        BY <3>1, <4>1, <4>2 DEF BoundInv, Approving
    <3> QED
      BY <1>7, <3>3, <3>4 DEF Evaluate, Verifies, Abort
  <2>4. SecretInv'
    BY <1>7 DEF Evaluate, Abort, TypeOK, SecretInv, Holding, Finishing
  <2>5. ResultInv'
    BY <1>7 DEF Evaluate, Abort, TypeOK, ResultInv, Finishing
  <2>6. CompletedInv'
    BY <1>7 DEF Evaluate, Abort, TypeOK, ResultInv, CompletedInv, CompletedAt, Finishing
  <2> QED
    BY <2>1, <2>2, <2>3, <2>4, <2>5, <2>6
<1>8. ASSUME NEW r \in Runners, RecheckAuthority(r)
      PROVE  RunnerInv'
  <2>a. result' \in [Runners -> Results]
    <3>1. result \in [Runners -> Results] /\ (result' = result \/ result' = [result EXCEPT ![r].approval_consumed = TRUE])
      BY <1>8 DEF RecheckAuthority, Abort, TypeOK
    <3> QED
      BY <3>1, ResultChanges
  <2>b. \A x \in Runners : x # r => result'[x] = result[x]
    BY <1>8 DEF RecheckAuthority, Abort, TypeOK
  <2>c. /\ result'[r].outcome = result[r].outcome
        /\ result'[r].runtime_started = result[r].runtime_started
        /\ result'[r].timed_out = result[r].timed_out
        /\ result'[r].descriptors_closed = result[r].descriptors_closed
        /\ result'[r].isolation_root_removed = result[r].isolation_root_removed
    BY <1>8 DEF RecheckAuthority, Abort, TypeOK, Results
  <2>1. TypeOK'
    BY <1>8, <2>a DEF RecheckAuthority, Abort, TypeOK
  <2>2. SpendInv'
    BY <1>8 DEF RecheckAuthority, Abort, TypeOK, SpendInv, Winner, Decided, Holding, Finishing
  <2>3. BoundInv'
    BY <1>8 DEF RecheckAuthority, Abort, TypeOK, SpendInv, BoundInv, Approving, Winner, Decided, Holding, Finishing
  <2>4. SecretInv'
    BY <1>8 DEF RecheckAuthority, Abort, TypeOK, SecretInv, Holding, Finishing
  <2>5. ResultInv'
    <3>1. ASSUME NEW x \in Runners, x # r
          PROVE  /\ pc'[x] \notin Finishing =>
                      /\ result'[x].outcome = "stopped_fail_closed"
                      /\ result'[x].descriptors_closed
                      /\ ~result'[x].runtime_started
                 /\ result'[x].approval_consumed => pc'[x] # "idle" /\ request'[x] \in spent'
                 /\ result'[x].runtime_started => child'[x] # "none"
                 /\ pc'[x] \in {"waiting", "terminating", "killing", "ended", "endedLate"} => child'[x] # "none"
                 /\ pc'[x] \in {"ended", "endedLate"} => child'[x] # "running"
      BY <1>8, <2>b, <3>1 DEF RecheckAuthority, Abort, TypeOK, ResultInv
    <3>2. ASSUME NEW x \in Runners, x = r
          PROVE  /\ pc'[x] \notin Finishing =>
                      /\ result'[x].outcome = "stopped_fail_closed"
                      /\ result'[x].descriptors_closed
                      /\ ~result'[x].runtime_started
                 /\ result'[x].approval_consumed => pc'[x] # "idle" /\ request'[x] \in spent'
                 /\ result'[x].runtime_started => child'[x] # "none"
                 /\ pc'[x] \in {"waiting", "terminating", "killing", "ended", "endedLate"} => child'[x] # "none"
                 /\ pc'[x] \in {"ended", "endedLate"} => child'[x] # "running"
      BY <1>8, <2>c, <3>2 DEF RecheckAuthority, Abort, TypeOK, ResultInv, Finishing, SpendInv, Winner, Decided
    <3> QED
      BY <3>1, <3>2 DEF ResultInv
  <2>6. CompletedInv'
    <3>1. ASSUME NEW x \in Runners, x # r, result'[x].outcome = "completed"
          PROVE  CompletedAt(x)'
      BY <1>8, <2>b, <3>1 DEF RecheckAuthority, Abort, TypeOK, CompletedInv, CompletedAt
    <3>2. ASSUME result'[r].outcome = "completed"
          PROVE  CompletedAt(r)'
      BY <1>8, <2>c, <3>2 DEF RecheckAuthority, Abort, TypeOK, ResultInv, CompletedInv, CompletedAt, Finishing
    <3> QED
      BY <3>1, <3>2 DEF CompletedInv
  <2> QED
    BY <2>1, <2>2, <2>3, <2>4, <2>5, <2>6
<1>9. ASSUME NEW r \in Runners, Reverify(r)
      PROVE  RunnerInv'
  <2>1. TypeOK'
    BY <1>9 DEF Reverify, Abort, TypeOK, Results
  <2>2. SpendInv'
    BY <1>9 DEF Reverify, Abort, TypeOK, SpendInv, Winner, Decided, Holding, Finishing
  <2>3. BoundInv'
    BY <1>9 DEF Reverify, Abort, TypeOK, SpendInv, BoundInv, Approving, Winner, Decided, Holding, Finishing
  <2>4. SecretInv'
    BY <1>9 DEF Reverify, Abort, TypeOK, SecretInv, Holding, Finishing
  <2>5. ResultInv'
    BY <1>9 DEF Reverify, Abort, TypeOK, ResultInv, Finishing
  <2>6. CompletedInv'
    BY <1>9 DEF Reverify, Abort, TypeOK, ResultInv, CompletedInv, CompletedAt, Finishing
  <2> QED
    BY <2>1, <2>2, <2>3, <2>4, <2>5, <2>6
<1>10. ASSUME NEW r \in Runners, OpenCredential(r)
      PROVE  RunnerInv'
  <2>a. result' \in [Runners -> Results]
    <3>1. result \in [Runners -> Results] /\ (result' = result \/ result' = [result EXCEPT ![r].credential_material_opened = TRUE])
      BY <1>10 DEF OpenCredential, Abort, TypeOK
    <3> QED
      BY <3>1, ResultChanges
  <2>b. \A x \in Runners : x # r => result'[x] = result[x]
    BY <1>10 DEF OpenCredential, Abort, TypeOK
  <2>c. /\ result'[r].outcome = result[r].outcome
        /\ result'[r].approval_consumed = result[r].approval_consumed
        /\ result'[r].runtime_started = result[r].runtime_started
        /\ result'[r].timed_out = result[r].timed_out
        /\ result'[r].descriptors_closed = result[r].descriptors_closed
        /\ result'[r].isolation_root_removed = result[r].isolation_root_removed
    BY <1>10 DEF OpenCredential, Abort, TypeOK, Results
  <2>1. TypeOK'
    BY <1>10, <2>a DEF OpenCredential, Abort, TypeOK
  <2>2. SpendInv'
    BY <1>10 DEF OpenCredential, Abort, TypeOK, SpendInv, Winner, Decided, Holding, Finishing
  <2>3. BoundInv'
    BY <1>10 DEF OpenCredential, Abort, TypeOK, SpendInv, BoundInv, Approving, Winner, Decided, Holding, Finishing
  <2>4. SecretInv'
    BY <1>10 DEF OpenCredential, Abort, TypeOK, SecretInv, Holding, Finishing
  <2>5. ResultInv'
    <3>1. ASSUME NEW x \in Runners, x # r
          PROVE  /\ pc'[x] \notin Finishing =>
                      /\ result'[x].outcome = "stopped_fail_closed"
                      /\ result'[x].descriptors_closed
                      /\ ~result'[x].runtime_started
                 /\ result'[x].approval_consumed => pc'[x] # "idle" /\ request'[x] \in spent'
                 /\ result'[x].runtime_started => child'[x] # "none"
                 /\ pc'[x] \in {"waiting", "terminating", "killing", "ended", "endedLate"} => child'[x] # "none"
                 /\ pc'[x] \in {"ended", "endedLate"} => child'[x] # "running"
      BY <1>10, <2>b, <3>1 DEF OpenCredential, Abort, TypeOK, ResultInv
    <3>2. ASSUME NEW x \in Runners, x = r
          PROVE  /\ pc'[x] \notin Finishing =>
                      /\ result'[x].outcome = "stopped_fail_closed"
                      /\ result'[x].descriptors_closed
                      /\ ~result'[x].runtime_started
                 /\ result'[x].approval_consumed => pc'[x] # "idle" /\ request'[x] \in spent'
                 /\ result'[x].runtime_started => child'[x] # "none"
                 /\ pc'[x] \in {"waiting", "terminating", "killing", "ended", "endedLate"} => child'[x] # "none"
                 /\ pc'[x] \in {"ended", "endedLate"} => child'[x] # "running"
      BY <1>10, <2>c, <3>2 DEF OpenCredential, Abort, TypeOK, ResultInv, Finishing
    <3> QED
      BY <3>1, <3>2 DEF ResultInv
  <2>6. CompletedInv'
    <3>1. ASSUME NEW x \in Runners, x # r, result'[x].outcome = "completed"
          PROVE  CompletedAt(x)'
      BY <1>10, <2>b, <3>1 DEF OpenCredential, Abort, TypeOK, CompletedInv, CompletedAt
    <3>2. ASSUME result'[r].outcome = "completed"
          PROVE  CompletedAt(r)'
      BY <1>10, <2>c, <3>2 DEF OpenCredential, Abort, TypeOK, ResultInv, CompletedInv, CompletedAt, Finishing
    <3> QED
      BY <3>1, <3>2 DEF CompletedInv
  <2> QED
    BY <2>1, <2>2, <2>3, <2>4, <2>5, <2>6
<1>11. ASSUME NEW r \in Runners, MakeIsolation(r)
      PROVE  RunnerInv'
  <2>1. TypeOK'
    <3>1. isolation' \in [Runners -> BOOLEAN]
      BY <1>11 DEF MakeIsolation, TypeOK
    <3>2. lock' \in Runners \cup {NoOne}
      BY <1>11 DEF MakeIsolation, Abort, TypeOK
    <3>3. pc' \in {[pc EXCEPT ![r] = "isolated"], [pc EXCEPT ![r] = "cleanup"]}
      BY <1>11 DEF MakeIsolation, Abort
    <3>4. UNCHANGED <<approvals, world, request, result, secret, child, opened>>
      BY <1>11 DEF MakeIsolation
    <3> QED
      BY <3>1, <3>2, <3>3, <3>4 DEF TypeOK
  <2>2. SpendInv'
    BY <1>11 DEF MakeIsolation, Abort, TypeOK, SpendInv, Winner, Decided, Holding, Finishing
  <2>3. BoundInv'
    BY <1>11 DEF MakeIsolation, Abort, TypeOK, SpendInv, BoundInv, Approving, Winner, Decided, Holding, Finishing
  <2>4. SecretInv'
    BY <1>11 DEF MakeIsolation, Abort, TypeOK, SecretInv, Holding, Finishing
  <2>5. ResultInv'
    BY <1>11 DEF MakeIsolation, Abort, TypeOK, ResultInv, Finishing
  <2>6. CompletedInv'
    BY <1>11 DEF MakeIsolation, Abort, TypeOK, ResultInv, CompletedInv, CompletedAt, Finishing
  <2> QED
    BY <2>1, <2>2, <2>3, <2>4, <2>5, <2>6
<1>12. ASSUME NEW r \in Runners, Launch(r)
      PROVE  RunnerInv'
  <2>a. result' \in [Runners -> Results]
    <3>1. result \in [Runners -> Results] /\ (result' = result \/ \E c \in BOOLEAN : result' = [result EXCEPT ![r].descriptors_closed = c])
      BY <1>12 DEF Launch, Abort, TypeOK
    <3> QED
      BY <3>1, ResultChanges
  <2>b. \A x \in Runners : x # r => result'[x] = result[x]
    BY <1>12 DEF Launch, Abort, TypeOK
  <2>c. /\ result'[r].outcome = result[r].outcome
        /\ result'[r].approval_consumed = result[r].approval_consumed
        /\ result'[r].runtime_started = result[r].runtime_started
        /\ result'[r].timed_out = result[r].timed_out
        /\ result'[r].isolation_root_removed = result[r].isolation_root_removed
    BY <1>12 DEF Launch, Abort, TypeOK, Results
  <2>1. TypeOK'
    BY <1>12, <2>a DEF Launch, Abort, TypeOK
  <2>2. SpendInv'
    BY <1>12 DEF Launch, Abort, TypeOK, SpendInv, Winner, Decided, Holding, Finishing
  <2>3. BoundInv'
    BY <1>12 DEF Launch, Abort, TypeOK, SpendInv, BoundInv, Approving, Winner, Decided, Holding, Finishing
  <2>4. SecretInv'
    BY <1>12 DEF Launch, Abort, TypeOK, SecretInv, Holding, Finishing
  <2>5. ResultInv'
    <3>1. ASSUME NEW x \in Runners, x # r
          PROVE  /\ pc'[x] \notin Finishing =>
                      /\ result'[x].outcome = "stopped_fail_closed"
                      /\ result'[x].descriptors_closed
                      /\ ~result'[x].runtime_started
                 /\ result'[x].approval_consumed => pc'[x] # "idle" /\ request'[x] \in spent'
                 /\ result'[x].runtime_started => child'[x] # "none"
                 /\ pc'[x] \in {"waiting", "terminating", "killing", "ended", "endedLate"} => child'[x] # "none"
                 /\ pc'[x] \in {"ended", "endedLate"} => child'[x] # "running"
      BY <1>12, <2>b, <3>1 DEF Launch, Abort, TypeOK, ResultInv
    <3>2. ASSUME NEW x \in Runners, x = r
          PROVE  /\ pc'[x] \notin Finishing =>
                      /\ result'[x].outcome = "stopped_fail_closed"
                      /\ result'[x].descriptors_closed
                      /\ ~result'[x].runtime_started
                 /\ result'[x].approval_consumed => pc'[x] # "idle" /\ request'[x] \in spent'
                 /\ result'[x].runtime_started => child'[x] # "none"
                 /\ pc'[x] \in {"waiting", "terminating", "killing", "ended", "endedLate"} => child'[x] # "none"
                 /\ pc'[x] \in {"ended", "endedLate"} => child'[x] # "running"
      BY <1>12, <2>c, <3>2 DEF Launch, Abort, TypeOK, ResultInv, Finishing
    <3> QED
      BY <3>1, <3>2 DEF ResultInv
  <2>6. CompletedInv'
    <3>1. ASSUME NEW x \in Runners, x # r, result'[x].outcome = "completed"
          PROVE  CompletedAt(x)'
      BY <1>12, <2>b, <3>1 DEF Launch, Abort, TypeOK, CompletedInv, CompletedAt
    <3>2. ASSUME result'[r].outcome = "completed"
          PROVE  CompletedAt(r)'
      BY <1>12, <2>c, <3>2 DEF Launch, Abort, TypeOK, ResultInv, CompletedInv, CompletedAt, Finishing
    <3> QED
      BY <3>1, <3>2 DEF CompletedInv
  <2> QED
    BY <2>1, <2>2, <2>3, <2>4, <2>5, <2>6
<1>13. ASSUME NEW r \in Runners, Reap(r)
      PROVE  RunnerInv'
  <2>1. TypeOK'
    BY <1>13, SMTT(30) DEF Reap, Step, TypeOK, Results
  <2>2. SpendInv'
    BY <1>13 DEF Reap, Step, TypeOK, SpendInv, Winner, Decided, Holding, Finishing
  <2>3. BoundInv'
    BY <1>13 DEF Reap, Step, TypeOK, SpendInv, BoundInv, Approving, Winner, Decided, Holding, Finishing
  <2>4. SecretInv'
    BY <1>13 DEF Reap, Step, TypeOK, SecretInv, Holding, Finishing
  <2>5. ResultInv'
    BY <1>13 DEF Reap, Step, TypeOK, ResultInv, Finishing
  <2>6. CompletedInv'
    BY <1>13 DEF Reap, Step, TypeOK, ResultInv, CompletedInv, CompletedAt, Finishing
  <2> QED
    BY <2>1, <2>2, <2>3, <2>4, <2>5, <2>6
<1>14. ASSUME NEW r \in Runners, WaitTimesOut(r)
      PROVE  RunnerInv'
  <2>a. result' \in [Runners -> Results]
    <3>1. result \in [Runners -> Results] /\ (result' = result \/ \E c \in BOOLEAN : result' = [result EXCEPT ![r].descriptors_closed = c])
      BY <1>14 DEF WaitTimesOut, Step, Abort, TypeOK
    <3> QED
      BY <3>1, ResultChanges
  <2>b. \A x \in Runners : x # r => result'[x] = result[x]
    BY <1>14 DEF WaitTimesOut, Step, Abort, TypeOK
  <2>c. /\ result'[r].outcome = result[r].outcome
        /\ result'[r].approval_consumed = result[r].approval_consumed
        /\ result'[r].runtime_started = result[r].runtime_started
        /\ result'[r].timed_out = result[r].timed_out
        /\ result'[r].isolation_root_removed = result[r].isolation_root_removed
    BY <1>14 DEF WaitTimesOut, Step, Abort, TypeOK, Results
  <2>1. TypeOK'
    BY <1>14, <2>a DEF WaitTimesOut, Step, Abort, TypeOK
  <2>2. SpendInv'
    BY <1>14 DEF WaitTimesOut, Step, Abort, TypeOK, SpendInv, Winner, Decided, Holding, Finishing
  <2>3. BoundInv'
    BY <1>14 DEF WaitTimesOut, Step, Abort, TypeOK, SpendInv, BoundInv, Approving, Winner, Decided, Holding, Finishing
  <2>4. SecretInv'
    BY <1>14 DEF WaitTimesOut, Step, Abort, TypeOK, SecretInv, Holding, Finishing
  <2>5. ResultInv'
    <3>1. ASSUME NEW x \in Runners, x # r
          PROVE  /\ pc'[x] \notin Finishing =>
                      /\ result'[x].outcome = "stopped_fail_closed"
                      /\ result'[x].descriptors_closed
                      /\ ~result'[x].runtime_started
                 /\ result'[x].approval_consumed => pc'[x] # "idle" /\ request'[x] \in spent'
                 /\ result'[x].runtime_started => child'[x] # "none"
                 /\ pc'[x] \in {"waiting", "terminating", "killing", "ended", "endedLate"} => child'[x] # "none"
                 /\ pc'[x] \in {"ended", "endedLate"} => child'[x] # "running"
      BY <1>14, <2>b, <3>1 DEF WaitTimesOut, Step, Abort, TypeOK, ResultInv
    <3>2. ASSUME NEW x \in Runners, x = r
          PROVE  /\ pc'[x] \notin Finishing =>
                      /\ result'[x].outcome = "stopped_fail_closed"
                      /\ result'[x].descriptors_closed
                      /\ ~result'[x].runtime_started
                 /\ result'[x].approval_consumed => pc'[x] # "idle" /\ request'[x] \in spent'
                 /\ result'[x].runtime_started => child'[x] # "none"
                 /\ pc'[x] \in {"waiting", "terminating", "killing", "ended", "endedLate"} => child'[x] # "none"
                 /\ pc'[x] \in {"ended", "endedLate"} => child'[x] # "running"
      BY <1>14, <2>c, <3>2 DEF WaitTimesOut, Step, Abort, TypeOK, ResultInv, Finishing
    <3> QED
      BY <3>1, <3>2 DEF ResultInv
  <2>6. CompletedInv'
    <3>1. ASSUME NEW x \in Runners, x # r, result'[x].outcome = "completed"
          PROVE  CompletedAt(x)'
      BY <1>14, <2>b, <3>1 DEF WaitTimesOut, Step, Abort, TypeOK, CompletedInv, CompletedAt
    <3>2. ASSUME result'[r].outcome = "completed"
          PROVE  CompletedAt(r)'
      BY <1>14, <2>c, <3>2 DEF WaitTimesOut, Step, Abort, TypeOK, ResultInv, CompletedInv, CompletedAt, Finishing
    <3> QED
      BY <3>1, <3>2 DEF CompletedInv
  <2> QED
    BY <2>1, <2>2, <2>3, <2>4, <2>5, <2>6
<1>15. ASSUME NEW r \in Runners, Observe(r)
      PROVE  RunnerInv'
  <2> DEFINE observed == [result EXCEPT ![r].runtime_started = TRUE,
                                         ![r].timed_out = (pc[r] = "endedLate"),
                                         ![r].outcome = Outcome(r)]
  <2>1a. \/ result' = observed
         \/ \E c \in BOOLEAN : result' = [result EXCEPT ![r].descriptors_closed = c]
    BY <1>15 DEF Observe
  <2>1b. (pc[r] = "endedLate") \in BOOLEAN /\ Outcome(r) \in {"stopped_fail_closed", "completed"}
    BY DEF Outcome
  <2>1d. /\ observed[r].approval_consumed = result[r].approval_consumed
         /\ observed[r].descriptors_closed = result[r].descriptors_closed
         /\ observed[r].runtime_started = TRUE
         /\ observed[r].timed_out = (pc[r] = "endedLate")
         /\ observed[r].outcome = Outcome(r)
    BY <2>1b DEF TypeOK, Results
  <2>1e. \A x \in Runners : x # r => observed[x] = result[x]
    BY DEF TypeOK
  <2> HIDE DEF observed
  <2>1f. Outcome(r) = "completed" => pc[r] = "ended" /\ child[r] = "completed"
    BY DEF Outcome
  <2>a. result' \in [Runners -> Results]
    <3>1. \/ \E c \in BOOLEAN, o \in {"stopped_fail_closed", "completed"} :
               result' = [result EXCEPT ![r].runtime_started = TRUE, ![r].timed_out = c,
                                        ![r].outcome = o]
          \/ \E c \in BOOLEAN : result' = [result EXCEPT ![r].descriptors_closed = c]
      BY <2>1a, <2>1b DEF observed
    <3>2. result \in [Runners -> Results]
      BY DEF TypeOK
    <3> QED
      BY <3>1, <3>2, ResultChanges
  <2>b. \A x \in Runners : x # r => result'[x] = result[x]
    BY <2>1a, <2>1e DEF TypeOK
  <2>c. /\ result'[r].approval_consumed = result[r].approval_consumed
        /\ result'[r].outcome = "completed" =>
            /\ child[r] = "completed" /\ ~result'[r].timed_out
            /\ result'[r].runtime_started
            /\ result'[r].descriptors_closed = result[r].descriptors_closed
    <3>1. CASE result' = observed
      BY <2>1d, <2>1f, <3>1
    <3>2. CASE \E c \in BOOLEAN : result' = [result EXCEPT ![r].descriptors_closed = c]
      BY <1>15, <3>2, SMTT(30) DEF Observe, TypeOK, Results, ResultInv, Finishing
    <3> QED
      BY <2>1a, <3>1, <3>2
  <2>d. child[r] # "none" /\ pc'[r] = "cleanup"
    BY <1>15 DEF Observe, Abort, TypeOK, ResultInv
  <2>e. request[r] \in spent /\ secret[r] = "held"
    BY <1>15 DEF Observe, SpendInv, SecretInv, Winner, Holding
  <2>1. TypeOK'
    BY <1>15, <2>a DEF Observe, Abort, TypeOK
  <2>2. SpendInv'
    BY <1>15 DEF Observe, Abort, TypeOK, SpendInv, Winner, Decided, Holding, Finishing
  <2>3. BoundInv'
    BY <1>15 DEF Observe, Abort, TypeOK, SpendInv, BoundInv, Approving, Winner, Decided, Holding, Finishing
  <2>4. SecretInv'
    BY <1>15 DEF Observe, Abort, TypeOK, SecretInv, Holding, Finishing, Outcome
  <2>5. ResultInv'
    <3>1. ASSUME NEW x \in Runners, x # r
          PROVE  /\ pc'[x] \notin Finishing =>
                      /\ result'[x].outcome = "stopped_fail_closed"
                      /\ result'[x].descriptors_closed
                      /\ ~result'[x].runtime_started
                 /\ result'[x].approval_consumed => pc'[x] # "idle" /\ request'[x] \in spent'
                 /\ result'[x].runtime_started => child'[x] # "none"
                 /\ pc'[x] \in {"waiting", "terminating", "killing", "ended", "endedLate"} => child'[x] # "none"
                 /\ pc'[x] \in {"ended", "endedLate"} => child'[x] # "running"
      BY <1>15, <2>b, <3>1 DEF Observe, Abort, TypeOK, ResultInv
    <3>2. ASSUME NEW x \in Runners, x = r
          PROVE  /\ pc'[x] \notin Finishing =>
                      /\ result'[x].outcome = "stopped_fail_closed"
                      /\ result'[x].descriptors_closed
                      /\ ~result'[x].runtime_started
                 /\ result'[x].approval_consumed => pc'[x] # "idle" /\ request'[x] \in spent'
                 /\ result'[x].runtime_started => child'[x] # "none"
                 /\ pc'[x] \in {"waiting", "terminating", "killing", "ended", "endedLate"} => child'[x] # "none"
                 /\ pc'[x] \in {"ended", "endedLate"} => child'[x] # "running"
      BY <1>15, <2>c, <2>d, <2>e, <3>2 DEF Observe, Abort, TypeOK, ResultInv, Finishing
    <3> QED
      BY <3>1, <3>2 DEF ResultInv
  <2>6. CompletedInv'
    <3>1. ASSUME NEW x \in Runners, x # r, result'[x].outcome = "completed"
          PROVE  CompletedAt(x)'
      BY <1>15, <2>b, <3>1 DEF Observe, Abort, TypeOK, CompletedInv, CompletedAt
    <3>2. ASSUME result'[r].outcome = "completed"
          PROVE  CompletedAt(r)'
      BY <1>15, <2>c, <2>d, <2>e, <3>2 DEF Observe, Abort, TypeOK, ResultInv, CompletedInv, CompletedAt, Finishing
    <3> QED
      BY <3>1, <3>2 DEF CompletedInv
  <2> QED
    BY <2>1, <2>2, <2>3, <2>4, <2>5, <2>6
<1>16. ASSUME NEW r \in Runners, Zeroize(r)
      PROVE  RunnerInv'
  <2>1. TypeOK'
    BY <1>16 DEF Zeroize, Step, TypeOK, Results
  <2>2. SpendInv'
    BY <1>16 DEF Zeroize, Step, TypeOK, SpendInv, Winner, Decided, Holding, Finishing
  <2>3. BoundInv'
    BY <1>16 DEF Zeroize, Step, TypeOK, SpendInv, BoundInv, Approving, Winner, Decided, Holding, Finishing
  <2>4. SecretInv'
    BY <1>16 DEF Zeroize, Step, TypeOK, SecretInv, Holding, Finishing
  <2>5. ResultInv'
    BY <1>16 DEF Zeroize, Step, TypeOK, ResultInv, Finishing
  <2>6. CompletedInv'
    BY <1>16 DEF Zeroize, Step, TypeOK, ResultInv, CompletedInv, CompletedAt, Finishing
  <2> QED
    BY <2>1, <2>2, <2>3, <2>4, <2>5, <2>6
<1>17. ASSUME NEW r \in Runners, RemoveIsolation(r)
      PROVE  RunnerInv'
  <2>a. result' \in [Runners -> Results]
    <3>1. /\ result \in [Runners -> Results]
          /\ \/ result' = result
             \/ result' = [result EXCEPT ![r].isolation_root_removed = FALSE,
                                         ![r].outcome = "stopped_fail_closed"]
      BY <1>17 DEF RemoveIsolation, TypeOK
    <3> QED
      BY <3>1, ResultChanges
  <2>b. \A x \in Runners : x # r => result'[x] = result[x]
    BY <1>17 DEF RemoveIsolation, Step, TypeOK
  <2>c. /\ result'[r].approval_consumed = result[r].approval_consumed
        /\ result'[r].runtime_started = result[r].runtime_started
        /\ result'[r].timed_out = result[r].timed_out
        /\ result'[r].descriptors_closed = result[r].descriptors_closed
        /\ result'[r].outcome = "completed" => result[r].outcome = "completed" /\ ~isolation'[r]
    BY <1>17 DEF RemoveIsolation, Step, TypeOK, Results
  <2>1. TypeOK'
    BY <1>17, <2>a DEF RemoveIsolation, Step, TypeOK
  <2>2. SpendInv'
    BY <1>17 DEF RemoveIsolation, Step, TypeOK, SpendInv, Winner, Decided, Holding, Finishing
  <2>3. BoundInv'
    BY <1>17 DEF RemoveIsolation, Step, TypeOK, SpendInv, BoundInv, Approving, Winner, Decided, Holding, Finishing
  <2>4. SecretInv'
    BY <1>17 DEF RemoveIsolation, Step, TypeOK, SecretInv, Holding, Finishing, Results
  <2>5. ResultInv'
    <3>1. ASSUME NEW x \in Runners, x # r
          PROVE  /\ pc'[x] \notin Finishing =>
                      /\ result'[x].outcome = "stopped_fail_closed"
                      /\ result'[x].descriptors_closed
                      /\ ~result'[x].runtime_started
                 /\ result'[x].approval_consumed => pc'[x] # "idle" /\ request'[x] \in spent'
                 /\ result'[x].runtime_started => child'[x] # "none"
                 /\ pc'[x] \in {"waiting", "terminating", "killing", "ended", "endedLate"} => child'[x] # "none"
                 /\ pc'[x] \in {"ended", "endedLate"} => child'[x] # "running"
      BY <1>17, <2>b, <3>1 DEF RemoveIsolation, Step, TypeOK, ResultInv
    <3>2. ASSUME NEW x \in Runners, x = r
          PROVE  /\ pc'[x] \notin Finishing =>
                      /\ result'[x].outcome = "stopped_fail_closed"
                      /\ result'[x].descriptors_closed
                      /\ ~result'[x].runtime_started
                 /\ result'[x].approval_consumed => pc'[x] # "idle" /\ request'[x] \in spent'
                 /\ result'[x].runtime_started => child'[x] # "none"
                 /\ pc'[x] \in {"waiting", "terminating", "killing", "ended", "endedLate"} => child'[x] # "none"
                 /\ pc'[x] \in {"ended", "endedLate"} => child'[x] # "running"
      BY <1>17, <2>c, <3>2 DEF RemoveIsolation, Step, TypeOK, ResultInv, Finishing
    <3> QED
      BY <3>1, <3>2 DEF ResultInv
  <2>6. CompletedInv'
    <3>1. ASSUME NEW x \in Runners, x # r, result'[x].outcome = "completed"
          PROVE  CompletedAt(x)'
      BY <1>17, <2>b, <3>1 DEF RemoveIsolation, Step, TypeOK, CompletedInv, CompletedAt
    <3>2. ASSUME result'[r].outcome = "completed"
          PROVE  CompletedAt(r)'
      BY <1>17, <2>c, <3>2 DEF RemoveIsolation, Step, TypeOK, ResultInv, CompletedInv, CompletedAt, Finishing
    <3> QED
      BY <3>1, <3>2 DEF CompletedInv
  <2> QED
    BY <2>1, <2>2, <2>3, <2>4, <2>5, <2>6
<1>18. ASSUME NEW r \in Runners, Sign(r)
      PROVE  RunnerInv'
  <2>1. TypeOK'
    BY <1>18 DEF Sign, TypeOK, Results
  <2>2. SpendInv'
    BY <1>18 DEF Sign, TypeOK, SpendInv, Winner, Decided, Holding, Finishing
  <2>3. BoundInv'
    BY <1>18 DEF Sign, TypeOK, SpendInv, BoundInv, Approving, Winner, Decided, Holding, Finishing
  <2>4. SecretInv'
    BY <1>18 DEF Sign, TypeOK, SecretInv, Holding, Finishing
  <2>5. ResultInv'
    BY <1>18 DEF Sign, TypeOK, ResultInv, Finishing
  <2>6. CompletedInv'
    BY <1>18 DEF Sign, TypeOK, ResultInv, CompletedInv, CompletedAt, Finishing
  <2> QED
    BY <2>1, <2>2, <2>3, <2>4, <2>5, <2>6
<1>19. ASSUME NEW r \in Runners, ChildEnds(r)
      PROVE  RunnerInv'
  <2>1. TypeOK'
    BY <1>19 DEF ChildEnds, TypeOK, Results, Ended
  <2>2. SpendInv'
    BY <1>19 DEF ChildEnds, TypeOK, SpendInv, Winner, Decided, Holding, Finishing
  <2>3. BoundInv'
    BY <1>19 DEF ChildEnds, TypeOK, SpendInv, BoundInv, Approving, Winner, Decided, Holding, Finishing
  <2>4. SecretInv'
    BY <1>19 DEF ChildEnds, TypeOK, SecretInv, Holding, Finishing
  <2>5. ResultInv'
    BY <1>19 DEF ChildEnds, TypeOK, ResultInv, Finishing, Ended
  <2>6. CompletedInv'
    BY <1>19 DEF ChildEnds, TypeOK, ResultInv, CompletedInv, CompletedAt, Finishing, Ended
  <2> QED
    BY <2>1, <2>2, <2>3, <2>4, <2>5, <2>6
<1>20. ASSUME NEW r \in Runners, Kill(r)
      PROVE  RunnerInv'
  <2>a. NoResult \in Results
    BY DEF NoResult, Results
  <2>b. result'[r] = NoResult /\ \A x \in Runners : x # r => result'[x] = result[x]
    BY <1>20 DEF Kill, TypeOK
  <2>c. pc'[r] = "dead" /\ \A x \in Runners : x # r => pc'[x] = pc[x]
    BY <1>20 DEF Kill, TypeOK
  <2>1. TypeOK'
    <3>1. result' \in [Runners -> Results]
      BY <1>20, <2>a DEF Kill, TypeOK
    <3> QED
      BY <1>20, <3>1 DEF Kill, TypeOK
  <2>2. SpendInv'
    BY <1>20 DEF Kill, TypeOK, SpendInv, Winner, Decided, Holding, Finishing
  <2>3. BoundInv'
    BY <1>20 DEF Kill, TypeOK, SpendInv, BoundInv, Approving, Winner, Decided, Holding, Finishing
  <2>4. SecretInv'
    BY <1>20 DEF Kill, TypeOK, SecretInv, Holding, Finishing
  <2>5. ResultInv'
    BY <1>20, <2>b, <2>c DEF Kill, ResultInv, Finishing, NoResult
  <2>6. CompletedInv'
    <3>1. result'[r].outcome = "stopped_fail_closed"
      BY <2>b DEF NoResult
    <3>2. ASSUME NEW x \in Runners, x # r
          PROVE  result'[x].outcome = "completed" => CompletedAt(x)'
      <4>1. UNCHANGED <<child, request, spent, isolation>> /\ secret'[x] = secret[x]
        BY <1>20, <3>2 DEF Kill, TypeOK
      <4> QED
        BY <2>b, <2>c, <3>2, <4>1 DEF CompletedInv, CompletedAt
    <3> QED
      BY <3>1, <3>2 DEF CompletedInv
  <2> QED
    BY <2>1, <2>2, <2>3, <2>4, <2>5, <2>6
<1>21. ASSUME NEW q \in Receipts, Expire(q)
      PROVE  RunnerInv'
  <2>1. TypeOK'
    BY <1>21 DEF Expire, TypeOK, Results
  <2>2. SpendInv'
    BY <1>21 DEF Expire, TypeOK, SpendInv, Winner, Decided, Holding, Finishing
  <2>3. BoundInv'
    BY <1>21 DEF Expire, TypeOK, SpendInv, BoundInv, Approving, Winner, Decided, Holding, Finishing
  <2>4. SecretInv'
    BY <1>21 DEF Expire, TypeOK, SecretInv, Holding, Finishing
  <2>5. ResultInv'
    BY <1>21 DEF Expire, TypeOK, ResultInv, Finishing
  <2>6. CompletedInv'
    BY <1>21 DEF Expire, TypeOK, ResultInv, CompletedInv, CompletedAt, Finishing
  <2> QED
    BY <2>1, <2>2, <2>3, <2>4, <2>5, <2>6
<1>22. CASE ReplaceStore
  <2>1. TypeOK'
    BY <1>22 DEF ReplaceStore, TypeOK, Results
  <2>2. SpendInv'
    BY <1>22 DEF ReplaceStore, TypeOK, SpendInv, Winner, Decided, Holding, Finishing
  <2>3. BoundInv'
    BY <1>22 DEF ReplaceStore, TypeOK, SpendInv, BoundInv, Approving, Winner, Decided, Holding, Finishing
  <2>4. SecretInv'
    BY <1>22 DEF ReplaceStore, TypeOK, SecretInv, Holding, Finishing
  <2>5. ResultInv'
    BY <1>22 DEF ReplaceStore, TypeOK, ResultInv, Finishing
  <2>6. CompletedInv'
    BY <1>22 DEF ReplaceStore, TypeOK, ResultInv, CompletedInv, CompletedAt, Finishing
  <2> QED
    BY <2>1, <2>2, <2>3, <2>4, <2>5, <2>6
<1>23. CASE PowerLoss
  <2>1. TypeOK'
    <3>1. rows' \in [Receipts -> {"none", "approved", "completed"}]
      BY <1>23 DEF PowerLoss, Older
    <3>2. child' \in [Runners -> {"none", "running"} \cup Ended]
      BY <1>23 DEF PowerLoss, TypeOK, Ended
    <3>3. result' \in [Runners -> Results]
      <4>1. NoResult \in Results
        BY DEF NoResult, Results
      <4> QED
        BY <1>23, <4>1 DEF PowerLoss, TypeOK
    <3> QED
      BY <1>23, <3>1, <3>2, <3>3 DEF PowerLoss, TypeOK
  <2>a. ASSUME NEW x \in Runners
        PROVE  \/ pc[x] = "signed" /\ pc'[x] = "signed" /\ result'[x] = result[x] /\ secret'[x] = secret[x]
               \/ pc[x] = "idle" /\ pc'[x] = "idle" /\ result'[x] = NoResult
               \/ pc'[x] = "dead" /\ result'[x] = NoResult
    BY <1>23 DEF PowerLoss
  <2>b. ASSUME NEW x \in Runners
        PROVE  child'[x] = child[x] \/ child'[x] = "failed"
    BY <1>23 DEF PowerLoss
  <2>2. SpendInv'
    BY <1>23 DEF PowerLoss, Older, TypeOK, SpendInv, Winner, Decided, Holding, Finishing
  <2>3. BoundInv'
    BY <1>23 DEF PowerLoss, Older, TypeOK, SpendInv, BoundInv, Approving, Winner, Decided, Holding, Finishing
  <2>4. SecretInv'
    BY <1>23 DEF PowerLoss, Older, TypeOK, SecretInv, Holding, Finishing
  <2>5. ResultInv'
    <3>1. UNCHANGED <<spent, request>>
      BY <1>23 DEF PowerLoss
    <3> QED
      BY <2>a, <2>b, <3>1 DEF ResultInv, Finishing, NoResult
  <2>6. CompletedInv'
    <3>1. UNCHANGED <<spent, request, isolation>>
      BY <1>23 DEF PowerLoss
    <3>2. ASSUME NEW x \in Runners, result'[x].outcome = "completed"
          PROVE  CompletedAt(x)'
      <4>1. /\ pc[x] = "signed" /\ pc'[x] = "signed"
            /\ result'[x] = result[x] /\ secret'[x] = secret[x]
        BY <2>a, <3>2 DEF NoResult
      <4>2. child[x] = "completed"
        BY <3>2, <4>1 DEF CompletedInv, CompletedAt
      <4>3. child'[x] = child[x]
        BY <1>23, <4>2 DEF PowerLoss
      <4> QED
        BY <3>1, <3>2, <4>1, <4>3 DEF CompletedInv, CompletedAt
    <3> QED
      BY <3>2 DEF CompletedInv
  <2> QED
    BY <2>1, <2>2, <2>3, <2>4, <2>5, <2>6
<1>24. CASE UNCHANGED vars
  <2>1. TypeOK'
    BY <1>24 DEF vars, TypeOK
  <2>2. SpendInv'
    BY <1>24 DEF vars, SpendInv, Winner
  <2>3. BoundInv'
    BY <1>24 DEF vars, BoundInv, Approving, Winner
  <2>4. SecretInv'
    BY <1>24 DEF vars, SecretInv
  <2>5. ResultInv'
    BY <1>24 DEF vars, ResultInv
  <2>6. CompletedInv'
    BY <1>24 DEF vars, CompletedInv, CompletedAt
  <2> QED
    BY <2>1, <2>2, <2>3, <2>4, <2>5, <2>6
<1> QED
  BY <1>1, <1>2, <1>3, <1>4, <1>5, <1>6, <1>7, <1>8, <1>9, <1>10, <1>11, <1>12, <1>13, <1>14, <1>15, <1>16, <1>17, <1>18, <1>19, <1>20, <1>21, <1>22, <1>23, <1>24 DEF Next, Run

(* RunnerInv is an invariant of the specification.                          *)
LEMMA RunnerInvariant == Spec => []RunnerInv
<1>1. Init => RunnerInv
  <2> SUFFICES ASSUME Init
               PROVE  RunnerInv
    OBVIOUS
  <2> USE RunnerAssumption DEF Init
  <2>1. TypeOK
    BY DEF TypeOK, Results, NoResult
  <2>2. SpendInv /\ BoundInv
    BY DEF SpendInv, BoundInv, Approving, Winner, Decided, Holding, Finishing
  <2>3. SecretInv
    BY DEF SecretInv, Holding
  <2>4. ResultInv /\ CompletedInv
    BY DEF ResultInv, CompletedInv, NoResult, Finishing
  <2> QED
    BY <2>1, <2>2, <2>3, <2>4 DEF RunnerInv
<1> QED
  BY <1>1, RunnerInvStep, PTL DEF Spec

(* Every variable keeps its type.                                           *)
THEOREM RunnerTypeCorrect == Spec => []TypeOK
<1>1. RunnerInv => TypeOK
  BY DEF RunnerInv
<1> QED
  BY <1>1, RunnerInvariant, PTL

(* One receipt opens the credential at most once, whatever activations race *)
(* and die and whatever a power loss takes back of the decision store       *)
(* (_consume_approval, trusted_runner.py).                                  *)
THEOREM ReceiptOpensOnce == Spec => []OneOpenPerReceipt
<1>1. RunnerInv => OneOpenPerReceipt
  BY DEF RunnerInv, TypeOK, SpendInv, Winner, OneOpenPerReceipt
<1> QED
  BY <1>1, RunnerInvariant, PTL

(* The credential is opened only on a consumed receipt whose signer the     *)
(* fixed store trusted when it was decided, and that store was the one the  *)
(* request is bound to unless it was replaced between the comparison and    *)
(* the decision (_consume_approval_locked; _verify_operation_envelope).     *)
(* Nothing is assumed of the order in which contents follow each other.     *)
THEOREM OpenedUnderItsAuthority == Spec => []OpenedUnderDecidedAuthority
<1>1. RunnerInv => OpenedUnderDecidedAuthority
  <2> SUFFICES ASSUME RunnerInv, NEW r \in opened
               PROVE  /\ request[r] \in spent
                      /\ decidedUnder[r] # NoOne /\ request[r] \in Trusts[decidedUnder[r]]
                      /\ decidedUnder[r] = Bound \/ r \in disturbed
    BY DEF OpenedUnderDecidedAuthority
  <2>1. r \in Runners /\ Winner(r)
    BY DEF RunnerInv, TypeOK, Winner
  <2>2. request[r] \in spent
    BY <2>1 DEF RunnerInv, SpendInv
  <2>3. /\ decidedUnder[r] \in Versions
        /\ request[r] \in Trusts[decidedUnder[r]]
        /\ decidedUnder[r] = Bound \/ r \in disturbed
    BY <2>1 DEF RunnerInv, BoundInv
  <2> QED
    BY <2>2, <2>3, RunnerAssumption
<1> QED
  BY <1>1, RunnerInvariant, PTL

(* A signed result is the truth, whatever failed on the way (execute and    *)
(* its finally block).                                                      *)
THEOREM SignedResultsAreTrue == Spec => []SignedIsTrue
<1>1. RunnerInv => SignedIsTrue
  BY DEF RunnerInv, TypeOK, SecretInv, ResultInv, CompletedInv, CompletedAt, Holding, SignedIsTrue
<1> QED
  BY <1>1, RunnerInvariant, PTL

============================================================================
