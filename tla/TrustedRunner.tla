--------------------------- MODULE TrustedRunner ---------------------------
(***************************************************************************)
(* The Trusted Runner of src/sddgov/trusted_runner.py: one activation of    *)
(* the service per connection validates a request, spends one owner-signed  *)
(* receipt, opens the credential, runs one child and signs a result.        *)
(* Activations run side by side and share the decision store of the state   *)
(* root, its approval lock, the broker's ledger and the two approver        *)
(* stores; any of them may fail at every step or be killed.                 *)
(*                                                                          *)
(* A request is represented by the receipt it carries, a receipt by itself  *)
(* and its nonce.  A version of an approver store is its content, which is  *)
(* what the code hashes: the Owner may put an earlier one back.  Every      *)
(* request is bound to one version.  The sealed bundle and the runtime file *)
(* are checks that pass or fail.                                            *)
(***************************************************************************)

CONSTANTS
    Runners,       \* activations of the service
    Receipts,      \* owner-signed receipts
    NoOne,         \* no activation, no receipt
    Versions,      \* contents of an approver store
    Bound,         \* the version whose hash the requests carry
    Trusts         \* the receipts whose signer a version trusts

ASSUME RunnerAssumption ==
    /\ NoOne \notin Runners \cup Receipts \cup Versions
    /\ Bound \in Versions
    /\ Trusts \in [Versions -> SUBSET Receipts]

VARIABLES
    rows,         \* the status of each receipt's row in the decision store
    spent,        \* the receipts whose nonce the broker consumed
    fresh,        \* the receipts that have not expired
    ownBound,     \* whether the approver store of the state root is version Bound
    fixedStore,   \* version of the fixed /etc approver store
    lock,         \* the holder of trusted-runner-approval.lock, or NoOne
    pc,           \* where each activation is in its code
    request,      \* the receipt in its request
    result,       \* the result it will sign
    secret,       \* its credential buffer: none, held or zeroized
    isolation,    \* whether its isolation root exists
    child,        \* its child process
    opened,       \* the activations that ever read the credential
    decidedUnder, \* the version under which its receipt was decided, or NoOne
    disturbed     \* the activations during whose approval fixedStore was replaced

vars == <<rows, spent, fresh, ownBound, fixedStore, lock, pc, request, result, secret,
          isolation, child, opened, decidedUnder, disturbed>>
approvals == <<rows, spent, decidedUnder>>
world == <<fresh, ownBound, fixedStore, disturbed>>
held == <<secret, isolation, child, opened>>

Results == [outcome : {"stopped_fail_closed", "completed"},
            approval_consumed : BOOLEAN, credential_material_opened : BOOLEAN,
            runtime_started : BOOLEAN, timed_out : BOOLEAN, descriptors_closed : BOOLEAN,
            credential_material_zeroized : BOOLEAN, isolation_root_removed : BOOLEAN]

(* How a child may end: with a complete result, a fail-closed one, one that *)
(* breaks its contract or its budget, or an exit code that is not zero.     *)
Ended == {"completed", "stopped", "invalid", "failed"}

TypeOK ==
    /\ rows \in [Receipts -> {"none", "approved", "completed"}]
    /\ spent \subseteq Receipts
    /\ fresh \subseteq Receipts
    /\ ownBound \in BOOLEAN /\ fixedStore \in Versions
    /\ lock \in Runners \cup {NoOne}
    /\ pc \in [Runners -> {"idle", "received", "validated", "locked", "trusted", "imported",
                           "decided", "consumed", "verified", "opened", "isolated", "waiting",
                           "terminating", "killing", "ended", "endedLate", "cleanup", "removing", "signing",
                           "signed", "dead"}]
    /\ request \in [Runners -> Receipts \cup {NoOne}]
    /\ result \in [Runners -> Results]
    /\ secret \in [Runners -> {"none", "held", "zeroized"}]
    /\ isolation \in [Runners -> BOOLEAN]
    /\ child \in [Runners -> {"none", "running"} \cup Ended]
    /\ opened \subseteq Runners
    /\ decidedUnder \in [Runners -> Versions \cup {NoOne}]
    /\ disturbed \subseteq Runners

(* execute starts from a result that claims nothing.                        *)
NoResult == [outcome |-> "stopped_fail_closed",
             approval_consumed |-> FALSE, credential_material_opened |-> FALSE,
             runtime_started |-> FALSE, timed_out |-> FALSE, descriptors_closed |-> TRUE,
             credential_material_zeroized |-> TRUE, isolation_root_removed |-> TRUE]

Init ==
    /\ rows = [q \in Receipts |-> "none"]
    /\ spent = {}
    /\ fresh = Receipts
    /\ ownBound = TRUE /\ fixedStore = Bound
    /\ lock = NoOne
    /\ pc = [r \in Runners |-> "idle"]
    /\ request = [r \in Runners |-> NoOne]
    /\ result = [r \in Runners |-> NoResult]
    /\ secret = [r \in Runners |-> "none"]
    /\ isolation = [r \in Runners |-> FALSE]
    /\ child = [r \in Runners |-> "none"]
    /\ opened = {}
    /\ decidedUnder = [r \in Runners |-> NoOne]
    /\ disturbed = {}

-----------------------------------------------------------------------------
Goto(r, l) == pc' = [pc EXCEPT ![r] = l]

Step(r, from, to) == pc[r] = from /\ Goto(r, to)

(* An exception: the finally block of execute is next, locks are released.  *)
Abort(r) ==
    /\ Goto(r, "cleanup")
    /\ lock' = IF lock = r THEN NoOne ELSE lock

-----------------------------------------------------------------------------
(* _receive_one and the checks before the approval                          *)

(* One message with one descriptor; anything else ends the activation       *)
(* without a result.                                                        *)
Receive(r, q) ==
    /\ pc[r] = "idle"
    /\ \/ Goto(r, "received") /\ request' = [request EXCEPT ![r] = q]
       \/ Goto(r, "dead") /\ UNCHANGED request
    /\ UNCHANGED <<approvals, world, lock, result, held>>

(* Peer uid, _validate_request and _verify_bundle.  The request's bindings  *)
(* must be this bootstrap's descriptor, which hashes the approver store.    *)
Validate(r) ==
    /\ pc[r] = "received"
    /\ \/ ownBound /\ Goto(r, "validated") /\ UNCHANGED lock
       \/ Abort(r)
    /\ UNCHANGED <<approvals, world, request, result, held>>

-----------------------------------------------------------------------------
(* _consume_approval                                                        *)

(* flock(LOCK_EX) on trusted-runner-approval.lock.                          *)
LockApprovals(r) ==
    /\ Step(r, "validated", "locked")
    /\ lock = NoOne
    /\ lock' = r
    /\ UNCHANGED <<approvals, world, request, result, held>>

(* The lock file is not private, or cannot be opened.                       *)
LockUnavailable(r) ==
    /\ pc[r] = "validated"
    /\ Abort(r)
    /\ UNCHANGED <<approvals, world, request, result, held>>

(* Mutant: only the store of the state root is compared.                    *)
CheckOwnAuthority(r) ==
    /\ pc[r] = "locked"
    /\ \/ ownBound /\ Goto(r, "trusted") /\ UNCHANGED lock
       \/ Abort(r)
    /\ UNCHANGED <<approvals, world, request, result, held>>

(* Both stores must have the bound hash.                                    *)
CheckAuthority(r) ==
    /\ pc[r] = "locked"
    /\ \/ ownBound /\ fixedStore = Bound /\ Goto(r, "trusted") /\ UNCHANGED lock
       \/ Abort(r)
    /\ UNCHANGED <<approvals, world, request, result, held>>

(* The envelope verifies: not expired, and signed by an approver that the   *)
(* fixed store names now (_verify_operation_envelope reads that store).     *)
Verifies(q) == q \in fresh /\ q \in Trusts[fixedStore]

(* import_operation_approval: a receipt already in the store is refused.    *)
Import(r) ==
    /\ pc[r] = "trusted"
    /\ \/ /\ rows[request[r]] = "none" /\ Verifies(request[r])
          /\ rows' = [rows EXCEPT ![request[r]] = "approved"]
          /\ Goto(r, "imported")
          /\ UNCHANGED lock
       \/ /\ Abort(r)
          /\ UNCHANGED rows
    /\ UNCHANGED <<spent, decidedUnder, world, request, result, held>>

(* Mutant: a nonce consumed before is answered as if it were fresh.         *)
EvaluateSpentAgain(r) ==
    /\ pc[r] = "imported"
    /\ Verifies(request[r])
    /\ rows[request[r]] = "approved"
    /\ spent' = spent \cup {request[r]}
    /\ decidedUnder' = [decidedUnder EXCEPT ![r] = fixedStore]
    /\ rows' = [rows EXCEPT ![request[r]] = "completed"]
    /\ Goto(r, "decided")
    /\ UNCHANGED <<world, lock, request, result, held>>

(* evaluate_escalation verifies the envelope of the row again; the broker   *)
(* consumes the nonce and the row is completed; or the nonce is consumed    *)
(* and its answer or the row is lost; or nothing is consumed.               *)
Evaluate(r) ==
    /\ pc[r] = "imported"
    /\ \/ /\ Verifies(request[r]) /\ request[r] \notin spent
          /\ rows[request[r]] = "approved"
          /\ spent' = spent \cup {request[r]}
          /\ decidedUnder' = [decidedUnder EXCEPT ![r] = fixedStore]
          /\ \/ /\ rows' = [rows EXCEPT ![request[r]] = "completed"]
                /\ Goto(r, "decided")
                /\ UNCHANGED lock
             \/ /\ Abort(r)
                /\ UNCHANGED rows
       \/ /\ Abort(r)
          /\ UNCHANGED approvals
    /\ UNCHANGED <<world, request, result, held>>

(* The store of the state root, and not the fixed one, is hashed once more, *)
(* and the answer compared with the expected one; only then does the result *)
(* say consumed.                                                            *)
RecheckAuthority(r) ==
    /\ pc[r] = "decided"
    /\ \/ /\ ownBound
          /\ lock' = NoOne
          /\ result' = [result EXCEPT ![r].approval_consumed = TRUE]
          /\ Goto(r, "consumed")
       \/ Abort(r) /\ UNCHANGED result
    /\ UNCHANGED <<approvals, world, request, held>>

(* _verify_bundle again and _verify_runtime.                                *)
Reverify(r) ==
    /\ pc[r] = "consumed"
    /\ \/ Goto(r, "verified") /\ UNCHANGED lock
       \/ Abort(r)
    /\ UNCHANGED <<approvals, world, request, result, held>>

-----------------------------------------------------------------------------
(* Credential, isolation root and child                                     *)

(* The file is unreadable; or it has the wrong hash or shape, and what was   *)
(* read is wiped before the exception.                                      *)
OpenCredential(r) ==
    /\ pc[r] = "verified"
    /\ \/ /\ secret' = [secret EXCEPT ![r] = "held"]
          /\ opened' = opened \cup {r}
          /\ result' = [result EXCEPT ![r].credential_material_opened = TRUE]
          /\ Goto(r, "opened")
          /\ UNCHANGED lock
       \/ /\ secret' = [secret EXCEPT ![r] = "zeroized"]
          /\ opened' = opened \cup {r}
          /\ Abort(r)
          /\ UNCHANGED result
       \/ /\ Abort(r)
          /\ UNCHANGED <<secret, opened, result>>
    /\ UNCHANGED <<approvals, world, request, isolation, child>>

(* mkdtemp, whose directory is known to the finally block even if its chmod *)
(* fails.                                                                   *)
MakeIsolation(r) ==
    /\ pc[r] = "opened"
    /\ \/ /\ isolation' = [isolation EXCEPT ![r] = TRUE]
          /\ \/ Goto(r, "isolated") /\ UNCHANGED lock
             \/ Abort(r)
       \/ Abort(r) /\ UNCHANGED isolation
    /\ UNCHANGED <<approvals, world, request, result, secret, child, opened>>

(* _run_child up to Popen.  If it raises, every descriptor opened so far is *)
(* closed, and a failing close is reported.                                 *)
Launch(r) ==
    /\ pc[r] = "isolated"
    /\ \/ /\ child' = [child EXCEPT ![r] = "running"]
          /\ Goto(r, "waiting")
          /\ UNCHANGED <<lock, result>>
       \/ /\ \E c \in BOOLEAN : result' = [result EXCEPT ![r].descriptors_closed = c]
          /\ Abort(r)
          /\ UNCHANGED child
    /\ UNCHANGED <<approvals, world, request, secret, isolation, opened>>

(* child.wait returns, before the deadline or after it.                     *)
Reap(r) ==
    /\ child[r] # "running"
    /\ \/ Step(r, "waiting", "ended")
       \/ Step(r, "terminating", "endedLate")
       \/ Step(r, "killing", "endedLate")
    /\ UNCHANGED <<approvals, world, lock, request, result, held>>

(* Mutant: the first wait has no timeout.                                   *)
WaitTimesOutNever(r) ==
    /\ child[r] = "running"
    /\ Step(r, "terminating", "killing")
    /\ UNCHANGED <<approvals, world, lock, request, result, held>>

(* The deadline passes: SIGTERM to the process group, after two seconds     *)
(* SIGKILL, and after two more the wait itself raises.                      *)
WaitTimesOut(r) ==
    /\ child[r] = "running"
    /\ \/ Step(r, "waiting", "terminating") /\ UNCHANGED <<lock, result>>
       \/ Step(r, "terminating", "killing") /\ UNCHANGED <<lock, result>>
       \/ /\ pc[r] = "killing"
          /\ \E c \in BOOLEAN : result' = [result EXCEPT ![r].descriptors_closed = c]
          /\ Abort(r)
    /\ UNCHANGED <<approvals, world, request, held>>

(* Mutant: a result the child wrote after the deadline still counts.        *)
OutcomeEvenLate(r) ==
    IF child[r] = "completed" THEN "completed" ELSE "stopped_fail_closed"

(* The outcome execute derives from the observation.                        *)
Outcome(r) ==
    IF pc[r] = "ended" /\ child[r] = "completed" THEN "completed" ELSE "stopped_fail_closed"

(* The descriptors are closed and the output is read.  A child that timed   *)
(* out or failed is not asked for a result; an invalid result raises, and   *)
(* so does a failing close or an unreadable output: the observation is lost.*)
Observe(r) ==
    /\ pc[r] \in {"ended", "endedLate"}
    /\ \/ /\ pc[r] = "ended" => child[r] # "invalid"
          /\ result' = [result EXCEPT ![r].runtime_started = TRUE,
                                      ![r].timed_out = (pc[r] = "endedLate"),
                                      ![r].outcome = Outcome(r)]
       \/ \E c \in BOOLEAN : result' = [result EXCEPT ![r].descriptors_closed = c]
    /\ Abort(r)
    /\ UNCHANGED <<approvals, world, request, held>>

-----------------------------------------------------------------------------
(* The finally block, and the signature                                     *)

Zeroize(r) ==
    /\ Step(r, "cleanup", "removing")
    /\ secret' = [secret EXCEPT ![r] = IF @ = "held" THEN "zeroized" ELSE @]
    /\ UNCHANGED <<approvals, world, lock, request, result, isolation, child, opened>>

(* rmtree succeeds, or the rollback is reported as incomplete.              *)
RemoveIsolation(r) ==
    /\ Step(r, "removing", "signing")
    /\ \/ /\ isolation' = [isolation EXCEPT ![r] = FALSE]
          /\ UNCHANGED result
       \/ /\ isolation[r]
          /\ result' = [result EXCEPT ![r].isolation_root_removed = FALSE,
                                      ![r].outcome = "stopped_fail_closed"]
          /\ UNCHANGED isolation
    /\ UNCHANGED <<approvals, world, lock, request, secret, child, opened>>

(* _sign_result and sendall, or the key cannot be read.                     *)
Sign(r) ==
    /\ pc[r] = "signing"
    /\ \/ Goto(r, "signed")
       \/ Goto(r, "dead")
    /\ UNCHANGED <<approvals, world, lock, request, result, held>>

-----------------------------------------------------------------------------
(* The environment                                                          *)

(* The child ends by itself; once it is signalled its exit code is not zero,*)
(* unless it was ending just then.                                          *)
ChildEnds(r) ==
    /\ child[r] = "running"
    /\ child' \in {[child EXCEPT ![r] = e] : e \in Ended}
    /\ UNCHANGED <<approvals, world, lock, pc, request, result, secret, isolation, opened>>

Expire(q) ==
    /\ q \in fresh
    /\ fresh' = fresh \ {q}
    /\ UNCHANGED <<approvals, ownBound, fixedStore, disturbed, lock, pc, request, result, held>>

(* An activation between its comparison of the stores and its decision.     *)
Approving == {"trusted", "imported"}

(* The Owner installs another version of one of the approver stores, new or *)
(* used before.                                                             *)
ReplaceStore ==
    /\ \/ /\ ownBound' = ~ownBound
          /\ UNCHANGED <<fixedStore, disturbed>>
       \/ /\ fixedStore' \in Versions \ {fixedStore}
          /\ disturbed' = disturbed \cup {r \in Runners : pc[r] \in Approving}
          /\ UNCHANGED ownBound
    /\ UNCHANGED <<approvals, fresh, lock, pc, request, result, held>>

(* SIGKILL: memory is gone, the kernel drops the lock; files and the child  *)
(* stay.                                                                    *)
Kill(r) ==
    /\ pc[r] \notin {"idle", "signed", "dead"}
    /\ Goto(r, "dead")
    /\ lock' = IF lock = r THEN NoOne ELSE lock
    /\ secret' = [secret EXCEPT ![r] = "none"]
    /\ result' = [result EXCEPT ![r] = NoResult]
    /\ UNCHANGED <<approvals, world, request, isolation, child, opened>>

(* The rows a power loss can leave: the store is replaced without fsync, so *)
(* any row may be back at an earlier status.                                *)
Older ==
    LET Back == [none |-> {"none"}, approved |-> {"none", "approved"},
                 completed |-> {"none", "approved", "completed"}]
    IN  {f \in [Receipts -> {"none", "approved", "completed"}] :
            \A q \in Receipts : f[q] \in Back[rows[q]]}

(* Every activation and child dies; the broker's ledger was fsynced.        *)
PowerLoss ==
    /\ \E r \in Runners : pc[r] \notin {"idle", "dead"}
    /\ rows' \in Older
    /\ pc' = [r \in Runners |-> IF pc[r] \in {"idle", "signed"} THEN pc[r] ELSE "dead"]
    /\ lock' = NoOne
    /\ secret' = [r \in Runners |-> IF pc[r] = "signed" THEN secret[r] ELSE "none"]
    /\ child' = [r \in Runners |-> IF child[r] = "running" THEN "failed" ELSE child[r]]
    /\ result' = [r \in Runners |-> IF pc[r] = "signed" THEN result[r] ELSE NoResult]
    /\ UNCHANGED <<spent, decidedUnder, world, request, isolation, opened>>

-----------------------------------------------------------------------------
Run(r) ==
    \/ Validate(r) \/ LockApprovals(r) \/ CheckAuthority(r) \/ Import(r) \/ Evaluate(r)
    \/ RecheckAuthority(r) \/ Reverify(r) \/ OpenCredential(r) \/ MakeIsolation(r)
    \/ Launch(r) \/ Reap(r) \/ WaitTimesOut(r) \/ Observe(r)
    \/ Zeroize(r) \/ RemoveIsolation(r) \/ Sign(r)

Next ==
    \/ \E r \in Runners : Run(r) \/ LockUnavailable(r) \/ ChildEnds(r) \/ Kill(r)
    \/ \E r \in Runners, q \in Receipts : Receive(r, q)
    \/ \E q \in Receipts : Expire(q)
    \/ ReplaceStore
    \/ PowerLoss

Spec == Init /\ [][Next]_vars

(* An activation that is alive keeps running, and flock serves its waiters. *)
(* Nothing is assumed of the child.                                         *)
FairSpec == Spec /\ \A r \in Runners : WF_vars(Run(r)) /\ SF_vars(LockApprovals(r))

-----------------------------------------------------------------------------
(* Properties                                                               *)

(* One receipt opens the credential at most once, whatever activations race,*)
(* are killed and retry, and even if a power loss takes the decision store  *)
(* back to before the receipt was imported.                                 *)
OneOpenPerReceipt ==
    \A r, s \in opened : request[r] = request[s] => r = s

(* The credential is opened only on a consumed receipt whose signer the     *)
(* fixed approver store trusted when the receipt was decided: a signer that *)
(* is taken out of the store after the import, or before, opens nothing.    *)
(* And that store was the one the request is bound to, whatever stood there *)
(* before and after, unless the Owner replaced it between the comparison    *)
(* of this activation and its decision: the fixed store is not hashed again.*)
OpenedUnderDecidedAuthority ==
    \A r \in opened :
        /\ request[r] \in spent
        /\ decidedUnder[r] # NoOne /\ request[r] \in Trusts[decidedUnder[r]]
        /\ decidedUnder[r] = Bound \/ r \in disturbed

(* A signed result is the truth, whatever failed on the way: no credential  *)
(* is in memory, an isolation root that could not be removed is admitted,   *)
(* "consumed" and "started" are never claimed without cause; and one that    *)
(* says completed stands on a child that completed before its deadline, was *)
(* observed, and left nothing behind.                                       *)
SignedIsTrue ==
    \A r \in Runners : pc[r] = "signed" =>
        /\ secret[r] # "held"
        /\ isolation[r] => ~result[r].isolation_root_removed
        /\ result[r].approval_consumed => request[r] \in spent
        /\ result[r].runtime_started => child[r] # "none"
        /\ result[r].outcome = "completed" =>
            /\ child[r] = "completed" /\ ~result[r].timed_out
            /\ result[r].runtime_started
            /\ request[r] \in spent
            /\ secret[r] = "zeroized"
            /\ ~isolation[r]
            /\ result[r].descriptors_closed

(* Every request that is received is answered, unless the activation dies:  *)
(* neither the child nor the other activations can hold it up forever.      *)
RequestIsAnswered ==
    \A r \in Runners : pc[r] = "received" ~> pc[r] \in {"signed", "dead"}
=============================================================================
