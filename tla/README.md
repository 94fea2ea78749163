# Verification of the SDD governance control plane

`sddgov` (src/src/sddgov, about 16,800 lines of Python) governs what autonomous coding
agents may do without their owner. Several agents, several clones of a repository, a root
daemon, a runner service and an owner work on the same files and sockets, and any of them
may be killed at any moment. This directory holds TLA+ models of that machinery, the TLC
runs that check them on small instances, and TLAPS proofs of what matters most for every
instance. `PROJECT.json` lists components, runs, mutants, findings, hazards and theorems and
maps every definition to the lines it models.

## 1. Inventory

| component | state it keeps | operations | what is hard | what makes it correct |
|---|---|---|---|---|
| Nonce broker, ledger (`broker.py`) | append-only file of consumed nonces, its `flock` | `initialize`, `consume`, `validate` (health) | overlapping daemons, partial writes, fsync, power loss, the capacity | a nonce is consumed once, and what was answered is on disk |
| Nonce broker, socket (`broker.py`) | socket path, staging and cleanup names, accept backoff | publish, serve, shut down, clean up | several daemons in one directory, stale identities | one reachable configured socket; nobody's socket but one's own is unlinked |
| Decision store, L3 approvals (`autonomy.py`) | `decisions.json` per clone, `decisions.lock` | `import_operation_approval`, `_consume_operation_approval` | the lock is held over a socket call with a timeout; lost answers; no fsync | one nonce authorizes one operation; no decision is lost |
| Escalation (`autonomy.py`) | decisions, approvals, queue, profile | `evaluate_escalation`, `evaluate_deployment`, `record_decision` | many early returns over category x risk x effects x fields; stale decisions | no downgrade, no reuse of a stale decision, one exact use of an approval |
| External actions (`governance.py`, `autonomy.py`) | `external-actions.json`, its lock, `events.jsonl` | enqueue, expire, resolve, answer | two files written one after the other, expiry, late and repeated receipts | one row and one verdict per action, signed by the owner |
| Work claims (`governance.py`) | `work-claims.json` | `claim_work` | read-modify-write without a lock | one holder per work package |
| Trusted Runner (`trusted_runner.py`, `_trusted_exec.py`) | state root, approval lock, credential, isolation root, child | one activation per connection | concurrent activations, timeouts, failures in cleanup | one opening of the credential per receipt; the signed result is true |
| Evidence publication (`evidence.py`, `fs_security.py`) | generations of a control document, its public name, claims and pending names (hard links) | `_write_bytes_at`, `_MutationTransaction`, `remove_owned_at` | no-clobber publication without a lock; undo after a partial failure | no lost update; a later writer is preserved; a failure puts the predecessor back |
| Evidence packages (`evidence.py`, `redaction.py`) | manifest, report, summary, raw and shareable zones | `make_dep`, `collect`, `redact`, `transition`, `attach` | commands on one package, verified state used later, rollback of several documents | nothing shareable without its report; phases and attachments are earned |
| Merge gate, reviewer (`merge_gate.py`, `reviewer.py`) | the Git history, gate file and review receipt in it, reviewer stores | `verify_merge`, `sign_protected_review` | refs that move during a verification; commits and merges that hide something; revoked keys | MERGE_READY only for a change that was reviewed, can be reverted and carries no raw evidence |
| CI guard (`ci_guard.py`) | lock file of the Local Green gate in /tmp | `run_local_gate`, `verify_guard` | the lock file is removed while a gate waits | one gate of a user at a time |
| Owner approval (`owner_approval.py`, `owner_cli.py`, `fs_security.py`) | the card, the receipt file in the outbox, trust store | `approve-product`, `import_product_approval`, `verify_product_decision` | inputs change while the Owner reads and while the signer waits; fsync order; cleanup of a reused name | the Owner signs what was shown; a committed receipt stays |
| Installer, production containment | managed files; a synthetic cgroup scope | see plan | rollback | see plan |
| CLI, pilot report, benchmark, schema validation, text redaction, release scripts | none or text | dispatch, validation, rewriting | nothing a model checker adds to | not modelled |

How they interact: an agent's `evaluate_escalation` takes `decisions.lock` of its clone and,
holding it, calls the broker over the Unix socket; the broker serialises daemons with
`LOCK_EX` on the ledger. `evaluate_escalation` puts owner actions into the queue of
`governance.py`, and receipts the owner signed come back through
`import_external_action_resolution`. The Trusted Runner uses the same import and evaluation
on its own state root before it opens the credential. Evidence commands share nothing with
these but work on the files of one package, and several of them may run at once.
`verify_merge` verifies the evidence packages a gate lists, reads the review receipt that
`sign_protected_review` made on another host, and ends with `run_local_gate`. The Owner's
client builds its card with `evaluate_escalation` and signs it; the receipt file is what
`import_product_approval` puts into the decision store.

## 2. Modules and the code they model

| module | models | built on |
|---|---|---|
| `NonceBroker` | ledger, daemons, connections, power loss | |
| `L3Approval` | agents and decision stores of several clones | EXTENDS `NonceBroker` |
| `OneShotApproval` | what the two promise together (abstract) | instantiated by `L3Approval` |
| `BrokerSocket` | publication, accept loop and cleanup of the socket | |
| `ExternalActions` | the queue of owner actions | |
| `WorkClaims` | `claim_work` | |
| `Escalation` | the classifier, one evaluation per step | |
| `TrustedRunner` | activations of the runner | |
| `EvidencePublish` | replacement of one control document of a package | |
| `EvidenceFlow` | the commands on one package, their publications step by step | |
| `LocalGate` | the lock of the Local Green gate | |
| `MergeGate` | `verify_merge`, Builder, Reviewer, the commit graph | EXTENDS `LocalGate` |
| `OwnerApproval` | Owner sessions, snapshots, the durable receipt, its import | |
| `AutonomyProofs` | theorems about the broker, L3 approvals, escalation and work claims | EXTENDS `L3Approval`, `Escalation`, `WorkClaims` |
| `BrokerSocketProofs`, `ExternalActionsProofs`, `TrustedRunnerProofs`, `EvidencePublishProofs`, `EvidenceFlowProofs`, `MergeGateProofs`, `OwnerApprovalProofs` | theorems | EXTEND their component |
| `MC*` | constants and symmetry for TLC | EXTEND their component |

Operators introduced by a comment "Mutant:" are not part of a model. Each is a wrong version
of the definition below it, and the mutants of `PROJECT.json` show that the property notices
when the definition is replaced by it.

**NonceBroker.** A record is its nonce, `Torn` a fragment that does not parse, and the
capacity is counted in records. `synced` is the length of the prefix on disk and `entry` says
whether the directory entry exists and is durable. A start is `OpenLedger`, `SyncDirectory`
(the creator only) and `ScanAtStart`. A request is `Accept`, then `RejectUnread`,
`AnswerHealth` or `LockLedger`, `RefuseConsume` or `FindFresh`, `AppendRecord` or
`AppendFails`, `FsyncLedger` or `FsyncFails`, and `Reply`. `BrokerExit` kills a daemon
anywhere; `PowerLoss` keeps the synced prefix, any part of the rest, and perhaps a fragment.
The constant `EntryFollowsFile` says whether `fsync` of a file also persists its directory
entry (it does on the journalling file systems in common use; POSIX does not promise it).

**L3Approval.** A row is `none`, `approved` or `completed`. Every mutation takes the lock,
reads the whole store into `aview` and writes the whole copy back. The timeout of the client
(`NotConsumed`) may strike at any moment of the request, also after the broker consumed the
nonce. `_atomic_json` does not fsync, so `HostLoss` may take any store back.

**BrokerSocket.** Inodes are named by the daemon that bound them. `final` is the socket path,
`staging` and `pending` the private names. Renames are exclusive. `RemovePath` is an operator
removing the path by hand; the two properties about service hold until that happens to a
live daemon (`disturbed`).

**ExternalActions.** A row holds the request an action id is bound to, its status, its
lifetime and the receipt that settled it. `WriteStore` and `EmitEvent` are separate steps
under the lock and a crash may come between them. The clock moves at any time, also while a
call waits for the lock. `EditRow` puts any status and any receipt, signed or not, into a row
by hand; after that only `ToldOnlyWhatWasSigned` is claimed.

**WorkClaims.** `Begin` validates, `Prepare` or `RefuseClaim` reads and decides, `Replace` writes,
`EmitAndReturn` logs and returns.

**Escalation.** One evaluation is one step. A request is a risk, a category, a set of effects
and groups of fields; the definitions `Malformed`, `OutsideSchema`, `Misclassified`,
`Downgraded` and `Refused` follow the order of the checks in `evaluate_escalation`. One
decision, one approval and one action are followed, which is enough because requests name
them by id and the code never combines two; for the same reason `MaxRecords` keeps one of the
three on record at a time. A blocked answer keeps no request, since nothing follows from it. The interleavings inside the L3 path and the
queue are those of `L3Approval` and `ExternalActions`.

**TrustedRunner.** One activation goes through `Receive`, `Validate`, the locked approval
(`LockApprovals` to `RecheckAuthority`), `Reverify`, `OpenCredential`, `MakeIsolation`,
`Launch`, the wait with TERM and KILL, `Observe`, and the `finally` block (`Zeroize`,
`RemoveIsolation`) to `Sign`. Every step may raise and then goes to the `finally` block. A
receipt stands for its request; the sealed bundle is a check that passes or fails. There are two
approver stores: the one of the state root, compared with the request's hash before and after the
approval, and the fixed one of /etc, compared before it only, against which the import and the
evaluation verify the signer. A version of a store is its content, which is what the code hashes,
and `ReplaceStore` installs any version at any time, an earlier one too. The decision of the receipt is the pair `Import`, `Evaluate`, each atomic here because it is
`L3Approval` that shows what happens inside.

**EvidencePublish.** A generation is an inode whose bytes do not change, and the state is
which names link it: the public name, the staging claim `.sddgov.control-new-*` (`claim`), the
predecessor's claim `.sddgov.control-old-*` (`old`), a name taken by `remove_owned_at`
(`pend`) and pending names left behind (`kept`). `Links` is `st_nlink`: a read accepts a
generation only with one link, which is why the claims of another writer matter. A writer
reads (`ReadExpected`), checks and stages, links the predecessor, takes the public name and
settles what it took (`Take`, `Settle`), identifies the predecessor, publishes by `link`,
confirms, and later verifies and finalizes in the transaction. `Raise` is the handler:
withdraw what was published (again `Take` and `Settle`), put the predecessor back, drop the
claims. `Replace` is another program that renames a file over the document, `Fault` any
failing system call or lost path lease, `Crash` a kill. Staging up to the verified claim is
one step because its names are random and nobody else uses them. The properties about one
command's failure say so with `Solo`.

**EvidenceFlow.** Manifest and summary are replaced in the steps of `_write_bytes_at`: `Check`,
`ClaimOld`, `Take` or `TakeNothing`, `SettleOwned` or `SettleForeign`, `Identify`, `Publish`,
`Commit`, `Finalize`; and back, `Take` and settle again, `Restore`, `DiscardOld`. The public name is
empty in between and a kill may come there. What `EvidencePublish` adds to these steps (failing
system calls, other programs, the link of the staged document) is left out; what it lacks is
here: the documents have a content, and a redaction publishes outputs, report and manifest in one
transaction. `make_dep` gives the initial state. An artifact is the collect that wrote it, a
shareable output also the redaction it came from; `Opaque` names are those redaction blocks.
Redaction reads file by file, and a failure is undone in the order of the code: outputs by the
command's own handler, then manifest, report and outputs by the transaction. Verification is six
steps, one per read (`VerifyList`, `VerifySummary`, `VerifyManifest`, `VerifyRequired`,
`VerifyReport`, `VerifyArtifacts`): the report is looked for in `VerifyRequired` and read in
`VerifyReport`, where one that is no longer there is asked nothing. Three histories tell what the
exempted behaviours are: `undone`, the commands that took back what they had published; `missed`,
those of them that found nothing of theirs to take back; `withdrawn`, the redactions that removed
their report. `Teams` names the sets of commands a run starts together.

**LocalGate.** The lock is on an inode and is found by name, so directories and files are
inodes. A gate enters the directory, opens the file, waits for `flock` and then compares names
and inodes once more (`RecheckLock`). `CleanTmp` removes file or directory at any moment at
which no gate is in its critical section; if it removed them then too, no check of this code
could keep the next gate out. Guard and commands of the contract pass or raise.

**MergeGate.** The repository is a sequence of immutable commits with parents, a tree, the gate
file and the receipt. A path stands for all files of its kind (ordinary and protected code,
policy, reviewer store, evidence, raw evidence), and a digest is the difference it hashes.
`RollbackRef` is what the rollback record in the evidence names. The Builder commits edits,
evidence, gate and receipt (`Commit*`), other clones' commits are merged with either side's tree
(`Pull`), the base advances, the clock moves, and the Reviewer signs any commit whose gate binds
it. `BaseMerges` lets the base fast-forward to a part of HEAD while HEAD is verified.
`verify_merge` is one action per group of reads, because it keeps only head, base and
gate and resolves `HEAD` and the base ref again by name in every later step. Three of its properties
hold wherever the refs advance; `ProtectedIsReviewed` needs them to stand still (section 4).

**OwnerApproval.** The contents of a file are a version and its metadata a generation, so an
edit that restores the bytes is still seen by `revalidate`. A session reads the files of a card
one by one, revalidates them one by one, shows the card, and after the choice builds it again
and compares. `Confirm`, `Sign`, `VerifySigned` and the steps of `write_new_regular_file`
follow; `FailsWriting`, `TakeAside`, `Discard` and `GiveBack` are its failure and
`remove_owned_at`. `PowerLoss` keeps the synced state of directory and file or any later one. The
Agent imports the receipt and verifies the stored decision under a snapshot of its own.

## 3. Runs

Bounds are the smallest with which every action fires and every race needs no further
process: two processes for a race, a third where one must come after a race; two nonces,
receipts or requests where one must be confused with another.

| run | instance | checks |
|---|---|---|
| `NonceBroker` | 2 daemons, 3 connections, 3 nonces, room for 2 records | single consumption, durability, append-only; behind damage nothing is appended and nothing answered CONSUMED, and every CONSUMED leaves a ledger the next start accepts |
| `L3Approval` | 2 agents in one clone, 1 receipt, 1 daemon, 2 connections | one authorization, sound rows, no lost decision, refinement of `OneShotApproval`, the decision lock is released |
| `BrokerSocket` | 3 daemons, 3 accept failures, backoff up to 3 | reachable and configured while serving, only one's own socket unlinked, cleanup ends |
| `ExternalActions` | 2 agents, 1 action, 2 requests, 2 receipts, time 0..1, 1 edit by hand | one row per action with a signed verdict, final rows, log and store agree, only signed verdicts are told |
| `ClaimsRace` | 2 agents, 1 package | **violated**: one holder |
| `Escalation` | one category per treatment, all risks, effects and gates, up to 3 field groups, two payloads, two profiles, plain and signed decisions | reuse only while unchanged; what goes ahead is authorized exactly (no downgrade, one use of an approval) |
| `TrustedRunner` | 2 activations, 1 receipt, 3 versions of the stores (bound; another that trusts the signer; one that does not), replaced and put back any number of times | one opening, only under the authority of the decision, true results, every request answered |
| `EvidencePublish` | 2 commands, 2 foreign generations, 2 faults, 1 kill | no lost update, only owned generations unlinked, predecessor kept, and restored or left under its claim, a later writer wins |
| `NameLost` | 2 commands, nothing else | **violated**: the document keeps its name |
| `EvidenceFlow` | 2 collects and 1 redaction, or 1 collect, 1 redaction, 1 transition and 1 attachment; 2 names of which 1 is blocked, 1 kill or lost lease | report before shareable, collected rows stay, phases and attachments are earned |
| `MergeGate` | 6 commits in all (2 edits, 1 pull with its merge, 1 of each other kind), 3 roots (key active, key revoked, first installation), 2 Builders, 2 gates | one commit carries all, nothing after the review, protected is reviewed, no raw evidence in history, one gate at a time |
| `OwnerApproval` | 2 sessions, 1 Agent, 2 versions, 2 keys, 2 audiences, 2 moves of the surroundings | cards are snapshots, signed was shown, published still held, committed stays |

In `L3Approval` one clone is enough to make both agents meet at the lock; a second clone adds
a store that knows nothing of the first, and `HostLoss` produces the same by taking a store
back. The theorems of section 5 hold for any number of clones. The clock of
`ExternalActions` reaches the end of an action's lifetime, and a receipt may be dated one unit
ahead (`Skew`), past that end. Three field groups are enough for each answer of
`evaluate_escalation`: no answer depends on more than three at once, except that a prompt for
an L3 operation (approval, payload, package) may also carry `unrelated`. `LastPhase` is 1 in
`EvidenceFlow`: all phases after `red` ask the same of report and artifacts. Its two teams are
the races for the manifest and the race of a verification with everything it reads (1.8 million
states together); two transitions at once race for the summary only, as two writers of
`EvidencePublish` do. Two collects, a redaction and a transition together (15.9 million states) and
three collects with three names were checked too and are too slow to keep. A foreign
generation of `EvidencePublish` may come back once nothing links it any more, so two of them
stand for any number of replacements.

In `MergeGate` a ref moves at most once during one verification (HEAD by a commit or a pull, the
base by a change of its own or by merging a part of HEAD), which is enough to separate
any two of its reads, and not while only the Local Green gate is left, since nothing is read
after that. Edits are to ordinary, protected and raw paths and the declared risk is L1 with
evidence; a larger set, in which a change edits the reviewer store itself, was checked too (2.5
million states) and is too slow to keep. In `OwnerApproval` two moves are one to change something and one to change it back
(three were checked too, before the Agent was added); a verification by the Agent runs when no
session does, with which it shares nothing but the files others edit; an import with a decision
already stored only raises and is left out.

Deadlock checking is off only where the system may really stop: daemons that have all ended
(`BrokerSocket`), activations that have all ended (`TrustedRunner`), evidence commands that have
all ended (`EvidencePublish`, `EvidenceFlow`), a verification that has ended with its bounds
used up (`MergeGate`), sessions that have all ended (`OwnerApproval`). Symmetry is used only
where no liveness property is checked, over interchangeable processes and names.

**Fairness.** `LockIsReleased`: weak fairness of an agent that holds the lock; nothing is
assumed of the broker, the ten-second timeout is the agent's own step. `CleanupEnds`: weak
fairness of a daemon's own cleanup. `RequestIsAnswered`: weak fairness of an activation and
strong fairness of `flock`, whose waiters the kernel queues; nothing is assumed of the child.

## 4. Findings

Two runs show code that does not do what a document, a comment or a test says; the
quotations are in `PROJECT.json`.

1. `ClaimsRace`: `claim_work` has no lock; two agents get the same work package. The file never
   shows it (`FileClaimsOnce` of section 5).
2. `NameLost`: two evidence commands that link the same predecessor both fail, and the control
   document disappears from its public name. Its bytes survive under `.sddgov.control-old-*`.
   A command that is alone keeps its document, but not always the name: one failing call between
   the link of the predecessor and the read of its claim leaves the name empty, with the document
   under the claim (`AloneKeepsTheDocument`, `RollbackRestores`).

Observations without a run of their own:

- The ledger's directory is fsynced only by the process that created the ledger
  (broker.py:154). If it dies first, no later start repeats the fsync, and where `fsync` of a
  file does not persist its entry a power loss can remove a ledger with consumed nonces. With
  `EntryFollowsFile = FALSE` TLC finds `AuthorizedOnce` violated in this way.
- `consume` refuses the record that would bring the ledger to its capacity, so the file stays
  below it and `validate`, the health answer, stays READY while every consume is refused;
  docs/L3_BROKER_OPERATIONS.md:77 says that reaching it "fails health and consumption closed".
- A checkpoint, an uncertainty or an operational action that declares sensitive effects at L3
  is not turned into a canonical L3 operation (autonomy.py:2033), which
  docs/AUTONOMOUS_DEVELOPMENT_V1_2.md:76 asks for.
- An unapproved deployment with `unrelated_work_exists` is answered CONTINUE with the reason
  `human_decision_blocks_only_dependent_work`, and `sddgov deploy` (cli.py:577) exits with
  success on CONTINUE. A caller has to read the reason.
- If `_run_child` raises after `Popen` (an invalid child result, a failing close, a wait that
  outlasts SIGKILL), `result.update(observation)` at trusted_runner.py:1600 is not reached: the
  signed result keeps `runtime_started` false although a child ran with the credential.
  `SignedIsTrue` says what does hold of a signed result.
- The fixed approver store is hashed before the import (trusted_runner.py:1118) and not again after
  the decision (only the state root's is, at line 1185), while import and evaluation verify against
  it. If it is replaced in that window, a credential may be opened under a store other than the one
  the request is bound to, as long as that store trusts the signer too.
  `OpenedUnderDecidedAuthority` names this case (`disturbed`).
- `verify_merge` answers with the `head_sha` it read at merge_gate.py:1095, but resolves `HEAD`
  and the base ref again at lines 1123, 1183, 1194, 1198 and 1210. If a ref moves in between, the
  protected paths are those of another pair of commits, and `ProtectedIsReviewed` fails for the head
  that is named; docs/HARD_GATES_V1_2.md:35 binds the gate to the exact head. The search for raw
  evidence is also that of another pair, but as long as the refs advance it covers every commit a
  merge would still bring in (`NoRawInHistory`). A checkout or a reset to a commit that does
  not descend from the verified head is not modelled, and then it need not.
- An Owner who answers B while another session commits the same card is told APPROVED: the look
  at an existing receipt (owner_approval.py:851) comes before the choice;
  docs/OWNER_KEY_CEREMONY.md:100 says that option B always declines.
- A second session that finds a receipt reports it as committed although its writer may not have
  synced it yet, and may still fail and remove it. `CommittedStays` therefore speaks of
  the session that wrote it.
- Evidence publication: one failing call between the link of the predecessor and the read of
  its claim leaves the public name empty and the claim in place; two failing calls, in the
  withdrawal and in the restoration, let `restore_old_claim` take the writer's own
  generation for a later writer and discard the predecessor. `PredecessorKept` and
  `RollbackRestores` state exactly what is left. A kill while the name is empty leaves it empty
  too, and so may two later writers (finding 2): a package without its manifest is refused by every
  later command, and what was collected is then listed only under a transaction's name.
- Evidence flow: a command may build on a manifest whose writer then rolls back and removes
  its raw artifact. The manifest then has a row without an artifact, and verification refuses
  the package from then on.
- The row of a collect that reported success can be lost, without any fault: a redaction is about to
  commit, collect A builds on its manifest and commits, collect B takes A's manifest away to
  replace it; the redaction then finds the name empty, fails its verification, withdraws nothing and
  puts its predecessor back; B finds the name taken and gives up. `CollectedStays` exempts
  behaviours in which a command takes back what it had published (`undone`).
- `rollback_publication` does not ask whether `remove_owned_at` removed anything. A redaction whose
  manifest another command holds under a private name at that moment removes its report
  nevertheless, and the manifest comes back with shareable rows and without a report.
  `ShareNeedsReport` exempts such a manifest (`missed`).
- `_verify_open` finds the report at evidence.py:2705 and reads it again at line 2731, where
  a missing file is no error and skips the checks for blocked artifacts, shareable rows and
  associations. When a redaction takes its report back in between, `transition` publishes a
  phase that has no report behind it. `PhaseEarned` exempts behaviours with a withdrawn report.

## 5. What is proved

All theorems hold for every value of the constants that satisfies the component's ASSUME: any
number of daemons, agents, sessions, commits, faults and so on. The assumptions only say that
the bounds are naturals, that a marker such as `Nothing`, `NoGate` or `None` is not one of the
things it stands beside, that `verify_merge`'s own Local Green run is one of the gates, that a
tree has exactly the modelled paths and its raw evidence is tracked or not, that a review
receipt is valid for some time, that there are finitely many writers, that the approval modes
and profiles are the code's and an approval is signed for a high-risk category with one of the
sets of effects, that an evidence package's commands of different kinds are different commands,
and that its `None` is not a document. The two theorems about work claims take the clock's bound
and the longest lifetime as naturals. Each theorem comes from an inductive invariant: a
conjunction of named parts, one lemma that every step of `Next`
preserves it (one proof step per action, under it one per part), and a last step that draws the
property from it. TLC finds each of them to hold on the instance of the component's run, except
`RepoInv` and `RunInv` of `MergeGateProofs`, which quantify over all pairs of commits and all sets
of paths and were checked on the first levels of that instance only.

- `BrokerTypeCorrect`: the type invariant of the broker, unconditionally; it needs no run.
- `NonceConsumedOnce`, `ConsumedOnDisk`: `ConsumedOnce` and `ConsumedIsDurable`, assuming
  `EntryFollowsFile`. Neither is inductive. `BrokerInv` adds that the daemon inside `consume`
  is the holder of the lock (`LockInv`), serves a connection of its own that has no answer
  yet (`ServingInv`, `UndecidedInv`), that a nonce found fresh stays fresh (`FreshInv`), that
  between append and fsync the last record is its own and unclaimed (`WrittenInv`), and that
  every nonce won is in the synced prefix of a durable file: without the last part a power
  loss would let a nonce be won again. The first observation of section 4 shows that the
  assumption is needed.
- `OperationAuthorizedOnce`, `DecisionRowsSound`, `DecisionsNeverLost` (`AuthorizedOnce`,
  `CompletedWasConsumed` and `OneRowPerNonce`, `NoLostDecision`), from the same assumption.
  `StepIsBrokerStep` shows that every step of the whole system is a step of the broker or
  leaves it alone, so `BrokerInv` carries over; `AgentInv` says that an agent under the lock
  has an exact copy of its store, `ConnInv` that it waits on a connection for the nonce of its
  receipt and that whoever was granted has won.
- `RefinesOneShot`: `Spec => OneShot!Spec` under the mapping asked = `cnonce`, spent = the
  connections answered CONSUMED, granted = `granted`.

- `DamagedLedgerRefuses` and `SyncedRecordsStay` (`DamageFailsClosed`, `DurablePrefixKept`) need
  nothing of the file system. The first rests on `RoomInv`: between the scan that accepted the
  ledger and the fsync no other daemon appends, so what the answer stands on is still whole.
- `ServingIsReached`, `ForeignSocketsKept` and `SocketTypeCorrect` (`ServedIsReachable`,
  `OnlyOwnSocketUnlinked`, the type): `cleanup` moves away whatever is at the path before it
  looks at it, so reachability needs `OwnedInv` (from publication on the path is the daemon's),
  and `ConfiguredInv` follows mode and group through the private names.
- `StoredRowsAreSound`, `EventLogAgrees`, `ToldIsSigned`, `SettledRowsAreFinal`
  (`RowsAreSound`, `EventsAgree`, `ToldOnlyWhatWasSigned`, `RowsAreFinal`): `CallInv` says that
  what the lock's holder has read is still in the store and what it will write is a `Revision` of
  it, one row added or one pending row settled. `RevisionIsSound` then compares the two stores.
- `ReceiptOpensOnce`, `OpenedUnderItsAuthority`, `SignedResultsAreTrue` (`OneOpenPerReceipt`,
  `OpenedUnderDecidedAuthority`, `SignedIsTrue`): `SpendInv` lets at most one activation per receipt
  be past its decision, because the broker's ledger is not taken back by any crash. `BoundInv`
  says that from the comparison to the decision the fixed store is the bound one unless it was
  replaced meanwhile; nothing is assumed of the order of versions. `CompletedInv` follows a
  completed outcome through the `finally` block.
- `UpdatesAreNotLost`, `OnlyOwnLinksRemoved` (`NoLostUpdate`, `OnlyOwnedUnlinked`): the read of a
  claimed predecessor accepts it only with one link. `HeirInv` is what follows: the command that
  found its predecessor so is its one heir, and nobody else holds or can find that generation
  until the heir links it back. `CreatorInv` is the same for a document that did not exist. The
  second theorem counts links; `CountChanges` says how a count changes when one name does.
- `LocalGatesSerialised` (`OneGateAtATime`): a gate that runs holds the lock of the inode the
  name still leads to.
- `ReviewedHeadStands`, `RollbackRestoresBase`, `HistoryHasNoRaw`, `ProtectedNeedsReview`
  (`NothingAfterReview`, `OneCommitCarriesAll`, `NoRawInHistory`, `ProtectedIsReviewed`). The
  code compares each commit with its parents and concludes something about two commits far apart.
  That needs an induction along the history, which the prover cannot do over data. It is done over
  behaviours instead: `AuditedPaths` states the conclusion for every pair of commits, and a new
  commit extends it by one edge. `HistoryHasNoRaw` needs that refs only advance: what the scan did
  not look at is by then merged already. `RunInv` says what each step of `verify_merge` has established
  and what of it survives when `HEAD` or the base moves.
- `SnapshotsWereReal`, `OnlyShownIsSigned`, `OvertakenIsNotPublished`, `CommittedReceiptStays`
  (`SnapshotsAreReal`, `SignedWasShown`, `PublishedStillHeld`, `CommittedStays`): `SnapInv` is
  the argument for reading twice. A file whose generation is unchanged was not written in between,
  so what was read between the two readings was there with it. `CommitInv` says that the directory
  on disk agrees with a committed file's name whenever the file has it.
- `LaterWritersWin`, `PredecessorsAreKept`, `RollbackIsComplete` (`LaterWriterWins`,
  `PredecessorKept`, `RollbackRestores`) speak of one command alone. `SoloLinks` then turns a
  link count, a cardinality over all writers, into a sum over the names of that command, and
  `SoloInv` says at each step, forward and after one fault back, which of its names link what.
  This is what disables the branches of `Settle`, `ReadOld` and `Publish` that give up.
  `LaterInv` follows the document of another program through a take and a restore.
  `AloneKeepsTheDocument` is the part of the violated `NameSurvives` that holds: without a fault the
  document is at its name, with one it is there or under the claim.
- `AuthorizationIsExact`, `ReuseNeedsUnchangedFiles` (`AuthorizedExactly`, `ReusedOnlyUnchanged`):
  an answer is judged in the state in which it was given, because nothing moves until the Agent
  has acted on it. What has to be carried between evaluations is that the nonce of an approval
  that authorized an operation is burnt (`SpentInv`); the answers of `evaluate_escalation`, in
  the order of its checks, are then compared with the two properties one by one.
- `ShareableHasReport`, `PhasesAreEarned`, `FlowTypeCorrect` (`ShareNeedsReport`, `PhaseEarned`, the
  type), all from `FlowInv`. The hard part is what a command holds in memory, and under its private
  names, while others commit and roll back step by step. `NameInv` says of the
  manifest at its name, and of each one taken away and not yet settled, that its generation
  published it, that its shareable rows are covered by the report of the redaction that wrote it, and
  that it is nowhere else, so that a comparison of generations stands for one of documents.
  `CommandInv` says what a command has found and written at each step. `VerifyInv`
  says what each read of a verification has established that no later step of others can undo
  while no report is withdrawn.
- `FileClaimsOnce`: the claims file is disjoint in every state however calls race, since each
  writes what it read plus one new claim. It says nothing about the holders, which
  `ClaimsRace` shows to be two.

Only model-checked: the three liveness properties (`LockIsReleased`, `CleanupEnds`,
`RequestIsAnswered`), because fairness and ENABLED are outside the prover's reach, and two
properties of `EvidenceFlow`: `CollectedStays` and `AttachedStaysTrue` follow chains of documents
through private names, and their invariants are not written yet. The two runs that expect a
violation stay with TLC by nature. Every other property of a run is a theorem.

## 6. Not modelled

Text is abstracted throughout: JSON, hashes, signatures and canonical encodings are compared
as values or are checks that pass or fail. File ownership, modes and link counts are such
checks too. The rewriting of text by redaction, schema validation, the CLI, reports and
the release scripts have no state of their own. Of the merge gate, the rollback drill in a
temporary clone passes or raises; of the CI guard, the inspection of contract and workflows
does. Of the Owner's client, the checks of its own installation and the framing of the SSH agent
protocol are left out, and receipts do not expire in `OwnerApproval` (they do in `Escalation`). The key
bootstrap of the Reviewer is left out. Of the evidence packages, `make_dep` (and its removal of a
partly created tree), the Markdown records and the schema of the summary are left out.

## 7. Plan

1. Done: `NonceBroker`, `L3Approval` with `OneShotApproval`, their proofs; `BrokerSocket`,
   `ExternalActions`, `WorkClaims`, `Escalation`, `TrustedRunner`, `EvidencePublish`,
   `EvidenceFlow`, `LocalGate`, `MergeGate`, `OwnerApproval`.
2. An abstract specification of a control document (a register with compare-and-swap) that
   `EvidencePublish` implements for its committed generations and `EvidenceFlow` uses.
3. `Installer`: plan, backup, apply, rollback of managed files; `ProductionContainment`; the tree
   rollback of `make_dep`; `lock_artifact` and `verify_artifact`. Where they ask a deeper
   question than a run of today, they take its place.
4. Theorems for `CollectedStays` and `AttachedStaysTrue`, the only safety properties of the
   passing runs without one; then for what item 3 adds, and for what `NameSurvives` lacks when
   several commands follow one another without overlapping.
