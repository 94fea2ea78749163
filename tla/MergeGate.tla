----------------------------- MODULE MergeGate -----------------------------
(***************************************************************************)
(* The merge gate (merge_gate.py) with the independent Reviewer             *)
(* (reviewer.py) and the Local Green gate (LocalGate).  A Builder commits   *)
(* a change, evidence with a rollback record, and a gate file that names    *)
(* base, reviewed head and digest; a Reviewer signs what the gate binds;    *)
(* verify_merge reads refs, history, worktree and receipt one after the     *)
(* other and answers MERGE_READY.  The repository is a graph of immutable   *)
(* commits; HEAD and the base ref may move while the verification runs.     *)
(* A path stands for all files of its kind, a digest for the diff it hashes. *)
(***************************************************************************)
EXTENDS LocalGate, Sequences

CONSTANTS
    Edits,        \* pairs of a path and a value a commit may give it
    Roots,        \* trees the base may start from
    Budget,       \* bound: commits of each kind
    Merged,       \* bound: the kinds of commits the base ref fast-forwards to
    MaxCommits,   \* bound: commits in all
    Declared,     \* what gates declare: the risk level, the Builder, whether DEPs
                  \* are listed and whether a review is asked for
    Reviewer,     \* the one identity with a reviewer key
    External,     \* status of its key in the out-of-band store
    Verifier,     \* the verification's own Local Green gate
    MaxTime,      \* bound: the clock stops here
    Validity,     \* lifetime of a receipt
    NoReview,     \* no receipt file
    NoMergeGate   \* no gate file

VARIABLES
    commits,   \* Seq of [parents, tree, gate, review, anc, kind]
    head,      \* HEAD of the checkout that is verified; its worktree is clean
    base,      \* the commit base_ref names
    signed,    \* every receipt the Reviewer has signed
    now,       \* the wall clock
    run        \* the verification: what it has read so far

repoVars == <<commits, head, base, signed, now>>
vars == <<repoVars, run, gateVars>>

Product == {"code", "prot", "policy", "trust"}
Evidence == {"ev", "raw"}
Paths == Product \cup Evidence

ASSUME MergeAssumption ==
    /\ Verifier \in Gates
    /\ MaxTime \in Nat /\ Validity \in Nat \ {0}
    /\ \A t \in Roots : t = [p \in Paths |-> t[p]] /\ t.raw \in {0, 1}
    /\ \A e \in Edits : e[1] \in Paths /\ (e[1] = "raw" => e[2] \in {0, 1})

Commits == 1 .. Len(commits)

Tree(c) == commits[c].tree
Ancestors(c) == commits[c].anc
\* git rev-list s..e
Between(s, e) == Ancestors(e) \ Ancestors(s)
Differ(t, u) == {p \in Paths : t[p] # u[p]}

\* The merge base that git diff A...B compares B with.
MergeBase(a, b) ==
    LET common == Ancestors(a) \cap Ancestors(b)
    IN CHOOSE c \in common : \A d \in common : c \in Ancestors(d) => d = c

(* changed_paths and change_digest: everything but gate and receipts.       *)
changed_paths(b, h) == Differ(Tree(MergeBase(b, h)), Tree(h))
change_digest(b, h) ==
    [p \in changed_paths(b, h) |-> <<Tree(MergeBase(b, h))[p], Tree(h)[p]>>]

(* gate_metadata_digest: every field of the gate but the receipt's path.    *)
gate_metadata_digest(g) ==
    [base |-> g.base, head |-> g.head, risk |-> g.risk, builder |-> g.builder,
     digest |-> g.digest, deps |-> g.deps]

(* Mutant: only the net change is looked at, so a later commit can hide an  *)
(* earlier one.                                                             *)
audit_only_net(s, e, allowed) ==
    s \in Ancestors(e) /\ Differ(Tree(s), Tree(e)) \subseteq allowed

(* _every_descendant_commit_is_audit_only: each edge of each commit after s. *)
audit_only(s, e, allowed) ==
    /\ s \in Ancestors(e)
    /\ \A c \in Between(s, e) :
        /\ commits[c].parents # {}
        /\ \A p \in commits[c].parents : Differ(Tree(p), Tree(c)) \subseteq allowed

----------------------------------------------------------------------------
(* The rollback record, read from the reviewed head: evidence names the      *)
(* commit to revert, 0 a record that is missing or malformed.               *)
RollbackRef(g) == Tree(g.head).ev

rollback_in_range(r, b, h) == r # b /\ b \in Ancestors(r) /\ r \in Ancestors(h)

\* git merge-tree: a three-way merge of one path, FALSE when it conflicts.
MergesTo(origin, ours, theirs, want) ==
    \/ ours = origin /\ theirs = want
    \/ theirs = origin /\ ours = want
    \/ ours = theirs /\ ours = want

(* Mutant: a revert without conflicts is enough, whatever tree it gives.    *)
restores_base_anyhow(r, p, b, h) ==
    \A q \in Product : Tree(h)[q] = Tree(r)[q] \/ Tree(p)[q] \in {Tree(r)[q], Tree(h)[q]}

\* The revert of r at h gives the base outside evidence and audit paths.
restores_base(r, p, b, h) ==
    \A q \in Product : MergesTo(Tree(r)[q], Tree(h)[q], Tree(p)[q], Tree(b)[q])

(* _rollback_ref_is_cleanly_revertible.                                     *)
rollback_revertible(r, b, h) ==
    \E p \in commits[r].parents :
        /\ commits[r].parents = {p}
        /\ Differ(Tree(p), Tree(r)) \cap Evidence = {}
        /\ commits[p].gate = commits[r].gate /\ commits[p].review = commits[r].review
        /\ audit_only(r, h, Evidence)
        /\ restores_base(r, p, b, h)

----------------------------------------------------------------------------
(* Policy and Reviewer authority at the trusted base.                       *)
first_consumer_base(b) == Tree(b).policy = "absent" /\ Tree(b).trust = "absent"

\* Without a policy at the base, the package's own one serves a first
\* installation, and any other base is refused.
policy_known(b) == Tree(b).policy # "absent" \/ first_consumer_base(b)

protected_patterns == Product \ {"code"}

(* Mutant: a key revoked at the base falls back to the external store.      *)
trusted_reviewer_fallback(b) ==
    IF Tree(b).trust = "active" THEN "active" ELSE External

(* _trusted_reviewers: a populated base store is the authority, even when   *)
(* it only revokes; the external store serves an empty one and the first    *)
(* installation.                                                            *)
trusted_reviewer(b) ==
    IF Tree(b).trust \in {"active", "revoked"} THEN Tree(b).trust
    ELSE IF Tree(b).trust = "empty" \/ first_consumer_base(b) THEN External
    ELSE "none"

(* _verify_review_receipt.                                                  *)
review_verifies(rv, g, b, digest) ==
    /\ rv # NoReview
    /\ rv.builder = g.builder /\ Reviewer # g.builder
    /\ rv.digest = digest
    /\ rv.meta = gate_metadata_digest(g)
    /\ rv.expires > now
    /\ trusted_reviewer(b) = "active"

----------------------------------------------------------------------------
(* Moves of the repository, until a verification has only its Local Green   *)
(* gate left, whose commands may do anything with whatever they find.       *)
Open == run.pc \notin {"lock", "ready", "red"}
Room(k) ==
    /\ Len(commits) < MaxCommits
    /\ Cardinality({c \in Commits : commits[c].kind = k}) < Budget[k]

Commit(log, ps, t, g, rv, k) ==
    Append(log,
        [parents |-> ps, tree |-> t, gate |-> g, review |-> rv, kind |-> k,
         anc |-> {Len(log) + 1} \cup UNION {log[p].anc : p \in ps}])

\* HEAD or the base ref names something else while the verification runs
\* (bound: once in a verification).
Disturb ==
    /\ ~run.moved
    /\ run' = [run EXCEPT !.moved = run.pc # "idle"]

CommitOnHead(t, g, rv, k) ==
    /\ Open /\ Disturb /\ Room(k)
    /\ commits' = Commit(commits, {head}, t, g, rv, k)
    /\ head' = Len(commits) + 1
    /\ UNCHANGED <<base, signed, now, gateVars>>

With(t, e) == [t EXCEPT ![e[1]] = e[2]]
Gate == commits[head].gate
Review == commits[head].review

CommitEdit ==
    \E e \in Edits :
        /\ Tree(head)[e[1]] # e[2]
        /\ CommitOnHead(With(Tree(head), e), Gate, Review, "edit")

\* Evidence and its rollback record, which names a commit that exists.
CommitEvidence ==
    \E r \in Commits :
        CommitOnHead(With(Tree(head), <<"ev", r>>), Gate, Review, "evidence")

(* sddgov merge digest gives base, head and digest of the gate.             *)
CommitGate ==
    \E d \in Declared :
        CommitOnHead(Tree(head),
            [base |-> base, head |-> head, digest |-> change_digest(base, head),
             risk |-> d.risk, builder |-> d.builder, deps |-> d.deps, review |-> d.review],
            Review, "gate")

CommitReview ==
    \E rv \in signed :
        rv # Review /\ CommitOnHead(Tree(head), Gate, rv, "review")

\* Another clone's commit on any commit is pulled; the merge keeps the tree of
\* one side.
Pull ==
    /\ Open /\ Room("pull") /\ Len(commits) + 1 < MaxCommits
    /\ Disturb
    /\ \E p \in Commits, e \in Edits, ours \in BOOLEAN :
        LET o == Len(commits) + 1
            theirs == With(Tree(p), e)
            fetched == Commit(commits, {p}, theirs, commits[p].gate, commits[p].review, "pull")
        IN
        /\ Tree(p)[e[1]] # e[2]
        /\ commits' = Commit(fetched, {head, o}, IF ours THEN Tree(head) ELSE theirs,
                             Gate, Review, "merge")
        /\ head' = o + 1
    /\ UNCHANGED <<base, signed, now, gateVars>>

\* Another change is merged on the base, and the base ref follows.
BaseAdvances ==
    /\ Open /\ Room("base")
    /\ Disturb
    /\ \E e \in Edits :
        /\ Tree(base)[e[1]] # e[2]
        /\ commits' = Commit(commits, {base}, With(Tree(base), e),
                             commits[base].gate, commits[base].review, "base")
        /\ base' = Len(commits) + 1
    /\ UNCHANGED <<head, signed, now, gateVars>>

\* HEAD, or a part of what leads to it, is merged while it is verified: the
\* base ref fast-forwards.
BaseMerges ==
    /\ Open /\ run.gate # NoMergeGate
    /\ Disturb
    /\ base' \in {c \in Ancestors(head) \ {base} :
                    base \in Ancestors(c) /\ commits[c].kind \in Merged}
    /\ UNCHANGED <<commits, head, signed, now, gateVars>>

Tick ==
    /\ Open /\ now < MaxTime
    /\ signed # {}
    /\ now' = now + 1
    /\ UNCHANGED <<commits, head, base, signed, run, gateVars>>

----------------------------------------------------------------------------
(* sign_protected_review on the Reviewer's own clean checkout of c.         *)
(* _review_binding checks base, head and digest against the gate; the       *)
(* output must not exist.                                                   *)
SignReview ==
    /\ Open
    /\ \E c \in Commits :
        LET g == commits[c].gate IN
        /\ g # NoMergeGate
        /\ g.review /\ commits[c].review = NoReview
        /\ Reviewer # g.builder
        /\ g.base = base
        /\ audit_only(g.head, c, {})
        /\ g.digest = change_digest(base, c)
        /\ signed' = signed \cup
             {[builder |-> g.builder, digest |-> g.digest,
               meta |-> gate_metadata_digest(g), expires |-> now + Validity]}
    /\ UNCHANGED <<commits, head, base, now, run, gateVars>>

----------------------------------------------------------------------------
(* verify_merge.  Each step reads refs, history or worktree at its own       *)
(* moment; only head, base and gate are kept from an earlier one.  Whatever *)
(* fails raises: VerifyRefuses.                                             *)
Goto(s) == run' = [run EXCEPT !.pc = s]
Gated == run.gate

\* Without a gate file a verification raises at line 1097, and nothing follows.
StartVerify ==
    /\ run.pc = "idle"
    /\ Gate # NoMergeGate
    /\ run' = [run EXCEPT !.pc = "gate", !.head = head, !.base = base, !.started = now]
    /\ UNCHANGED <<repoVars, gateVars>>

ReadGate ==
    /\ run.pc = "gate"
    /\ Gate # NoMergeGate
    /\ Gate.base = run.base
    /\ audit_only(Gate.head, run.head, {})
    /\ run' = [run EXCEPT !.pc = "digest", !.gate = Gate]
    /\ UNCHANGED <<repoVars, gateVars>>

CheckDigest ==
    /\ run.pc = "digest"
    /\ Gated.digest = change_digest(base, head)
    /\ Gated.risk = "L0" \/ Gated.deps
    /\ Goto("deps")
    /\ UNCHANGED <<repoVars, gateVars>>

\* verify_dep on the worktree; EvidenceFlow has what it checks.
CheckDeps ==
    /\ run.pc = "deps"
    /\ Gated.deps => Tree(head).ev # 0
    /\ Goto("rollback")
    /\ UNCHANGED <<repoVars, gateVars>>

(* Record, range, revert and drill: nothing here follows a ref.             *)
CheckRollback ==
    /\ run.pc = "rollback"
    /\ RollbackRef(Gated) # 0
    /\ rollback_in_range(RollbackRef(Gated), run.base, Gated.head)
    /\ rollback_revertible(RollbackRef(Gated), run.base, Gated.head)
    /\ Goto("raw")
    /\ UNCHANGED <<repoVars, gateVars>>

(* Mutant: only the tree of HEAD is searched.                               *)
raw_tracked_at_head == Tree(head).raw = 1

raw_tracked == \E c \in Between(base, head) : Tree(c).raw = 1

ScanRaw ==
    /\ run.pc = "raw"
    /\ ~raw_tracked
    /\ Goto("protected")
    /\ UNCHANGED <<repoVars, gateVars>>

FindProtected ==
    /\ run.pc = "protected"
    /\ changed_paths(base, head) = {} \/ policy_known(base)
    /\ run' = [run EXCEPT !.pc = "review",
                 !.protected = changed_paths(base, head) \cap protected_patterns]
    /\ UNCHANGED <<repoVars, gateVars>>

CheckReview ==
    /\ run.pc = "review"
    /\ \/ run.protected = {} /\ ~Gated.review
       \/ /\ run.protected # {} /\ Gated.review
          /\ review_verifies(Review, Gated, base, Gated.digest)
    /\ Goto("lock")
    /\ UNCHANGED <<repoVars, gateVars>>

(* run_local_gate of the verification and of others.  No step before this   *)
(* one touches the lock, so the others start here.                          *)
LocalGateStep ==
    /\ run.pc = "lock"
    /\ (\E g \in Gates : GateStep(g)) \/ CleanTmp
    /\ UNCHANGED <<repoVars, run>>

MergeReady ==
    /\ run.pc = "lock" /\ gpc[Verifier] = "green"
    /\ Goto("ready")
    /\ UNCHANGED <<repoVars, gateVars>>

\* Nothing is being verified.
NoRun ==
    [pc |-> "idle", head |-> 0, base |-> 0, gate |-> NoMergeGate,
     protected |-> {}, started |-> 0, moved |-> FALSE]

(* Any check may raise; a verification has written nothing and may be run   *)
(* again.                                                                   *)
VerifyRefuses ==
    /\ run.pc # "idle" /\ Open
    /\ run' = NoRun
    /\ UNCHANGED <<repoVars, gateVars>>

LocalGateFails ==
    /\ run.pc = "lock" /\ gpc[Verifier] = "raised"
    /\ Goto("red")
    /\ UNCHANGED <<repoVars, gateVars>>

Init ==
    /\ \E t \in Roots :
        commits = <<[parents |-> {}, tree |-> t, gate |-> NoMergeGate,
                     review |-> NoReview, kind |-> "root", anc |-> {1}]>>
    /\ head = 1 /\ base = 1
    /\ signed = {}
    /\ now = 0
    /\ run = NoRun
    /\ GateInit

Next ==
    \/ CommitEdit \/ CommitEvidence \/ CommitGate \/ CommitReview
    \/ Pull \/ BaseAdvances \/ BaseMerges \/ Tick \/ SignReview
    \/ StartVerify \/ ReadGate \/ CheckDigest \/ CheckDeps
    \/ CheckRollback \/ ScanRaw \/ FindProtected \/ CheckReview
    \/ LocalGateStep \/ MergeReady \/ VerifyRefuses \/ LocalGateFails

Spec == Init /\ [][Next]_vars

----------------------------------------------------------------------------
\* Everything that MERGE_READY says of base, head and gate has been found.
Found == run.pc \in {"lock", "red", "ready"}

(* The commit the rollback record names carries the whole product change    *)
(* from the base to the head that was found ready, and no evidence, so that *)
(* reverting it gives the base back (verify_merge, merge_gate.py:1158):     *)
(* also when refs move while the verification runs.                         *)
OneCommitCarriesAll ==
    Found =>
        LET r == RollbackRef(Gated) IN
        \E p \in commits[r].parents :
            /\ \A q \in Product :
                /\ Tree(p)[q] = Tree(run.base)[q]
                /\ Tree(r)[q] = Tree(run.head)[q]
            /\ Differ(Tree(p), Tree(r)) \cap Evidence = {}

(* Nothing but the gate and receipts was ever committed after the reviewed  *)
(* head, not even something a later commit or a merge takes back             *)
(* (only_audit_changes_after_review, merge_gate.py:496).                    *)
NothingAfterReview ==
    Found =>
        \A c \in Between(Gated.head, run.head) : Tree(c) = Tree(Gated.head)

(* While HEAD and base stand still, a head with a change the base protects   *)
(* is ready only if the Reviewer, trusted by that base and not the Builder,  *)
(* signed exactly this change under exactly this gate, not expired when the  *)
(* verification began (verify_merge, merge_gate.py:1194).                   *)
ProtectedIsReviewed ==
    (Found /\ ~run.moved
       /\ Differ(Tree(run.base), Tree(run.head)) \cap protected_patterns # {})
    => /\ Gated.builder # Reviewer
       /\ \/ Tree(run.base).trust = "active"
          \/ Tree(run.base).trust \in {"absent", "empty"} /\ External = "active"
       /\ \E rv \in signed :
            /\ rv.digest = change_digest(run.base, run.head)
            /\ rv.meta = gate_metadata_digest(Gated)
            /\ rv.expires > run.started

(* No commit that merging the verified head into the base would bring in     *)
(* tracks raw evidence, not even one a later commit hides again, although   *)
(* the scan reads HEAD and the base ref anew and both move on before and    *)
(* after it (verify_merge, merge_gate.py:1183).                             *)
NoRawInHistory ==
    Found =>
        \A c \in Between(run.base, run.head) \ Ancestors(base) : Tree(c).raw = 0

============================================================================
