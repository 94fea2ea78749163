----------------------------- MODULE Escalation -----------------------------
(***************************************************************************)
(* The escalation classifier of src/sddgov/autonomy.py: evaluate_escalation *)
(* decides whether an Agent may continue, is blocked, or must ask the       *)
(* owner, and evaluate_deployment puts the deployment guards in front of    *)
(* it.  One evaluation is one step here; the interleavings inside the L3    *)
(* path and the action queue are the subject of L3Approval and              *)
(* ExternalActions.                                                         *)
(*                                                                          *)
(* One product decision, one L3 approval and one external action are        *)
(* followed.  A request carries groups of fields: "payload" is an operation *)
(* payload that repeats the request's category and effects, "wrongPayload"  *)
(* any other; "package" is a strict decision package bound to the request,  *)
(* "wrongPackage" any other; "decision" names the decision with its         *)
(* recorded scope, "otherScope" with another one.                           *)
(***************************************************************************)
EXTENDS Naturals, FiniteSets

CONSTANTS
    Categories,   \* the action categories requests may have
    Modes,        \* ways the product decision may be approved: plain, signed
    Payloads,     \* operation payloads the owner may sign an approval for
    Profiles,     \* project profiles
    MaxFields,    \* bound: field groups in one request
    MaxRecords    \* bound: how many of the decision, the approval and the action are on record

(* The seven members of HIGH_RISK_CATEGORIES are treated alike and together *)
(* with high_risk_operation: two of them stand for all.                     *)
Risks == {"L0", "L1", "L2", "L3"}
LowRisks == {"L0", "L1"}
Routine == {"commit", "merge", "release_readiness"}
Readiness == {"merge", "release_readiness"}
HighRisk == {"high_risk_operation", "public_release", "secret_change"}
OwnerActions == {"operational_action", "necessary_uat"}
KnownCategories ==
    Routine \cup HighRisk \cup OwnerActions
    \cup {"product_decision", "uncertainty", "checkpoint", "integrity_mismatch"}

Fields == {"approval", "payload", "wrongPayload", "decision", "otherScope", "package",
           "wrongPackage", "machine", "unrelated", "action"}

(* "malformed" stands for a missing, null, unknown or false-valued effect.  *)
EffectSets == {{}, {"production"}, {"public_publish"}, {"malformed"}}

Requests ==
    [risk : Risks \cup {"invalid"}, category : Categories, effects : EffectSets,
     fields : {F \in SUBSET Fields : /\ Cardinality(F) <= MaxFields
                                     /\ ~({"payload", "wrongPayload"} \subseteq F)
                                     /\ ~({"package", "wrongPackage"} \subseteq F)
                                     /\ ~({"decision", "otherScope"} \subseteq F)}]

(* Not a deployment; a deployment gate with every guard true; one without.  *)
Gates == {"none", "green", "red"}

ASSUME EscalationAssumption ==
    /\ Modes \subseteq {"plain", "signed"}
    /\ Payloads \subseteq [category : HighRisk, effects : EffectSets]
    /\ Profiles \subseteq {"team-standard", "regulated"}
    /\ MaxFields \in Nat /\ MaxRecords \in Nat

VARIABLES
    profile,    \* the profile of .sddgov/project.json
    files,      \* the version of the files a decision is bound to
    decision,   \* the product decision's row: how it was approved, for which files
    approval,   \* the L3 approval's row: its payload and status
    burnt,      \* whether the broker consumed the approval's nonce
    queued,     \* the external action's status
    answer,     \* the last evaluation: request, gate, state and why
    uses        \* how often the approval authorized an operation

escalationVars == <<profile, files, decision, approval, burnt, queued, answer, uses>>

NoDecision == [mode |-> "none"]
NoApproval == [status |-> "none"]
NoAnswer == [state |-> "none"]

Whys == {"informational", "investigate", "routine", "reused", "authorized", "completed",
         "unrelated", "human", "refused"}

EscalationTypeOK ==
    /\ profile \in Profiles
    /\ files \in {1, 2}
    /\ decision \in {NoDecision} \cup [mode : Modes, files : {1, 2}, live : BOOLEAN]
    /\ approval \in {NoApproval}
         \cup [payload : Payloads, status : {"approved", "completed"}, live : BOOLEAN]
    /\ burnt \in BOOLEAN
    /\ queued \in {"none", "pending", "completed", "cancelled", "expired"}
    /\ answer \in {NoAnswer}
         \cup [state : {"BLOCKED"}, why : Whys]
         \cup [state : {"CONTINUE", "ACTION_REQUIRED"}, why : Whys, request : Requests, gate : Gates]
    /\ uses \in Nat

(* Another record may be made: the three do not interact.                   *)
Room ==
    Cardinality({x \in {"decision", "approval", "action"} :
        \/ x = "decision" /\ decision # NoDecision
        \/ x = "approval" /\ approval # NoApproval
        \/ x = "action" /\ queued # "none"}) < MaxRecords

EscalationInit ==
    /\ profile \in Profiles
    /\ files = 1
    /\ decision = NoDecision
    /\ approval = NoApproval
    /\ burnt = FALSE
    /\ queued = "none"
    /\ answer = NoAnswer
    /\ uses = 0

-----------------------------------------------------------------------------
(* The checks evaluate_escalation makes before it looks at any state        *)

(* _closed_category_envelope_error: the field groups of each category.      *)
Allowed(c) ==
    CASE c = "product_decision" -> {"decision", "otherScope", "package", "wrongPackage", "unrelated"}
      [] c \in HighRisk -> {"approval", "payload", "wrongPayload", "package", "wrongPackage",
                            "machine", "unrelated"}
      [] c \in OwnerActions -> {"action", "package", "wrongPackage", "unrelated"}
      [] c = "uncertainty" -> {"machine", "unrelated", "package", "wrongPackage"}
      [] c = "integrity_mismatch" -> {"unrelated"}
      [] OTHER -> {}

(* _l0_l1_envelope_error: a low-risk request is even narrower.              *)
AllowedLow(c) ==
    CASE c = "integrity_mismatch" -> {"unrelated"}
      [] c = "uncertainty" -> {"machine", "unrelated"}
      [] c \in OwnerActions -> Fields
      [] OTHER -> {}

Malformed(r) ==
    \/ r.risk \notin Risks
    \/ r.category \notin KnownCategories
    \/ "malformed" \in r.effects

OutsideSchema(r) ==
    \/ r.risk \in LowRisks /\ ~(r.fields \subseteq AllowedLow(r.category))
    \/ ~(r.fields \subseteq Allowed(r.category))

(* public_publish and public_release imply each other; readiness is free of *)
(* effects and exactly L1.                                                  *)
Misclassified(r) ==
    \/ "public_publish" \in r.effects /\ r.category # "public_release"
    \/ r.category = "public_release" /\ "public_publish" \notin r.effects
    \/ r.category \in Readiness /\ (r.effects # {} \/ r.risk # "L1")

(* Risk labels are the caller's: a category or an effect that needs more is *)
(* refused, never believed.                                                 *)
Downgraded(r) ==
    \/ r.category = "product_decision" /\ r.risk # "L2"
    \/ r.category \in HighRisk /\ r.risk # "L3"
    \/ r.effects # {} /\ r.risk # "L3"

(* evaluate_deployment: all guards, and one exact L3 high_risk_operation.   *)
GateClosed(g, r) ==
    \/ g = "red"
    \/ g # "none" /\ (r.risk # "L3" \/ r.category # "high_risk_operation")

Refused(g, r) ==
    GateClosed(g, r) \/ Malformed(r) \/ OutsideSchema(r) \/ Misclassified(r) \/ Downgraded(r)

-----------------------------------------------------------------------------
(* Product decisions                                                        *)

(* Mutant: the files the decision was bound to are not read again.          *)
DecisionHoldsForever == decision # NoDecision /\ decision.live

(* _plain_l2_approval_matches and _verify_product_envelope: the request     *)
(* file or the assumption files still have the digests recorded, the signed *)
(* receipt has not expired, and a plain choice needs its profile.           *)
DecisionHolds ==
    /\ decision # NoDecision
    /\ decision.live
    /\ decision.files = files
    /\ decision.mode = "plain" => profile = "team-standard"

(* A plain choice may come with the very package it answered, a signed      *)
(* decision with none.                                                      *)
Reusable(r) ==
    /\ "decision" \in r.fields /\ DecisionHolds
    /\ IF decision.mode = "plain" THEN "wrongPackage" \notin r.fields
                                  ELSE {"package", "wrongPackage"} \cap r.fields = {}

-----------------------------------------------------------------------------
(* Evaluation                                                               *)

(* A blocked request leaves nothing an Agent could act on.                  *)
Answer(g, r, s, w) ==
    answer' = IF s = "BLOCKED" THEN [state |-> s, why |-> w]
              ELSE [state |-> s, why |-> w, request |-> r, gate |-> g]

(* Nothing is kept but the answer.                                          *)
Say(g, r, s, w) ==
    Answer(g, r, s, w) /\ UNCHANGED <<profile, files, decision, approval, burnt, queued, uses>>

Refuse(g, r) ==
    /\ Refused(g, r)
    /\ Say(g, r, "BLOCKED", "refused")

(* checkpoint, integrity_mismatch and uncertainty never reach the owner.    *)
Inform(g, r) ==
    /\ ~Refused(g, r)
    /\ r.category = "checkpoint"
    /\ Say(g, r, "CONTINUE", "informational")

Investigate(g, r) ==
    /\ ~Refused(g, r)
    /\ r.category \in {"uncertainty", "integrity_mismatch"}
    /\ LET free == \/ "unrelated" \in r.fields
                   \/ r.category = "uncertainty" /\ "machine" \in r.fields
       IN Say(g, r, IF free THEN "CONTINUE" ELSE "BLOCKED", "investigate")

PreAuthorized(g, r) ==
    /\ ~Refused(g, r)
    /\ r.category \in Routine /\ r.risk \in LowRisks
    /\ Say(g, r, "CONTINUE", "routine")

ReuseDecision(g, r) ==
    /\ ~Refused(g, r)
    /\ r.category = "product_decision"
    /\ "decision" \in r.fields /\ DecisionHolds
    /\ IF Reusable(r) THEN Say(g, r, "CONTINUE", "reused") ELSE Say(g, r, "BLOCKED", "refused")

(* The request names the L3 approval.                                       *)
NamesApproval(g, r) ==
    /\ ~Refused(g, r)
    /\ r.category \in HighRisk /\ "approval" \in r.fields

(* Mutant: any fresh row covers the request.                                *)
CoveredByAny(r) == approval # NoApproval /\ approval.status = "approved" /\ approval.live

(* _consume_operation_approval finds a fresh row for exactly this payload.  *)
Covered(r) ==
    /\ approval # NoApproval
    /\ approval.status = "approved" /\ approval.live
    /\ approval.payload = [category |-> r.category, effects |-> r.effects]

(* No payload, a mismatched one, a row that is expired, consumed or for     *)
(* another payload, or a runtime context (outside the repository) that does *)
(* not match: blocked without a prompt.                                     *)
RefuseOperation(g, r) ==
    /\ NamesApproval(g, r)
    /\ Say(g, r, "BLOCKED", "refused")

(* The broker consumes the nonce, then the row is completed.                *)
Authorize(g, r) ==
    /\ NamesApproval(g, r)
    /\ "payload" \in r.fields /\ Covered(r) /\ ~burnt
    /\ burnt' = TRUE
    /\ approval' = [approval EXCEPT !.status = "completed"]
    /\ uses' = uses + 1
    /\ Answer(g, r, "CONTINUE", "authorized")
    /\ UNCHANGED <<profile, files, decision, queued>>

(* The broker is unreachable, its answer is lost or the nonce was consumed  *)
(* elsewhere: blocked, and the nonce may be gone.                           *)
ControlPlaneBlocked(g, r) ==
    /\ NamesApproval(g, r)
    /\ "payload" \in r.fields /\ Covered(r)
    /\ burnt' \in {burnt, TRUE}
    /\ Answer(g, r, "BLOCKED", "refused")
    /\ UNCHANGED <<profile, files, decision, approval, queued, uses>>

-----------------------------------------------------------------------------
(* Asking the owner                                                         *)

(* The request was neither refused nor answered from recorded state.        *)
Unanswered(g, r) ==
    /\ ~Refused(g, r)
    /\ \/ r.category = "product_decision" /\ ~("decision" \in r.fields /\ DecisionHolds)
       \/ /\ r.category \in HighRisk
          /\ "approval" \in r.fields => "payload" \in r.fields /\ approval = NoApproval
       \/ r.category \in OwnerActions
       \/ r.category \in Routine /\ r.risk \notin LowRisks

(* build_action_required and _action_required_binding_error.                *)
Bound(r) ==
    /\ "package" \in r.fields
    /\ r.category = "product_decision" => {"decision", "otherScope"} \cap r.fields # {}
    /\ r.category \in HighRisk => {"approval", "payload"} \subseteq r.fields
    /\ r.category \in OwnerActions => "action" \in r.fields

(* No bound package, or an external action at L0.                           *)
RefusePackage(g, r) ==
    /\ Unanswered(g, r)
    /\ ~Bound(r) \/ (r.category \in OwnerActions /\ r.risk = "L0")
    /\ Say(g, r, "BLOCKED", "refused")

(* Unrelated work goes on; otherwise the Agent waits for the owner.         *)
AskState(r) == IF "unrelated" \in r.fields THEN "CONTINUE" ELSE "ACTION_REQUIRED"

AskWhy(r) == IF "unrelated" \in r.fields THEN "unrelated" ELSE "human"

AskDecision(g, r) ==
    /\ Unanswered(g, r)
    /\ Bound(r) /\ r.category \notin OwnerActions
    /\ Say(g, r, AskState(r), AskWhy(r))

(* enqueue_external_action creates the row: the owner is asked.             *)
QueueAction(g, r) ==
    /\ Unanswered(g, r)
    /\ Bound(r) /\ r.category \in OwnerActions
    /\ queued = "none" /\ r.risk # "L0" /\ Room
    /\ queued' = "pending"
    /\ Answer(g, r, AskState(r), AskWhy(r))
    /\ UNCHANGED <<profile, files, decision, approval, burnt, uses>>

(* The row exists: a pending one may turn out to have expired, a completed  *)
(* one resumes the work, any other blocks it without a second prompt.       *)
FindAction(g, r) ==
    /\ Unanswered(g, r)
    /\ Bound(r) /\ r.category \in OwnerActions
    /\ queued # "none" /\ r.risk # "L0"
    /\ queued' \in {queued} \cup (IF queued = "pending" THEN {"expired"} ELSE {})
    /\ \/ queued' = "completed" /\ Answer(g, r, "CONTINUE", "completed")
       \/ queued' = "pending" /\ "unrelated" \in r.fields /\ Answer(g, r, "CONTINUE", "unrelated")
       \/ /\ queued' # "completed"
          /\ queued' = "pending" => "unrelated" \notin r.fields
          /\ Answer(g, r, "BLOCKED", "refused")
    /\ UNCHANGED <<profile, files, decision, approval, burnt, uses>>

-----------------------------------------------------------------------------
(* The owner, the repository and the clock                                  *)

Quiet == answer = NoAnswer

(* The Agent acts on the answer.                                            *)
ActOnAnswer ==
    /\ ~Quiet
    /\ answer' = NoAnswer
    /\ UNCHANGED <<profile, files, decision, approval, burnt, queued, uses>>

(* record_decision or import_product_approval; the id must be new.          *)
ApproveDecision(m) ==
    /\ Quiet
    /\ decision = NoDecision /\ Room
    /\ m = "plain" => profile = "team-standard"
    /\ decision' = [mode |-> m, files |-> files, live |-> TRUE]
    /\ UNCHANGED <<profile, files, approval, burnt, queued, answer, uses>>

(* Only a signed decision has an expiry.                                    *)
DecisionExpires ==
    /\ Quiet
    /\ decision.mode = "signed" /\ decision.live
    /\ decision' = [decision EXCEPT !.live = FALSE]
    /\ UNCHANGED <<profile, files, approval, burnt, queued, answer, uses>>

(* Somebody edits, or reverts, a file the decision is bound to, or the      *)
(* profile.                                                                 *)
EditRepository(v, p) ==
    /\ Quiet
    /\ decision # NoDecision
    /\ files' = v /\ profile' = p
    /\ UNCHANGED <<decision, approval, burnt, queued, answer, uses>>

(* import_operation_approval; the id and the nonce must be new.             *)
ImportApproval(p) ==
    /\ Quiet
    /\ approval = NoApproval /\ Room
    /\ approval' = [payload |-> p, status |-> "approved", live |-> TRUE]
    /\ UNCHANGED <<profile, files, decision, burnt, queued, answer, uses>>

ApprovalExpires ==
    /\ Quiet
    /\ approval # NoApproval /\ approval.live
    /\ approval' = [approval EXCEPT !.live = FALSE]
    /\ UNCHANGED <<profile, files, decision, burnt, queued, answer, uses>>

(* import_external_action_resolution.                                       *)
ResolveAction(s) ==
    /\ Quiet
    /\ queued = "pending"
    /\ queued' = s
    /\ UNCHANGED <<profile, files, decision, approval, burnt, answer, uses>>

-----------------------------------------------------------------------------
Evaluate(g, r) ==
    \/ Refuse(g, r) \/ Inform(g, r) \/ Investigate(g, r) \/ PreAuthorized(g, r)
    \/ ReuseDecision(g, r)
    \/ RefuseOperation(g, r) \/ Authorize(g, r) \/ ControlPlaneBlocked(g, r)
    \/ RefusePackage(g, r) \/ AskDecision(g, r) \/ QueueAction(g, r) \/ FindAction(g, r)

EscalationNext ==
    \/ Quiet /\ \E g \in Gates, r \in Requests : Evaluate(g, r)
    \/ ActOnAnswer
    \/ \E m \in Modes : ApproveDecision(m)
    \/ DecisionExpires
    \/ \E v \in {1, 2}, p \in Profiles : EditRepository(v, p)
    \/ \E p \in Payloads : ImportApproval(p)
    \/ ApprovalExpires
    \/ \E s \in {"completed", "cancelled"} : ResolveAction(s)

EscalationSpec == EscalationInit /\ [][EscalationNext]_escalationVars

-----------------------------------------------------------------------------
(* Properties                                                               *)

Because(w) == answer # NoAnswer /\ answer.why = w

(* Whatever declares an effect is blocked unless it is labelled L3; it is   *)
(* authorized only for exactly the category and effects the owner signed,   *)
(* with the nonce consumed and, when it is a deployment, with every guard   *)
(* true; and one approval authorizes one operation, in any sequence of      *)
(* evaluations, deployments, lost broker answers and imports.               *)
AuthorizedExactly ==
    /\ uses <= 1
    /\ (answer # NoAnswer /\ answer.state # "BLOCKED" /\ answer.request.effects # {}) =>
        answer.request.risk = "L3"
    /\ Because("authorized") =>
        /\ answer.request.risk = "L3"
        /\ approval.payload = [category |-> answer.request.category, effects |-> answer.request.effects]
        /\ burnt /\ approval.status = "completed"
        /\ answer.gate # "red"

(* A recorded product decision is reused only while the files it was bound  *)
(* to are unchanged, and never carries an operation or an effect with it.   *)
ReusedOnlyUnchanged ==
    Because("reused") =>
        /\ decision.files = files /\ decision.live
        /\ decision.mode = "plain" => profile = "team-standard"
        /\ answer.request.effects = {}
        /\ answer.request.fields \cap {"approval", "payload", "wrongPayload", "otherScope",
                                       "wrongPackage", "action"} = {}
=============================================================================
