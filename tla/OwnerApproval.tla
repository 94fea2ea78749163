--------------------------- MODULE OwnerApproval ---------------------------
(***************************************************************************)
(* The Owner's terminal client (owner_cli.py, owner_approval.py) and the    *)
(* two filesystem transactions it rests on (fs_security.py): the snapshot   *)
(* of a set of files, FileSetSnapshot, and the durable creation of a new    *)
(* file, write_new_regular_file.  A session builds a card from the request  *)
(* and the contract it assumes, shows it, reads A or B, builds the card     *)
(* again, has the receipt signed and writes it under a fixed name.  Agents  *)
(* edit the repository, the trust store changes, other sessions work on the *)
(* same name, and any of them may fail, be killed or lose power.            *)
(* A file's bytes are a version number, and its metadata a generation.      *)
(***************************************************************************)
EXTENDS Naturals

CONSTANTS
    Sessions,    \* runs of sddgov-owner approve-product with one output name
    Agent,       \* the Main Agent's sddgov process
    Versions,    \* contents a repository file may have
    Keys,        \* keys the trust store may name
    Audiences,   \* repository and trust domain it may bind them to
    MaxMoves,    \* bound: writes of repository files, trust changes,
                 \* removals by hand and power losses
    NoFile,      \* nothing has the name
    Nothing      \* no choice, card or receipt

VARIABLES
    files,     \* [Files -> [val, gen]]: the repository's working tree
    trust,     \* [key, aud] of the root-controlled stores
    moves,     \* moves of the surroundings so far
    pc,        \* where each session and the Agent is
    got,       \* the files it has read in its snapshot
    card,      \* the card it has built last
    shown,     \* the card on the Owner's terminal
    choice,    \* the label the Owner typed
    receipt,   \* the receipt the signer signed for it
    told,      \* what it reported: "committed", "existing", "declined"
    out,       \* the session whose file has the output name
    diskOut,   \* the same in the directory's last synced state
    data,      \* the bytes of the file each session made
    synced,    \* whether they are synced
    aside,     \* the file each session's cleanup holds under a private name
    ever,      \* history: every working tree there was
    after,     \* history: what held at some moment since the signature
    store,     \* the receipt in the Agent's decision store
    hand,      \* the receipt the Agent is about to import
    met,       \* history: the tree was the signed one since the Agent's call began
    cleared    \* history: files the Owner removed by hand

repoVars == <<files, trust, moves, ever>>
cardVars == <<got, card, shown, choice, receipt>>
fileVars == <<out, diskOut, data, synced, aside, cleared>>
agentVars == <<store, hand, met>>
vars == <<repoVars, cardVars, fileVars, agentVars, pc, told, after>>

Readers == Sessions \cup {Agent}
Files == {"request", "contract"}
Tree == [f \in Files |-> files[f].val]
Receipts == [files : [Files -> Versions], key : Keys]
Cards == [files : [Files -> Versions], trust : [key : Keys, aud : Audiences]]

ASSUME OwnerAssumption ==
    /\ Sessions # {} /\ Versions # {} /\ Keys # {} /\ Audiences # {}
    /\ MaxMoves \in Nat
    /\ NoFile \notin Sessions /\ Agent \notin Sessions
    /\ Nothing \notin Receipts \cup Cards \cup {"A", "B", "committed"}

\* Either no decision is stored yet, or one of an earlier session is.
Init ==
    /\ \E t \in [Files -> Versions] :
        /\ files = [f \in Files |-> [val |-> t[f], gen |-> 0]]
        /\ ever = {t}
    /\ trust \in [key : Keys, aud : Audiences]
    /\ moves = 0
    /\ store \in {Nothing} \cup Receipts
    /\ pc = [s \in Readers |->
         IF s = Agent THEN "idle" ELSE IF store = Nothing THEN "build" ELSE "end"]
    /\ got = [s \in Readers |-> Nothing]
    /\ card = [s \in Sessions |-> Nothing]
    /\ shown = [s \in Sessions |-> Nothing]
    /\ choice = [s \in Sessions |-> Nothing]
    /\ receipt = [s \in Sessions |-> Nothing]
    /\ told = [s \in Sessions |-> Nothing]
    /\ out = NoFile /\ diskOut = NoFile
    /\ data = [s \in Sessions |-> "none"]
    /\ synced = [s \in Sessions |-> FALSE]
    /\ aside = [s \in Sessions |-> NoFile]
    /\ after = [s \in Sessions |-> {}]
    /\ cleared = {}
    /\ hand = Nothing
    /\ met = FALSE

Goto(s, l) == pc' = [pc EXCEPT ![s] = l]

\* The processes of S end, and with them what they had in memory; what a
\* signed receipt was answered to stays on record for the properties.
Leave(S) ==
    /\ pc' = [s \in Readers |-> IF s \notin S THEN pc[s] ELSE IF s = Agent THEN "idle" ELSE "end"]
    /\ got' = [s \in Readers |-> IF s \in S THEN Nothing ELSE got[s]]
    /\ card' = [s \in Sessions |-> IF s \in S THEN Nothing ELSE card[s]]
    /\ shown' = [s \in Sessions |-> IF s \in S /\ receipt[s] = Nothing THEN Nothing ELSE shown[s]]
    /\ choice' = [s \in Sessions |-> IF s \in S /\ receipt[s] = Nothing THEN Nothing ELSE choice[s]]
    /\ UNCHANGED receipt

(* _verify_product_envelope with the working tree and the stores of now.    *)
envelope_verifies(r) == r.files = Tree /\ r.key = trust.key

(* _l2_approval_matches of the decision that is stored.                     *)
decision_holds == store # Nothing /\ envelope_verifies(store)

----------------------------------------------------------------------------
(* build_product_approval_card, within one FileSetSnapshot                  *)

(* snapshot.read of the request.                                            *)
ReadRequest(s) ==
    /\ pc[s] = "build"
    /\ got' = [got EXCEPT ![s] = [request |-> files.request]]
    /\ Goto(s, "assume")
    /\ UNCHANGED <<repoVars, card, shown, choice, receipt, fileVars, told, after, agentVars>>

(* evaluate_escalation must ask, which it does unless a stored decision      *)
(* holds; then the other assumptions, key and audience are read.            *)
ReadAssumptions(s) ==
    /\ pc[s] = "assume"
    /\ ~decision_holds
    /\ got' = [got EXCEPT ![s] =
         [request |-> got[s].request, contract |-> files.contract]]
    /\ card' = [card EXCEPT ![s] =
         [files |-> [f \in Files |-> got'[s][f].val], trust |-> trust]]
    /\ Goto(s, "recheck request")
    /\ UNCHANGED <<repoVars, shown, choice, receipt, fileVars, told, after, agentVars>>

(* Mutant: the snapshot is not looked at again on exit.                     *)
unchanged_unchecked(s, f) == TRUE

(* FileSetSnapshot.revalidate: bytes and metadata of one file.              *)
unchanged(s, f) == files[f] = got[s][f]

\* Files are revalidated one after the other, in the order they were read.
RecheckRequest(s) ==
    /\ pc[s] = "recheck request"
    /\ unchanged(s, "request")
    /\ Goto(s, "recheck contract")
    /\ UNCHANGED <<repoVars, cardVars, fileVars, told, after, agentVars>>

RecheckContract(s) ==
    /\ pc[s] = "recheck contract"
    /\ unchanged(s, "contract")
    /\ got' = [got EXCEPT ![s] = Nothing]
    /\ Goto(s, IF choice[s] = Nothing THEN "display" ELSE "decide")
    /\ UNCHANGED <<repoVars, card, shown, choice, receipt, fileVars, told, after, agentVars>>

----------------------------------------------------------------------------
(* owner_cli.run up to the Owner's choice                                   *)

(* _existing_product_approval: the receipt under the name is whole,         *)
(* verifies and says what the card says.                                    *)
existing_matches(s) ==
    /\ out # NoFile
    /\ data[out] = "full"
    /\ envelope_verifies(receipt[out])
    /\ receipt[out].files = card[s].files

(* Mutant: the card built again replaces the one that was displayed.        *)
same_card_any(s) == TRUE

(* expected_card_sha256.                                                    *)
same_card(s) == card[s] = shown[s]

ReportExisting(s) ==
    /\ \/ pc[s] = "display"
       \/ pc[s] = "decide" /\ same_card(s)
    /\ existing_matches(s)
    /\ told' = [told EXCEPT ![s] = "existing"]
    /\ Leave({s})
    /\ UNCHANGED <<repoVars, fileVars, after, agentVars>>

(* The card is displayed, and _read_owner_choice returns one label.         *)
Choose(s) ==
    /\ pc[s] = "display"
    /\ out = NoFile
    /\ shown' = [shown EXCEPT ![s] = card[s]]
    /\ \E c \in {"A", "B"} : choice' = [choice EXCEPT ![s] = c]
    /\ Goto(s, "build")
    /\ UNCHANGED <<repoVars, got, card, receipt, fileVars, told, after, agentVars>>

----------------------------------------------------------------------------
(* approve_product_decision, after it has built the card again              *)

Decline(s) ==
    /\ pc[s] = "decide"
    /\ same_card(s) /\ out = NoFile
    /\ choice[s] # "A"
    /\ told' = [told EXCEPT ![s] = "declined"]
    /\ Leave({s})
    /\ UNCHANGED <<repoVars, fileVars, after, agentVars>>

Accept(s) ==
    /\ pc[s] = "decide"
    /\ same_card(s) /\ out = NoFile
    /\ choice[s] = "A"
    /\ Goto(s, "confirm")
    /\ UNCHANGED <<repoVars, cardVars, fileVars, told, after, agentVars>>

(* Output, key, audience and assumptions once more.  Nothing is kept of     *)
(* what is read here but that it equals the card.                           *)
Confirm(s) ==
    /\ pc[s] = "confirm"
    /\ out = NoFile
    /\ trust = card[s].trust
    /\ Tree = card[s].files
    /\ Goto(s, "sign")
    /\ UNCHANGED <<repoVars, cardVars, fileVars, told, after, agentVars>>

\* What a receipt says that holds with this tree and this key.
Holding(r, tree, key) ==
    {x \in {"files"} : r.files = tree} \cup {x \in {"key"} : r.key = key}

(* The signer has answered, up to two minutes later, with the key of the    *)
(* card.  A refusal, timeout or wrong key raises: Fails.                    *)
Sign(s) ==
    /\ pc[s] = "sign"
    /\ receipt' = [receipt EXCEPT ![s] =
         [files |-> card[s].files, key |-> card[s].trust.key]]
    /\ after' = [after EXCEPT ![s] = Holding(receipt'[s], Tree, trust.key)]
    /\ Goto(s, "verify")
    /\ UNCHANGED <<repoVars, got, card, shown, choice, fileVars, told, agentVars>>

(* Mutant: only the signature is verified, against the key read before.     *)
VerifySignatureOnly(s) ==
    /\ pc[s] = "verify"
    /\ Goto(s, "create")
    /\ UNCHANGED <<repoVars, cardVars, fileVars, told, after, agentVars>>

VerifySigned(s) ==
    /\ pc[s] = "verify"
    /\ envelope_verifies(receipt[s])
    /\ Goto(s, "create")
    /\ UNCHANGED <<repoVars, cardVars, fileVars, told, after, agentVars>>

----------------------------------------------------------------------------
(* write_new_regular_file                                                   *)

(* O_CREAT with O_EXCL.                                                     *)
Create(s) ==
    /\ pc[s] = "create"
    /\ out = NoFile
    /\ out' = s
    /\ data' = [data EXCEPT ![s] = "torn"]
    /\ Goto(s, "write")
    /\ UNCHANGED <<repoVars, cardVars, diskOut, synced, aside, cleared, told, after, agentVars>>

Write(s) ==
    /\ pc[s] = "write"
    /\ data' = [data EXCEPT ![s] = "full"]
    /\ Goto(s, "sync")
    /\ UNCHANGED <<repoVars, cardVars, out, diskOut, synced, aside, cleared, told, after, agentVars>>

(* fsync of the file; the name must lead to it, or it raises.               *)
SyncFile(s) ==
    /\ pc[s] = "sync"
    /\ synced' = [synced EXCEPT ![s] = TRUE]
    /\ Goto(s, IF out = s THEN "sync directory" ELSE "cleanup")
    /\ UNCHANGED <<repoVars, cardVars, out, diskOut, data, aside, cleared, told, after, agentVars>>

(* Mutant: the directory is not synced.                                     *)
SyncDirectoryNot(s) ==
    /\ pc[s] = "sync directory"
    /\ Goto(s, "commit")
    /\ UNCHANGED <<repoVars, cardVars, fileVars, told, after, agentVars>>

SyncDirectory(s) ==
    /\ pc[s] = "sync directory"
    /\ diskOut' = out
    /\ Goto(s, "commit")
    /\ UNCHANGED <<repoVars, cardVars, out, data, synced, aside, cleared, told, after, agentVars>>

(* The last comparison; then nothing can fail any more.                     *)
Commit(s) ==
    /\ pc[s] = "commit"
    /\ out = s
    /\ told' = [told EXCEPT ![s] = "committed"]
    /\ Leave({s})
    /\ UNCHANGED <<repoVars, fileVars, after, agentVars>>

(* Whatever a check finds or a call returns may raise ...                   *)
Fails(s) ==
    /\ pc[s] \notin {"write", "sync", "sync directory", "commit", "cleanup", "judge", "end"}
    /\ Leave({s})
    /\ UNCHANGED <<repoVars, fileVars, told, after, agentVars>>

(* ... and with a file made, remove_owned_at follows.                       *)
FailsWriting(s) ==
    /\ pc[s] \in {"write", "sync", "sync directory", "commit"}
    /\ Goto(s, "cleanup")
    /\ UNCHANGED <<repoVars, cardVars, fileVars, told, after, agentVars>>

(* remove_owned_at takes whatever has the name aside ...                    *)
TakeAside(s) ==
    /\ pc[s] = "cleanup"
    /\ out # NoFile
    /\ aside' = [aside EXCEPT ![s] = out]
    /\ out' = NoFile
    /\ Goto(s, "judge")
    /\ UNCHANGED <<repoVars, cardVars, diskOut, data, synced, cleared, told, after, agentVars>>

NothingToTake(s) ==
    /\ pc[s] = "cleanup"
    /\ out = NoFile
    /\ Leave({s})
    /\ UNCHANGED <<repoVars, fileVars, told, after, agentVars>>

owned(s) == aside[s] = s

(* ... unlinks it if it is its own ...                                      *)
Discard(s) ==
    /\ pc[s] = "judge"
    /\ owned(s)
    /\ aside' = [aside EXCEPT ![s] = NoFile]
    /\ diskOut' = out
    /\ Leave({s})
    /\ UNCHANGED <<repoVars, out, data, synced, cleared, told, after, agentVars>>

(* ... and gives it its name back if not, unless the name is taken by now.  *)
GiveBack(s) ==
    /\ pc[s] = "judge"
    /\ ~owned(s)
    /\ IF out = NoFile
       THEN /\ out' = aside[s] /\ diskOut' = aside[s]
            /\ aside' = [aside EXCEPT ![s] = NoFile]
       ELSE UNCHANGED <<out, diskOut, aside>>
    /\ Leave({s})
    /\ UNCHANGED <<repoVars, data, synced, cleared, told, after, agentVars>>

----------------------------------------------------------------------------
(* import_product_approval and verify_product_decision of the Agent         *)

\* Whether a tree is the one of the stored receipt.
Signed(tree) == store # Nothing /\ store.files = tree

AgentGoto(l) ==
    /\ Goto(Agent, l)
    /\ UNCHANGED <<repoVars, card, shown, choice, receipt, fileVars, told, after>>

(* The receipt is read from the outbox, whoever is still writing it; a torn *)
(* one is not JSON.  With the decision stored, an import raises and changes *)
(* nothing: it is left out.                                                 *)
ReadEnvelope ==
    /\ pc[Agent] = "idle" /\ store = Nothing
    /\ out # NoFile /\ data[out] = "full"
    /\ hand' = receipt[out]
    /\ AgentGoto("import")
    /\ UNCHANGED <<got, store, met>>

VerifyEnvelope ==
    /\ pc[Agent] = "import"
    /\ envelope_verifies(hand)
    /\ AgentGoto("store")
    /\ UNCHANGED <<got, agentVars>>

(* Under the decision lock; the decision must be new.                       *)
StoreDecision ==
    /\ pc[Agent] = "store"
    /\ store = Nothing
    /\ store' = hand /\ hand' = Nothing
    /\ AgentGoto("idle")
    /\ UNCHANGED <<got, met>>

(* verify_product_decision: one snapshot of the request ...  Bound: no      *)
(* session is running, with which it shares only what others change.        *)
ReadStoredRequest ==
    /\ pc[Agent] = "idle" /\ \A s \in Sessions : pc[s] = "end"
    /\ store # Nothing
    /\ files.request.val = store.files.request
    /\ got' = [got EXCEPT ![Agent] = [request |-> files.request]]
    /\ met' = Signed(Tree)
    /\ AgentGoto("verify contract")
    /\ UNCHANGED <<store, hand>>

(* ... and the assumptions, the signature, row and audience ...             *)
ReadStoredAssumptions ==
    /\ pc[Agent] = "verify contract"
    /\ files.contract.val = store.files.contract
    /\ trust.key = store.key
    /\ got' = [got EXCEPT ![Agent] =
         [request |-> got[Agent].request, contract |-> files.contract]]
    /\ AgentGoto("verify recheck")
    /\ UNCHANGED <<agentVars>>

(* ... and the snapshot is revalidated on exit.                             *)
RecheckStoredRequest ==
    /\ pc[Agent] = "verify recheck"
    /\ unchanged(Agent, "request")
    /\ AgentGoto("verify recheck contract")
    /\ UNCHANGED <<got, agentVars>>

Verified ==
    /\ pc[Agent] = "verify recheck contract"
    /\ unchanged(Agent, "contract")
    /\ got' = [got EXCEPT ![Agent] = Nothing]
    /\ AgentGoto("verified")
    /\ UNCHANGED <<agentVars>>

(* A check raises, the process dies, or the call returns.                   *)
AgentEnds ==
    /\ pc[Agent] # "idle"
    /\ Leave({Agent})
    /\ hand' = Nothing /\ met' = FALSE
    /\ UNCHANGED <<repoVars, fileVars, told, after, store>>

----------------------------------------------------------------------------
(* Everything else that happens                                             *)

\* Receipts that hold again, or still, after a change of tree or trust.
Note(tree, key) ==
    after' = [s \in Sessions |->
        IF receipt[s] = Nothing THEN {} ELSE after[s] \cup Holding(receipt[s], tree, key)]

Move == moves < MaxMoves /\ moves' = moves + 1

\* An Agent writes a file of the repository, perhaps with the same bytes.
Edit ==
    \E f \in Files, v \in Versions :
        /\ Move
        /\ files' = [files EXCEPT ![f] = [val |-> v, gen |-> files[f].gen + 1]]
        /\ ever' = ever \cup {[Tree EXCEPT ![f] = v]}
        /\ Note([Tree EXCEPT ![f] = v], trust.key)
        /\ met' = (met \/ (pc[Agent] # "idle" /\ Signed([Tree EXCEPT ![f] = v])))
        /\ UNCHANGED <<trust, cardVars, fileVars, pc, told, store, hand>>

ChangeTrust ==
    /\ Move
    /\ \E k \in Keys : trust' = [trust EXCEPT !.key = k]
       \/ \E a \in Audiences : trust' = [trust EXCEPT !.aud = a]
    /\ trust' # trust
    /\ Note(Tree, trust'.key)
    /\ UNCHANGED <<files, ever, cardVars, fileVars, pc, told, agentVars>>

\* The Owner removes the file, say one that a killed session left.
ClearByHand ==
    /\ Move
    /\ out # NoFile
    /\ out' = NoFile
    /\ cleared' = cleared \cup {out}
    /\ UNCHANGED <<files, trust, ever, cardVars, diskOut, data, synced, aside, pc, told, after, agentVars>>

Killed(s) ==
    /\ pc[s] # "end"
    /\ Leave({s})
    /\ UNCHANGED <<repoVars, fileVars, told, after, agentVars>>

\* Every session ends; of what was not synced, some may be lost.
PowerLoss ==
    /\ Move
    /\ Leave(Readers)
    /\ hand' = Nothing /\ met' = FALSE
    /\ \E o \in {out, diskOut} :
        /\ out' = o /\ diskOut' = o
        /\ aside' = [s \in Sessions |-> IF aside[s] = o THEN NoFile ELSE aside[s]]
    /\ \E lost \in SUBSET {s \in Sessions : data[s] = "full" /\ ~synced[s]} :
        data' = [s \in Sessions |-> IF s \in lost THEN "torn" ELSE data[s]]
    /\ UNCHANGED <<files, trust, ever, synced, cleared, told, after, store>>

Next ==
    \/ \E s \in Sessions :
        \/ ReadRequest(s) \/ ReadAssumptions(s)
        \/ RecheckRequest(s) \/ RecheckContract(s)
        \/ ReportExisting(s) \/ Choose(s)
        \/ Decline(s) \/ Accept(s) \/ Confirm(s) \/ Sign(s) \/ VerifySigned(s)
        \/ Create(s) \/ Write(s) \/ SyncFile(s) \/ SyncDirectory(s) \/ Commit(s)
        \/ Fails(s) \/ FailsWriting(s) \/ TakeAside(s) \/ NothingToTake(s)
        \/ Discard(s) \/ GiveBack(s) \/ Killed(s)
    \/ ReadEnvelope \/ VerifyEnvelope \/ StoreDecision
    \/ ReadStoredRequest \/ ReadStoredAssumptions \/ RecheckStoredRequest
    \/ Verified \/ AgentEnds
    \/ Edit \/ ChangeTrust \/ ClearByHand \/ PowerLoss

Spec == Init /\ [][Next]_vars

----------------------------------------------------------------------------
(* Files read one after the other while Agents write were in the repository *)
(* together at one moment: those on a card the Owner sees, and those for     *)
(* which verify_product_decision says that a stored decision holds, which    *)
(* were the signed ones at one moment of that call (FileSetSnapshot,         *)
(* fs_security.py:32).                                                      *)
SnapshotsAreReal ==
    /\ \A s \in Sessions : shown[s] # Nothing => shown[s].files \in ever
    /\ pc[Agent] = "verified" => met

(* What is signed is what the Owner saw and answered A to, with the key and *)
(* the audience of that card, whatever changed while the Owner was reading  *)
(* (approve_product_decision, owner_approval.py:846).                       *)
SignedWasShown ==
    \A s \in Sessions : receipt[s] # Nothing =>
        /\ choice[s] = "A"
        /\ receipt[s] = [files |-> shown[s].files, key |-> shown[s].trust.key]
        /\ pc[s] = "verify" => card[s].trust = shown[s].trust

(* No receipt is published that was overtaken while the signer was waiting: *)
(* its assumptions and its key each held once more after the signature      *)
(* (approve_product_decision, owner_approval.py:937).                       *)
PublishedStillHeld ==
    \A s \in Sessions : data[s] # "none" => after[s] = {"files", "key"}

(* A receipt its session reported as durably committed is whole on disk and *)
(* keeps its name, or is in the hands of a cleanup that never destroys it:  *)
(* through power loss and failing sessions on the same name, unless the     *)
(* Owner removed it (write_new_regular_file, fs_security.py:557).           *)
CommittedStays ==
    \A s \in Sessions : (told[s] = "committed" /\ s \notin cleared) =>
        /\ data[s] = "full" /\ synced[s]
        /\ out = s \/ \E x \in Sessions : aside[x] = s

============================================================================
