------------------------ MODULE OwnerApprovalProofs ------------------------
(***************************************************************************)
(* Proofs about OwnerApproval for every number of sessions and moves of the *)
(* surroundings and every set of versions, keys and audiences.              *)
(*                                                                          *)
(* SnapInv: a file that has its old generation when it is read again has    *)
(* not been written in between, so that two readings around a third one     *)
(* make the three simultaneous.  SignInv: the card that is signed is the    *)
(* one on the terminal.  HeldInv: what a receipt says is noted at every     *)
(* moment since its signature.  CommitInv: the directory on disk agrees     *)
(* with the name of a committed file whenever the file has that name.       *)
(***************************************************************************)
EXTENDS OwnerApproval, TLAPS

FileStates == [val : Versions, gen : Nat]

Steps ==
    {"build", "assume", "recheck request", "recheck contract", "display", "decide", "confirm",
     "sign", "verify", "create", "write", "sync", "sync directory", "commit", "cleanup", "judge",
     "end", "idle", "import", "store", "verify contract", "verify recheck",
     "verify recheck contract", "verified"}

(* The steps of a session that has made, or is about to make, its file.     *)
Writing == {"create", "write", "sync", "sync directory", "commit", "cleanup", "judge"}

OwnerType ==
    /\ files \in [Files -> FileStates]
    /\ trust \in [key : Keys, aud : Audiences]
    /\ pc \in [Readers -> Steps]
    /\ DOMAIN got = Readers
    /\ card \in [Sessions -> Cards \cup {Nothing}]
    /\ shown \in [Sessions -> Cards \cup {Nothing}]
    /\ choice \in [Sessions -> {"A", "B", Nothing}]
    /\ receipt \in [Sessions -> Receipts \cup {Nothing}]
    /\ told \in [Sessions -> {"committed", "existing", "declined", Nothing}]
    /\ out \in Sessions \cup {NoFile}
    /\ diskOut \in Sessions \cup {NoFile}
    /\ data \in [Sessions -> {"none", "torn", "full"}]
    /\ synced \in [Sessions -> BOOLEAN]
    /\ aside \in [Sessions -> Sessions \cup {NoFile}]
    /\ after \in [Sessions -> SUBSET {"files", "key"}]
    /\ store \in Receipts \cup {Nothing}

(* a is the state b of a file, or an older one.                             *)
Behind(a, b) == a = b \/ a.gen < b.gen

(* The snapshot of a session's card.                                        *)
SnapInv ==
    /\ Tree \in ever
    /\ \A s \in Sessions :
        /\ pc[s] \in {"assume", "recheck request"} =>
            got[s].request \in FileStates /\ Behind(got[s].request, files.request)
        /\ pc[s] = "recheck request" =>
            (got[s].request = files.request => card[s].files \in ever)
        /\ pc[s] \in {"recheck request", "recheck contract", "display", "decide"} => card[s] \in Cards
        /\ pc[s] \in {"recheck contract", "display", "decide"} => card[s].files \in ever
        /\ shown[s] # Nothing => shown[s].files \in ever

(* The snapshot of the Agent's verify_product_decision.                     *)
AgentInv ==
    /\ pc[Agent] \in {"import", "store"} => hand \in Receipts
    /\ pc[Agent] \in {"verify contract", "verify recheck", "verify recheck contract"} =>
        store # Nothing /\ (store.files = Tree => met)
    /\ pc[Agent] \in {"verify contract", "verify recheck"} =>
        got[Agent].request \in FileStates /\ Behind(got[Agent].request, files.request)
    /\ pc[Agent] = "verify contract" => got[Agent].request.val = store.files.request
    /\ pc[Agent] = "verify recheck" => (got[Agent].request = files.request => met)
    /\ pc[Agent] \in {"verify recheck contract", "verified"} => met

(* What is about to be signed, or was, is what the Owner saw.               *)
SignInv ==
    \A s \in Sessions :
        /\ pc[s] \in {"confirm", "sign", "verify"} => card[s] \in Cards /\ card[s] = shown[s]
        /\ pc[s] \in {"confirm", "sign"} => choice[s] = "A"
        /\ receipt[s] # Nothing =>
            /\ pc[s] \in {"verify", "end"} \cup Writing
            /\ choice[s] = "A" /\ shown[s] \in Cards
            /\ receipt[s] = [files |-> shown[s].files, key |-> shown[s].trust.key]
        /\ pc[s] \in {"verify"} \cup Writing => receipt[s] # Nothing
        /\ data[s] # "none" => receipt[s] # Nothing

(* The history variable after has noted what holds now.                     *)
HeldInv ==
    \A s \in Sessions :
        /\ receipt[s] # Nothing =>
            /\ receipt[s].files = Tree => "files" \in after[s]
            /\ receipt[s].key = trust.key => "key" \in after[s]
        /\ pc[s] \in Writing \/ data[s] # "none" => after[s] = {"files", "key"}

(* A file that is committed, or one step before, is synced, and so is its   *)
(* directory entry as long as the file has its name.                        *)
CommitInv ==
    /\ \A s \in Sessions :
        /\ pc[s] \in {"sync", "sync directory", "commit"} => data[s] = "full"
        /\ pc[s] \in {"sync directory", "commit"} => synced[s]
        /\ pc[s] \notin {"judge", "end"} => aside[s] = NoFile
        /\ told[s] = "committed" => pc[s] = "end"
        /\ (pc[s] = "commit" \/ told[s] = "committed") /\ out = s => diskOut = s
    /\ CommittedStays

OwnerInv == OwnerType /\ SnapInv /\ AgentInv /\ SignInv /\ HeldInv /\ CommitInv

-----------------------------------------------------------------------------
(* CommitInv speaks of the files, of what was reported and of how far each  *)
(* session has come with its own file, and of nothing else.                 *)
LEMMA CommitFrame ==
    ASSUME CommitInv, UNCHANGED <<fileVars, told>>,
           \A x \in Sessions :
              \/ pc'[x] = pc[x] \/ pc'[x] = "end"
              \/ pc[x] \notin {"judge", "end"} /\ pc'[x] \notin {"sync", "sync directory", "commit"}
    PROVE  CommitInv'
<1> USE DEF fileVars, CommitInv
<1>1. CommittedStays'
  BY ZenonT(60) DEF CommittedStays
<1>2. ASSUME NEW s \in Sessions
      PROVE  /\ pc'[s] \in {"sync", "sync directory", "commit"} => data'[s] = "full"
             /\ pc'[s] \notin {"judge", "end"} => aside'[s] = NoFile
             /\ told'[s] = "committed" => pc'[s] = "end"
  OBVIOUS
<1>3. ASSUME NEW s \in Sessions
      PROVE  (pc'[s] = "commit" \/ told'[s] = "committed") /\ out' = s => diskOut' = s
  OBVIOUS
<1>4. ASSUME NEW s \in Sessions
      PROVE  pc'[s] \in {"sync directory", "commit"} => synced'[s]
  OBVIOUS
<1> QED
  BY <1>1, <1>2, <1>3, <1>4

(* A session that returns, raises or is killed keeps the invariant, unless  *)
(* it reports a commit.                                                     *)
LEMMA LeaveKeepsInv ==
    ASSUME OwnerInv, NEW s \in Sessions, Leave({s}),
           UNCHANGED <<repoVars, fileVars, after, agentVars>>,
           told' \in [Sessions -> {"committed", "existing", "declined", Nothing}],
           \A x \in Sessions : told'[x] = "committed" => told[x] = "committed"
    PROVE  OwnerInv'
<1> USE OwnerAssumption DEF OwnerInv, repoVars, fileVars, agentVars, Readers, Files
<1>f. files' = files => Tree' = Tree
  BY DEF Tree
<1>1. OwnerType'
  BY <1>f, OwnerAssumption DEF Leave, OwnerType, Steps
<1>2. SnapInv'
  BY <1>f, OwnerAssumption DEF Leave, OwnerType, SnapInv
<1>3. AgentInv'
  BY <1>f, OwnerAssumption DEF Leave, OwnerType, AgentInv
<1>4. SignInv'
  BY <1>f, OwnerAssumption, ZenonT(60) DEF Leave, OwnerType, SignInv, Writing
<1>5. HeldInv'
  BY <1>f, OwnerAssumption DEF Leave, OwnerType, SignInv, HeldInv, Writing
<1>6. CommitInv'
  <2>1. CommittedStays'
    BY OwnerAssumption, ZenonT(60) DEF Leave, OwnerType, CommitInv, CommittedStays
  <2>2. ASSUME NEW x \in Sessions
        PROVE  /\ pc'[x] \in {"sync", "sync directory", "commit"} => data'[x] = "full"
               /\ pc'[x] \notin {"judge", "end"} => aside'[x] = NoFile
               /\ told'[x] = "committed" => pc'[x] = "end"
    BY OwnerAssumption DEF Leave, OwnerType, CommitInv
  <2>3. ASSUME NEW x \in Sessions
        PROVE  (pc'[x] = "commit" \/ told'[x] = "committed") /\ out' = x => diskOut' = x
    BY OwnerAssumption DEF Leave, OwnerType, CommitInv
  <2>4. ASSUME NEW x \in Sessions
        PROVE  pc'[x] \in {"sync directory", "commit"} => synced'[x]
    BY OwnerAssumption DEF Leave, OwnerType, CommitInv
  <2> QED
    BY <2>1, <2>2, <2>3, <2>4 DEF CommitInv
<1> QED
  BY <1>1, <1>2, <1>3, <1>4, <1>5, <1>6

(* Every step of a session, the Agent and the surroundings preserves        *)
(* OwnerInv.                                                                *)
LEMMA OwnerInvStep ==
    ASSUME OwnerInv, [Next]_vars
    PROVE  OwnerInv'
<1> USE OwnerAssumption DEF OwnerInv, repoVars, cardVars, fileVars, agentVars, Readers, Files, Goto
<1>f. files' = files => Tree' = Tree
  BY DEF Tree
<1>1. ASSUME NEW s \in Sessions, ReadRequest(s)
      PROVE  OwnerInv'
  <2>1. OwnerType'
    BY <1>f, <1>1 DEF ReadRequest, OwnerType, Steps
  <2>2. SnapInv'
    <3>1. got'[s].request \in FileStates /\ Behind(got'[s].request, files'.request)
      BY <1>1 DEF ReadRequest, OwnerType, Behind
    <3>2. \A x \in Sessions : x # s => got'[x] = got[x] /\ pc'[x] = pc[x]
      BY <1>1 DEF ReadRequest, OwnerType
    <3>3. pc'[s] = "assume"
      BY <1>1 DEF ReadRequest, OwnerType
    <3>4. UNCHANGED <<files, ever, card, shown>>
      BY <1>1 DEF ReadRequest
    <3> QED
      BY <1>f, <3>1, <3>2, <3>3, <3>4 DEF SnapInv
  <2>3. AgentInv'
    BY <1>f, <1>1 DEF ReadRequest, OwnerType, AgentInv
  <2>4. SignInv'
    BY <1>f, <1>1 DEF ReadRequest, OwnerType, SignInv, Writing
  <2>5. HeldInv'
    BY <1>f, <1>1 DEF ReadRequest, OwnerType, SignInv, HeldInv, Writing
  <2>6. CommitInv'
    <3>1. /\ UNCHANGED <<fileVars, told>>
          /\ \A x \in Sessions :
               \/ pc'[x] = pc[x] \/ pc'[x] = "end"
               \/ pc[x] \notin {"judge", "end"} /\ pc'[x] \notin {"sync", "sync directory", "commit"}
      BY <1>1 DEF ReadRequest, OwnerType
    <3> QED
      BY <3>1, CommitFrame
  <2> QED
    BY <2>1, <2>2, <2>3, <2>4, <2>5, <2>6
<1>2. ASSUME NEW s \in Sessions, ReadAssumptions(s)
      PROVE  OwnerInv'
  <2>a. /\ got[s].request \in FileStates /\ Behind(got[s].request, files.request)
        /\ files.contract \in FileStates
    BY <1>2 DEF ReadAssumptions, OwnerType, SnapInv
  <2>b. /\ got'[s].request = got[s].request
        /\ got'[s] = [request |-> got[s].request, contract |-> files.contract]
        /\ \A x \in Sessions : x # s => got'[x] = got[x] /\ card'[x] = card[x] /\ pc'[x] = pc[x]
    BY <1>2 DEF ReadAssumptions, OwnerType
  <2>c. card'[s] = [files |-> [f \in Files |-> got'[s][f].val], trust |-> trust]
    BY <1>2 DEF ReadAssumptions, OwnerType
  <2>d. /\ card'[s].files \in [Files -> Versions]
        /\ card'[s].files["request"] = got[s].request.val
        /\ card'[s].files["contract"] = files.contract.val
    BY <2>a, <2>b, <2>c DEF FileStates
  <2>e. card'[s] \in Cards
    BY <2>c, <2>d DEF OwnerType, Cards
  <2>1. OwnerType'
    <3>1. card' \in [Sessions -> Cards \cup {Nothing}]
      BY <1>2, <2>e DEF ReadAssumptions, OwnerType
    <3> QED
      BY <1>2, <3>1 DEF ReadAssumptions, OwnerType, Steps
  <2>2. SnapInv'
    <3>1. got[s].request = files.request => card'[s].files = Tree
      BY <2>d DEF Tree
    <3>2. pc'[s] = "recheck request" /\ UNCHANGED <<files, ever, shown>>
      BY <1>2 DEF ReadAssumptions, OwnerType
    <3> QED
      BY <1>f, <2>a, <2>b, <2>e, <3>1, <3>2 DEF SnapInv
  <2>3. AgentInv'
    BY <1>f, <1>2 DEF ReadAssumptions, OwnerType, AgentInv
  <2>4. SignInv'
    BY <1>f, <1>2 DEF ReadAssumptions, OwnerType, SignInv, Writing
  <2>5. HeldInv'
    BY <1>f, <1>2 DEF ReadAssumptions, OwnerType, SignInv, HeldInv, Writing
  <2>6. CommitInv'
    <3>1. /\ UNCHANGED <<fileVars, told>>
          /\ \A x \in Sessions :
               \/ pc'[x] = pc[x] \/ pc'[x] = "end"
               \/ pc[x] \notin {"judge", "end"} /\ pc'[x] \notin {"sync", "sync directory", "commit"}
      BY <1>2 DEF ReadAssumptions, OwnerType
    <3> QED
      BY <3>1, CommitFrame
  <2> QED
    BY <2>1, <2>2, <2>3, <2>4, <2>5, <2>6
<1>3. ASSUME NEW s \in Sessions, RecheckRequest(s)
      PROVE  OwnerInv'
  <2>1. OwnerType'
    BY <1>f, <1>3 DEF RecheckRequest, unchanged, OwnerType, Steps
  <2>2. SnapInv'
    BY <1>f, <1>3 DEF RecheckRequest, unchanged, OwnerType, SnapInv
  <2>3. AgentInv'
    BY <1>f, <1>3 DEF RecheckRequest, unchanged, OwnerType, AgentInv
  <2>4. SignInv'
    BY <1>f, <1>3 DEF RecheckRequest, unchanged, OwnerType, SignInv, Writing
  <2>5. HeldInv'
    BY <1>f, <1>3 DEF RecheckRequest, unchanged, OwnerType, SignInv, HeldInv, Writing
  <2>6. CommitInv'
    <3>1. /\ UNCHANGED <<fileVars, told>>
          /\ \A x \in Sessions :
               \/ pc'[x] = pc[x] \/ pc'[x] = "end"
               \/ pc[x] \notin {"judge", "end"} /\ pc'[x] \notin {"sync", "sync directory", "commit"}
      BY <1>3 DEF RecheckRequest, unchanged, OwnerType
    <3> QED
      BY <3>1, CommitFrame
  <2> QED
    BY <2>1, <2>2, <2>3, <2>4, <2>5, <2>6
<1>4. ASSUME NEW s \in Sessions, RecheckContract(s)
      PROVE  OwnerInv'
  <2>1. OwnerType'
    BY <1>f, <1>4 DEF RecheckContract, unchanged, OwnerType, Steps
  <2>2. SnapInv'
    BY <1>f, <1>4 DEF RecheckContract, unchanged, OwnerType, SnapInv
  <2>3. AgentInv'
    BY <1>f, <1>4 DEF RecheckContract, unchanged, OwnerType, AgentInv
  <2>4. SignInv'
    BY <1>f, <1>4 DEF RecheckContract, unchanged, OwnerType, SignInv, Writing
  <2>5. HeldInv'
    BY <1>f, <1>4 DEF RecheckContract, unchanged, OwnerType, SignInv, HeldInv, Writing
  <2>6. CommitInv'
    <3>1. /\ UNCHANGED <<fileVars, told>>
          /\ \A x \in Sessions :
               \/ pc'[x] = pc[x] \/ pc'[x] = "end"
               \/ pc[x] \notin {"judge", "end"} /\ pc'[x] \notin {"sync", "sync directory", "commit"}
      BY <1>4 DEF RecheckContract, unchanged, OwnerType
    <3> QED
      BY <3>1, CommitFrame
  <2> QED
    BY <2>1, <2>2, <2>3, <2>4, <2>5, <2>6
<1>5. ASSUME NEW s \in Sessions, Choose(s)
      PROVE  OwnerInv'
  <2>1. OwnerType'
    <3>1. card[s] \in Cards \cup {Nothing} /\ shown' = [shown EXCEPT ![s] = card[s]]
      BY <1>5 DEF Choose, OwnerType
    <3>2. PICK c \in {"A", "B"} : choice' = [choice EXCEPT ![s] = c]
      BY <1>5 DEF Choose
    <3>3. /\ shown' \in [Sessions -> Cards \cup {Nothing}]
          /\ choice' \in [Sessions -> {"A", "B", Nothing}]
      BY <3>1, <3>2 DEF OwnerType
    <3> QED
      BY <1>5, <3>3 DEF Choose, OwnerType, Steps
  <2>2. SnapInv'
    BY <1>f, <1>5 DEF Choose, OwnerType, SnapInv
  <2>3. AgentInv'
    BY <1>f, <1>5 DEF Choose, OwnerType, AgentInv
  <2>4. SignInv'
    BY <1>f, <1>5, ZenonT(60) DEF Choose, OwnerType, SignInv, Writing
  <2>5. HeldInv'
    BY <1>f, <1>5 DEF Choose, OwnerType, SignInv, HeldInv, Writing
  <2>6. CommitInv'
    <3>1. /\ UNCHANGED <<fileVars, told>>
          /\ \A x \in Sessions :
               \/ pc'[x] = pc[x] \/ pc'[x] = "end"
               \/ pc[x] \notin {"judge", "end"} /\ pc'[x] \notin {"sync", "sync directory", "commit"}
      BY <1>5 DEF Choose, OwnerType
    <3> QED
      BY <3>1, CommitFrame
  <2> QED
    BY <2>1, <2>2, <2>3, <2>4, <2>5, <2>6
<1>6. ASSUME NEW s \in Sessions, Accept(s)
      PROVE  OwnerInv'
  <2>1. OwnerType'
    BY <1>f, <1>6 DEF Accept, same_card, OwnerType, Steps
  <2>2. SnapInv'
    BY <1>f, <1>6 DEF Accept, same_card, OwnerType, SnapInv
  <2>3. AgentInv'
    BY <1>f, <1>6 DEF Accept, same_card, OwnerType, AgentInv
  <2>4. SignInv'
    <3>1. card[s] \in Cards /\ card[s] = shown[s] /\ choice[s] = "A"
      BY <1>6 DEF Accept, same_card, SnapInv
    <3>2. receipt[s] = Nothing
      BY <1>6 DEF Accept, SignInv, Writing
    <3>3. /\ pc'[s] = "confirm" /\ UNCHANGED <<card, shown, choice, receipt, data>>
          /\ \A x \in Sessions : x # s => pc'[x] = pc[x]
      BY <1>6 DEF Accept, OwnerType
    <3> QED
      BY <3>1, <3>2, <3>3 DEF SignInv, Writing
  <2>5. HeldInv'
    BY <1>f, <1>6 DEF Accept, same_card, OwnerType, SignInv, HeldInv, Writing
  <2>6. CommitInv'
    <3>1. /\ UNCHANGED <<fileVars, told>>
          /\ \A x \in Sessions :
               \/ pc'[x] = pc[x] \/ pc'[x] = "end"
               \/ pc[x] \notin {"judge", "end"} /\ pc'[x] \notin {"sync", "sync directory", "commit"}
      BY <1>6 DEF Accept, same_card, OwnerType
    <3> QED
      BY <3>1, CommitFrame
  <2> QED
    BY <2>1, <2>2, <2>3, <2>4, <2>5, <2>6
<1>7. ASSUME NEW s \in Sessions, Confirm(s)
      PROVE  OwnerInv'
  <2>1. OwnerType'
    BY <1>f, <1>7 DEF Confirm, OwnerType, Steps
  <2>2. SnapInv'
    BY <1>f, <1>7 DEF Confirm, OwnerType, SnapInv
  <2>3. AgentInv'
    BY <1>f, <1>7 DEF Confirm, OwnerType, AgentInv
  <2>4. SignInv'
    BY <1>f, <1>7 DEF Confirm, OwnerType, SignInv, Writing
  <2>5. HeldInv'
    BY <1>f, <1>7 DEF Confirm, OwnerType, SignInv, HeldInv, Writing
  <2>6. CommitInv'
    <3>1. /\ UNCHANGED <<fileVars, told>>
          /\ \A x \in Sessions :
               \/ pc'[x] = pc[x] \/ pc'[x] = "end"
               \/ pc[x] \notin {"judge", "end"} /\ pc'[x] \notin {"sync", "sync directory", "commit"}
      BY <1>7 DEF Confirm, OwnerType
    <3> QED
      BY <3>1, CommitFrame
  <2> QED
    BY <2>1, <2>2, <2>3, <2>4, <2>5, <2>6
<1>8. ASSUME NEW s \in Sessions, Sign(s)
      PROVE  OwnerInv'
  <2>a. card[s] \in Cards /\ card[s] = shown[s] /\ choice[s] = "A"
    BY <1>8 DEF Sign, SignInv
  <2>b. receipt' = [receipt EXCEPT ![s] = [files |-> card[s].files, key |-> card[s].trust.key]]
    BY <1>8 DEF Sign
  <2>c. [files |-> card[s].files, key |-> card[s].trust.key] \in Receipts
    BY <2>a DEF Cards, Receipts
  <2>1. OwnerType'
    <3>1. receipt' \in [Sessions -> Receipts \cup {Nothing}]
      BY <2>b, <2>c DEF OwnerType
    <3>2. after' \in [Sessions -> SUBSET {"files", "key"}]
      BY <1>8 DEF Sign, Holding, OwnerType
    <3> QED
      BY <1>8, <3>1, <3>2 DEF Sign, OwnerType, Steps
  <2>2. SnapInv'
    BY <1>f, <1>8 DEF Sign, OwnerType, SnapInv
  <2>3. AgentInv'
    BY <1>f, <1>8 DEF Sign, OwnerType, AgentInv
  <2>4. SignInv'
    <3>1. /\ receipt'[s] = [files |-> card[s].files, key |-> card[s].trust.key]
          /\ \A x \in Sessions : x # s => receipt'[x] = receipt[x] /\ pc'[x] = pc[x]
      BY <1>8, <2>b DEF Sign, OwnerType
    <3>2. /\ receipt'[s] # Nothing
          /\ receipt'[s] = [files |-> shown'[s].files, key |-> shown'[s].trust.key]
      BY <1>8, <2>a, <2>c, <3>1 DEF Sign
    <3>3. pc'[s] = "verify" /\ UNCHANGED <<card, shown, choice, data>>
      BY <1>8 DEF Sign, OwnerType
    <3> QED
      BY <2>a, <3>1, <3>2, <3>3, ZenonT(60) DEF SignInv, Writing
  <2>5. HeldInv'
    BY <1>f, <1>8, ZenonT(60) DEF Sign, Holding, OwnerType, SignInv, HeldInv, Writing
  <2>6. CommitInv'
    <3>1. /\ UNCHANGED <<fileVars, told>>
          /\ \A x \in Sessions :
               \/ pc'[x] = pc[x] \/ pc'[x] = "end"
               \/ pc[x] \notin {"judge", "end"} /\ pc'[x] \notin {"sync", "sync directory", "commit"}
      BY <1>8 DEF Sign, OwnerType
    <3> QED
      BY <3>1, CommitFrame
  <2> QED
    BY <2>1, <2>2, <2>3, <2>4, <2>5, <2>6
<1>9. ASSUME NEW s \in Sessions, VerifySigned(s)
      PROVE  OwnerInv'
  <2>1. OwnerType'
    BY <1>f, <1>9 DEF VerifySigned, envelope_verifies, OwnerType, Steps
  <2>2. SnapInv'
    BY <1>f, <1>9 DEF VerifySigned, envelope_verifies, OwnerType, SnapInv
  <2>3. AgentInv'
    BY <1>f, <1>9 DEF VerifySigned, envelope_verifies, OwnerType, AgentInv
  <2>4. SignInv'
    BY <1>f, <1>9 DEF VerifySigned, envelope_verifies, OwnerType, SignInv, Writing
  <2>5. HeldInv'
    <3>1. receipt[s] # Nothing /\ receipt[s].files = Tree /\ receipt[s].key = trust.key
      BY <1>9 DEF VerifySigned, envelope_verifies, SignInv
    <3>2. "files" \in after[s] /\ "key" \in after[s] /\ after[s] \in SUBSET {"files", "key"}
      BY <3>1 DEF HeldInv, OwnerType
    <3>3. after[s] = {"files", "key"}
      BY <3>2
    <3>4. /\ pc'[s] = "create" /\ UNCHANGED <<files, trust, receipt, data, after>>
          /\ \A x \in Sessions : x # s => pc'[x] = pc[x]
      BY <1>9 DEF VerifySigned, OwnerType
    <3> QED
      BY <1>f, <3>3, <3>4 DEF HeldInv, Writing
  <2>6. CommitInv'
    <3>1. /\ UNCHANGED <<fileVars, told>>
          /\ \A x \in Sessions :
               \/ pc'[x] = pc[x] \/ pc'[x] = "end"
               \/ pc[x] \notin {"judge", "end"} /\ pc'[x] \notin {"sync", "sync directory", "commit"}
      BY <1>9 DEF VerifySigned, envelope_verifies, OwnerType
    <3> QED
      BY <3>1, CommitFrame
  <2> QED
    BY <2>1, <2>2, <2>3, <2>4, <2>5, <2>6
<1>10. ASSUME NEW s \in Sessions, Create(s)
      PROVE  OwnerInv'
  <2>1. OwnerType'
    BY <1>f, <1>10 DEF Create, OwnerType, Steps
  <2>2. SnapInv'
    BY <1>f, <1>10 DEF Create, OwnerType, SnapInv
  <2>3. AgentInv'
    BY <1>f, <1>10 DEF Create, OwnerType, AgentInv
  <2>4. SignInv'
    BY <1>f, <1>10, ZenonT(60) DEF Create, OwnerType, SignInv, Writing
  <2>5. HeldInv'
    BY <1>f, <1>10, ZenonT(60) DEF Create, OwnerType, SignInv, HeldInv, Writing
  <2>6. CommitInv'
    <3>1. CommittedStays'
      <4> SUFFICES ASSUME NEW x \in Sessions, told'[x] = "committed", x \notin cleared'
                    PROVE  /\ data'[x] = "full" /\ synced'[x]
                           /\ out' = x \/ \E y \in Sessions : aside'[y] = x
        BY DEF CommittedStays
      <4>1. /\ told[x] = "committed" /\ pc[x] = "end" /\ data[x] = "full"
            /\ out = x \/ \E y \in Sessions : aside[y] = x
        BY <1>10 DEF Create, CommitInv, CommittedStays
      <4>2. synced[x] = TRUE
        BY <1>10, <4>1 DEF Create, OwnerType, CommitInv, CommittedStays
      <4>3. data'[x] = "full"
        BY <1>10, <4>1, <4>2 DEF Create, OwnerType
      <4>4. synced'[x]
        BY <1>10, <4>2 DEF Create, OwnerType
      <4>5. out' = x \/ \E y \in Sessions : aside'[y] = x
        BY <1>10, <4>1 DEF Create, OwnerType
      <4> QED
        BY <4>3, <4>4, <4>5
    <3>2. ASSUME NEW x \in Sessions
          PROVE  /\ pc'[x] \in {"sync", "sync directory", "commit"} => data'[x] = "full"
                 /\ pc'[x] \notin {"judge", "end"} => aside'[x] = NoFile
                 /\ told'[x] = "committed" => pc'[x] = "end"
      BY <1>10 DEF Create, OwnerType, CommitInv
    <3>3. ASSUME NEW x \in Sessions
          PROVE  (pc'[x] = "commit" \/ told'[x] = "committed") /\ out' = x => diskOut' = x
      BY <1>10 DEF Create, OwnerType, CommitInv
    <3>4. ASSUME NEW x \in Sessions
          PROVE  pc'[x] \in {"sync directory", "commit"} => synced'[x]
      BY <1>10 DEF Create, OwnerType, CommitInv
    <3> QED
      BY <3>1, <3>2, <3>3, <3>4 DEF CommitInv
  <2> QED
    BY <2>1, <2>2, <2>3, <2>4, <2>5, <2>6
<1>11. ASSUME NEW s \in Sessions, Write(s)
      PROVE  OwnerInv'
  <2>1. OwnerType'
    BY <1>f, <1>11 DEF Write, OwnerType, Steps
  <2>2. SnapInv'
    BY <1>f, <1>11 DEF Write, OwnerType, SnapInv
  <2>3. AgentInv'
    BY <1>f, <1>11 DEF Write, OwnerType, AgentInv
  <2>4. SignInv'
    BY <1>f, <1>11, ZenonT(60) DEF Write, OwnerType, SignInv, Writing
  <2>5. HeldInv'
    BY <1>f, <1>11, ZenonT(60) DEF Write, OwnerType, SignInv, HeldInv, Writing
  <2>6. CommitInv'
    <3>1. CommittedStays'
      <4> SUFFICES ASSUME NEW x \in Sessions, told'[x] = "committed", x \notin cleared'
                    PROVE  /\ data'[x] = "full" /\ synced'[x]
                           /\ out' = x \/ \E y \in Sessions : aside'[y] = x
        BY DEF CommittedStays
      <4>1. /\ told[x] = "committed" /\ pc[x] = "end" /\ data[x] = "full"
            /\ out = x \/ \E y \in Sessions : aside[y] = x
        BY <1>11 DEF Write, CommitInv, CommittedStays
      <4>2. synced[x] = TRUE
        BY <1>11, <4>1 DEF Write, OwnerType, CommitInv, CommittedStays
      <4>3. data'[x] = "full"
        BY <1>11, <4>1, <4>2 DEF Write, OwnerType
      <4>4. synced'[x]
        BY <1>11, <4>2 DEF Write, OwnerType
      <4>5. out' = x \/ \E y \in Sessions : aside'[y] = x
        BY <1>11, <4>1 DEF Write, OwnerType
      <4> QED
        BY <4>3, <4>4, <4>5
    <3>2. ASSUME NEW x \in Sessions
          PROVE  /\ pc'[x] \in {"sync", "sync directory", "commit"} => data'[x] = "full"
                 /\ pc'[x] \notin {"judge", "end"} => aside'[x] = NoFile
                 /\ told'[x] = "committed" => pc'[x] = "end"
      BY <1>11 DEF Write, OwnerType, CommitInv
    <3>3. ASSUME NEW x \in Sessions
          PROVE  (pc'[x] = "commit" \/ told'[x] = "committed") /\ out' = x => diskOut' = x
      BY <1>11 DEF Write, OwnerType, CommitInv
    <3>4. ASSUME NEW x \in Sessions
          PROVE  pc'[x] \in {"sync directory", "commit"} => synced'[x]
      BY <1>11 DEF Write, OwnerType, CommitInv
    <3> QED
      BY <3>1, <3>2, <3>3, <3>4 DEF CommitInv
  <2> QED
    BY <2>1, <2>2, <2>3, <2>4, <2>5, <2>6
<1>12. ASSUME NEW s \in Sessions, SyncFile(s)
      PROVE  OwnerInv'
  <2>1. OwnerType'
    BY <1>f, <1>12 DEF SyncFile, OwnerType, Steps
  <2>2. SnapInv'
    BY <1>f, <1>12 DEF SyncFile, OwnerType, SnapInv
  <2>3. AgentInv'
    BY <1>f, <1>12 DEF SyncFile, OwnerType, AgentInv
  <2>4. SignInv'
    BY <1>f, <1>12 DEF SyncFile, OwnerType, SignInv, Writing
  <2>5. HeldInv'
    BY <1>f, <1>12 DEF SyncFile, OwnerType, SignInv, HeldInv, Writing
  <2>6. CommitInv'
    <3>1. CommittedStays'
      <4> SUFFICES ASSUME NEW x \in Sessions, told'[x] = "committed", x \notin cleared'
                    PROVE  /\ data'[x] = "full" /\ synced'[x]
                           /\ out' = x \/ \E y \in Sessions : aside'[y] = x
        BY DEF CommittedStays
      <4>1. /\ told[x] = "committed" /\ pc[x] = "end" /\ data[x] = "full"
            /\ out = x \/ \E y \in Sessions : aside[y] = x
        BY <1>12 DEF SyncFile, CommitInv, CommittedStays
      <4>2. synced[x] = TRUE
        BY <1>12, <4>1 DEF SyncFile, OwnerType, CommitInv, CommittedStays
      <4>3. data'[x] = "full"
        BY <1>12, <4>1, <4>2 DEF SyncFile, OwnerType
      <4>4. synced'[x]
        BY <1>12, <4>2 DEF SyncFile, OwnerType
      <4>5. out' = x \/ \E y \in Sessions : aside'[y] = x
        BY <1>12, <4>1 DEF SyncFile, OwnerType
      <4> QED
        BY <4>3, <4>4, <4>5
    <3>2. ASSUME NEW x \in Sessions
          PROVE  /\ pc'[x] \in {"sync", "sync directory", "commit"} => data'[x] = "full"
                 /\ pc'[x] \notin {"judge", "end"} => aside'[x] = NoFile
                 /\ told'[x] = "committed" => pc'[x] = "end"
      BY <1>12 DEF SyncFile, OwnerType, CommitInv
    <3>3. ASSUME NEW x \in Sessions
          PROVE  (pc'[x] = "commit" \/ told'[x] = "committed") /\ out' = x => diskOut' = x
      BY <1>12 DEF SyncFile, OwnerType, CommitInv
    <3>4. ASSUME NEW x \in Sessions
          PROVE  pc'[x] \in {"sync directory", "commit"} => synced'[x]
      BY <1>12 DEF SyncFile, OwnerType, CommitInv
    <3> QED
      BY <3>1, <3>2, <3>3, <3>4 DEF CommitInv
  <2> QED
    BY <2>1, <2>2, <2>3, <2>4, <2>5, <2>6
<1>13. ASSUME NEW s \in Sessions, SyncDirectory(s)
      PROVE  OwnerInv'
  <2>1. OwnerType'
    BY <1>f, <1>13 DEF SyncDirectory, OwnerType, Steps
  <2>2. SnapInv'
    BY <1>f, <1>13 DEF SyncDirectory, OwnerType, SnapInv
  <2>3. AgentInv'
    BY <1>f, <1>13 DEF SyncDirectory, OwnerType, AgentInv
  <2>4. SignInv'
    BY <1>f, <1>13 DEF SyncDirectory, OwnerType, SignInv, Writing
  <2>5. HeldInv'
    BY <1>f, <1>13 DEF SyncDirectory, OwnerType, SignInv, HeldInv, Writing
  <2>6. CommitInv'
    <3>1. CommittedStays'
      BY <1>13, ZenonT(60) DEF SyncDirectory, OwnerType, CommitInv, CommittedStays
    <3>2. ASSUME NEW x \in Sessions
          PROVE  /\ pc'[x] \in {"sync", "sync directory", "commit"} => data'[x] = "full"
                 /\ pc'[x] \notin {"judge", "end"} => aside'[x] = NoFile
                 /\ told'[x] = "committed" => pc'[x] = "end"
      BY <1>13 DEF SyncDirectory, OwnerType, CommitInv
    <3>3. ASSUME NEW x \in Sessions
          PROVE  (pc'[x] = "commit" \/ told'[x] = "committed") /\ out' = x => diskOut' = x
      BY <1>13 DEF SyncDirectory, OwnerType, CommitInv
    <3>4. ASSUME NEW x \in Sessions
          PROVE  pc'[x] \in {"sync directory", "commit"} => synced'[x]
      BY <1>13 DEF SyncDirectory, OwnerType, CommitInv
    <3> QED
      BY <3>1, <3>2, <3>3, <3>4 DEF CommitInv
  <2> QED
    BY <2>1, <2>2, <2>3, <2>4, <2>5, <2>6
<1>14. ASSUME NEW s \in Sessions, Commit(s)
      PROVE  OwnerInv'
  <2>1. OwnerType'
    BY <1>f, <1>14 DEF Commit, Leave, OwnerType, Steps
  <2>2. SnapInv'
    BY <1>f, <1>14 DEF Commit, Leave, OwnerType, SnapInv
  <2>3. AgentInv'
    BY <1>f, <1>14 DEF Commit, Leave, OwnerType, AgentInv
  <2>4. SignInv'
    BY <1>f, <1>14, ZenonT(60) DEF Commit, Leave, OwnerType, SignInv, Writing
  <2>5. HeldInv'
    BY <1>f, <1>14 DEF Commit, Leave, OwnerType, SignInv, HeldInv, Writing
  <2>6. CommitInv'
    <3>1. CommittedStays'
      <4> SUFFICES ASSUME NEW x \in Sessions, told'[x] = "committed", x \notin cleared'
                    PROVE  /\ data'[x] = "full" /\ synced'[x]
                           /\ out' = x \/ \E y \in Sessions : aside'[y] = x
        BY DEF CommittedStays
      <4>1. /\ data[x] = "full" /\ synced[x] = TRUE
            /\ out = x \/ \E y \in Sessions : aside[y] = x
        <5>1. synced[x] \in BOOLEAN
          BY DEF OwnerType
        <5>2. CASE x = s
          BY <1>14, <5>1, <5>2 DEF Commit, CommitInv
        <5>3. CASE x # s
          <6>1. told[x] = "committed" /\ x \notin cleared
            BY <1>14, <5>3 DEF Commit, OwnerType
          <6> QED
            BY <5>1, <6>1 DEF CommitInv, CommittedStays
        <5> QED
          BY <5>2, <5>3
      <4>2. synced[x]
        BY <4>1
      <4>3. data'[x] = "full"
        BY <1>14, <4>1 DEF Commit
      <4>4. synced'[x]
        BY <1>14, <4>2 DEF Commit, Leave, OwnerType
      <4>5. out' = x \/ \E y \in Sessions : aside'[y] = x
        BY <1>14, <4>1 DEF Commit, Leave, OwnerType
      <4> QED
        BY <4>3, <4>4, <4>5
    <3>2. ASSUME NEW x \in Sessions
          PROVE  /\ pc'[x] \in {"sync", "sync directory", "commit"} => data'[x] = "full"
                 /\ pc'[x] \notin {"judge", "end"} => aside'[x] = NoFile
                 /\ told'[x] = "committed" => pc'[x] = "end"
      BY <1>14 DEF Commit, Leave, OwnerType, CommitInv
    <3>3. ASSUME NEW x \in Sessions
          PROVE  (pc'[x] = "commit" \/ told'[x] = "committed") /\ out' = x => diskOut' = x
      BY <1>14 DEF Commit, Leave, OwnerType, CommitInv
    <3>4. ASSUME NEW x \in Sessions
          PROVE  pc'[x] \in {"sync directory", "commit"} => synced'[x]
      BY <1>14 DEF Commit, Leave, OwnerType, CommitInv
    <3> QED
      BY <3>1, <3>2, <3>3, <3>4 DEF CommitInv
  <2> QED
    BY <2>1, <2>2, <2>3, <2>4, <2>5, <2>6
<1>15. ASSUME NEW s \in Sessions, FailsWriting(s)
      PROVE  OwnerInv'
  <2>1. OwnerType'
    BY <1>f, <1>15 DEF FailsWriting, OwnerType, Steps
  <2>2. SnapInv'
    BY <1>f, <1>15 DEF FailsWriting, OwnerType, SnapInv
  <2>3. AgentInv'
    BY <1>f, <1>15 DEF FailsWriting, OwnerType, AgentInv
  <2>4. SignInv'
    BY <1>f, <1>15 DEF FailsWriting, OwnerType, SignInv, Writing
  <2>5. HeldInv'
    BY <1>f, <1>15 DEF FailsWriting, OwnerType, SignInv, HeldInv, Writing
  <2>6. CommitInv'
    <3>1. /\ UNCHANGED <<fileVars, told>>
          /\ \A x \in Sessions :
               \/ pc'[x] = pc[x] \/ pc'[x] = "end"
               \/ pc[x] \notin {"judge", "end"} /\ pc'[x] \notin {"sync", "sync directory", "commit"}
      BY <1>15 DEF FailsWriting, OwnerType
    <3> QED
      BY <3>1, CommitFrame
  <2> QED
    BY <2>1, <2>2, <2>3, <2>4, <2>5, <2>6
<1>16. ASSUME NEW s \in Sessions, TakeAside(s)
      PROVE  OwnerInv'
  <2>1. OwnerType'
    BY <1>f, <1>16 DEF TakeAside, OwnerType, Steps
  <2>2. SnapInv'
    BY <1>f, <1>16 DEF TakeAside, OwnerType, SnapInv
  <2>3. AgentInv'
    BY <1>f, <1>16 DEF TakeAside, OwnerType, AgentInv
  <2>4. SignInv'
    BY <1>f, <1>16 DEF TakeAside, OwnerType, SignInv, Writing
  <2>5. HeldInv'
    BY <1>f, <1>16 DEF TakeAside, OwnerType, SignInv, HeldInv, Writing
  <2>6. CommitInv'
    <3>1. CommittedStays'
      <4> SUFFICES ASSUME NEW x \in Sessions, told'[x] = "committed", x \notin cleared'
                    PROVE  /\ data'[x] = "full" /\ synced'[x]
                           /\ out' = x \/ \E y \in Sessions : aside'[y] = x
        BY DEF CommittedStays
      <4>1. /\ told[x] = "committed" /\ pc[x] = "end" /\ data[x] = "full"
            /\ out = x \/ \E y \in Sessions : aside[y] = x
        BY <1>16 DEF TakeAside, CommitInv, CommittedStays
      <4>2. synced[x] = TRUE
        BY <1>16, <4>1 DEF TakeAside, OwnerType, CommitInv, CommittedStays
      <4>3. data'[x] = "full"
        BY <1>16, <4>1, <4>2 DEF TakeAside, OwnerType
      <4>4. synced'[x]
        BY <1>16, <4>2 DEF TakeAside, OwnerType
      <4>5. out' = x \/ \E y \in Sessions : aside'[y] = x
        <5>1. CASE out = x
          BY <1>16, <5>1 DEF TakeAside, OwnerType
        <5>2. ASSUME NEW y \in Sessions, aside[y] = x
              PROVE  aside'[y] = x
          BY <1>16, <5>2, ZenonT(60) DEF TakeAside, OwnerType, CommitInv
        <5> QED
          BY <4>1, <5>1, <5>2
      <4> QED
        BY <4>3, <4>4, <4>5
    <3>2. ASSUME NEW x \in Sessions
          PROVE  /\ pc'[x] \in {"sync", "sync directory", "commit"} => data'[x] = "full"
                 /\ pc'[x] \notin {"judge", "end"} => aside'[x] = NoFile
                 /\ told'[x] = "committed" => pc'[x] = "end"
      BY <1>16, ZenonT(60) DEF TakeAside, OwnerType, CommitInv
    <3>3. ASSUME NEW x \in Sessions
          PROVE  (pc'[x] = "commit" \/ told'[x] = "committed") /\ out' = x => diskOut' = x
      BY <1>16 DEF TakeAside, OwnerType, CommitInv
    <3>4. ASSUME NEW x \in Sessions
          PROVE  pc'[x] \in {"sync directory", "commit"} => synced'[x]
      BY <1>16 DEF TakeAside, OwnerType, CommitInv
    <3> QED
      BY <3>1, <3>2, <3>3, <3>4 DEF CommitInv
  <2> QED
    BY <2>1, <2>2, <2>3, <2>4, <2>5, <2>6
<1>17. ASSUME NEW s \in Sessions, Discard(s)
      PROVE  OwnerInv'
  <2>1. OwnerType'
    BY <1>f, <1>17 DEF Discard, Leave, owned, OwnerType, Steps
  <2>2. SnapInv'
    BY <1>f, <1>17 DEF Discard, Leave, owned, OwnerType, SnapInv
  <2>3. AgentInv'
    BY <1>f, <1>17 DEF Discard, Leave, owned, OwnerType, AgentInv
  <2>4. SignInv'
    BY <1>f, <1>17, ZenonT(60) DEF Discard, Leave, owned, OwnerType, SignInv, Writing
  <2>5. HeldInv'
    BY <1>f, <1>17 DEF Discard, Leave, owned, OwnerType, SignInv, HeldInv, Writing
  <2>6. CommitInv'
    <3>1. CommittedStays'
      <4> SUFFICES ASSUME NEW x \in Sessions, told'[x] = "committed", x \notin cleared'
                    PROVE  /\ data'[x] = "full" /\ synced'[x]
                           /\ out' = x \/ \E y \in Sessions : aside'[y] = x
        BY DEF CommittedStays
      <4>1. /\ told[x] = "committed" /\ pc[x] = "end" /\ data[x] = "full"
            /\ out = x \/ \E y \in Sessions : aside[y] = x
        BY <1>17 DEF Discard, Leave, owned, CommitInv, CommittedStays
      <4>2. synced[x] = TRUE
        BY <1>17, <4>1 DEF Discard, Leave, owned, OwnerType, CommitInv, CommittedStays
      <4>3. data'[x] = "full"
        BY <1>17, <4>1, <4>2 DEF Discard, Leave, owned, OwnerType
      <4>4. synced'[x]
        BY <1>17, <4>2 DEF Discard, Leave, owned, OwnerType
      <4>5. out' = x \/ \E y \in Sessions : aside'[y] = x
        <5>1. CASE out = x
          BY <1>17, <5>1 DEF Discard
        <5>2. ASSUME NEW y \in Sessions, aside[y] = x
              PROVE  aside'[y] = x
          BY <1>17, <4>1, <5>2 DEF Discard, owned, OwnerType
        <5> QED
          BY <4>1, <5>1, <5>2
      <4> QED
        BY <4>3, <4>4, <4>5
    <3>2. ASSUME NEW x \in Sessions
          PROVE  /\ pc'[x] \in {"sync", "sync directory", "commit"} => data'[x] = "full"
                 /\ pc'[x] \notin {"judge", "end"} => aside'[x] = NoFile
                 /\ told'[x] = "committed" => pc'[x] = "end"
      BY <1>17, ZenonT(60) DEF Discard, Leave, owned, OwnerType, CommitInv
    <3>3. ASSUME NEW x \in Sessions
          PROVE  (pc'[x] = "commit" \/ told'[x] = "committed") /\ out' = x => diskOut' = x
      BY <1>17 DEF Discard, Leave, owned, OwnerType, CommitInv
    <3>4. ASSUME NEW x \in Sessions
          PROVE  pc'[x] \in {"sync directory", "commit"} => synced'[x]
      BY <1>17 DEF Discard, Leave, owned, OwnerType, CommitInv
    <3> QED
      BY <3>1, <3>2, <3>3, <3>4 DEF CommitInv
  <2> QED
    BY <2>1, <2>2, <2>3, <2>4, <2>5, <2>6
<1>18. ASSUME NEW s \in Sessions, GiveBack(s)
      PROVE  OwnerInv'
  <2>1. OwnerType'
    <3>1. out' \in Sessions \cup {NoFile} /\ diskOut' \in Sessions \cup {NoFile}
      BY <1>18 DEF GiveBack, OwnerType
    <3>2. aside' \in [Sessions -> Sessions \cup {NoFile}]
      BY <1>18 DEF GiveBack, OwnerType
    <3>3. Leave({s}) /\ UNCHANGED <<files, trust, data, synced, told, after, store>>
      BY <1>18 DEF GiveBack
    <3>4. pc' \in [Readers -> Steps] /\ DOMAIN got' = Readers
      BY <3>3 DEF Leave, OwnerType, Steps
    <3>5. /\ card' \in [Sessions -> Cards \cup {Nothing}]
          /\ shown' \in [Sessions -> Cards \cup {Nothing}]
          /\ choice' \in [Sessions -> {"A", "B", Nothing}]
          /\ receipt' = receipt
      BY <3>3 DEF Leave, OwnerType
    <3> QED
      BY <3>1, <3>2, <3>3, <3>4, <3>5 DEF OwnerType
  <2>2. SnapInv'
    BY <1>f, <1>18 DEF GiveBack, Leave, owned, OwnerType, SnapInv
  <2>3. AgentInv'
    BY <1>f, <1>18 DEF GiveBack, Leave, owned, OwnerType, AgentInv
  <2>4. SignInv'
    BY <1>f, <1>18, ZenonT(60) DEF GiveBack, Leave, owned, OwnerType, SignInv, Writing
  <2>5. HeldInv'
    BY <1>f, <1>18 DEF GiveBack, Leave, owned, OwnerType, SignInv, HeldInv, Writing
  <2>6. CommitInv'
    <3>1. CommittedStays'
      <4> SUFFICES ASSUME NEW x \in Sessions, told'[x] = "committed", x \notin cleared'
                    PROVE  /\ data'[x] = "full" /\ synced'[x]
                           /\ out' = x \/ \E y \in Sessions : aside'[y] = x
        BY DEF CommittedStays
      <4>1. /\ told[x] = "committed" /\ pc[x] = "end" /\ data[x] = "full"
            /\ out = x \/ \E y \in Sessions : aside[y] = x
        BY <1>18 DEF GiveBack, Leave, owned, CommitInv, CommittedStays
      <4>2. synced[x] = TRUE
        BY <1>18, <4>1 DEF GiveBack, Leave, owned, OwnerType, CommitInv, CommittedStays
      <4>3. data'[x] = "full"
        BY <1>18, <4>1, <4>2 DEF GiveBack, Leave, owned, OwnerType
      <4>4. synced'[x]
        BY <1>18, <4>2 DEF GiveBack, Leave, owned, OwnerType
      <4>5. out' = x \/ \E y \in Sessions : aside'[y] = x
        <5>1. CASE out = x
          BY <1>18, <5>1 DEF GiveBack
        <5>2. ASSUME NEW y \in Sessions, aside[y] = x
              PROVE  out' = x \/ aside'[y] = x
          BY <1>18, <5>2 DEF GiveBack, OwnerType
        <5> QED
          BY <4>1, <5>1, <5>2
      <4> QED
        BY <4>3, <4>4, <4>5
    <3>2. ASSUME NEW x \in Sessions
          PROVE  /\ pc'[x] \in {"sync", "sync directory", "commit"} => data'[x] = "full"
                 /\ pc'[x] \notin {"judge", "end"} => aside'[x] = NoFile
                 /\ told'[x] = "committed" => pc'[x] = "end"
      BY <1>18, ZenonT(60) DEF GiveBack, Leave, owned, OwnerType, CommitInv
    <3>3. ASSUME NEW x \in Sessions
          PROVE  (pc'[x] = "commit" \/ told'[x] = "committed") /\ out' = x => diskOut' = x
      BY <1>18 DEF GiveBack, Leave, owned, OwnerType, CommitInv
    <3>4. ASSUME NEW x \in Sessions
          PROVE  pc'[x] \in {"sync directory", "commit"} => synced'[x]
      BY <1>18 DEF GiveBack, Leave, owned, OwnerType, CommitInv
    <3> QED
      BY <3>1, <3>2, <3>3, <3>4 DEF CommitInv
  <2> QED
    BY <2>1, <2>2, <2>3, <2>4, <2>5, <2>6
<1>19. CASE ReadEnvelope
  <2>1. OwnerType'
    BY <1>f, <1>19 DEF ReadEnvelope, AgentGoto, OwnerType, Steps
  <2>2. SnapInv'
    BY <1>f, <1>19 DEF ReadEnvelope, AgentGoto, OwnerType, SnapInv
  <2>3. AgentInv'
    <3>1. hand' \in Receipts
      BY <1>19 DEF ReadEnvelope, OwnerType, SignInv
    <3>2. pc'[Agent] = "import"
      BY <1>19 DEF ReadEnvelope, AgentGoto, OwnerType
    <3> QED
      BY <3>1, <3>2 DEF AgentInv
  <2>4. SignInv'
    BY <1>f, <1>19 DEF ReadEnvelope, AgentGoto, OwnerType, SignInv, Writing
  <2>5. HeldInv'
    BY <1>f, <1>19 DEF ReadEnvelope, AgentGoto, OwnerType, SignInv, HeldInv, Writing
  <2>6. CommitInv'
    <3>1. /\ UNCHANGED <<fileVars, told>>
          /\ \A x \in Sessions :
               \/ pc'[x] = pc[x] \/ pc'[x] = "end"
               \/ pc[x] \notin {"judge", "end"} /\ pc'[x] \notin {"sync", "sync directory", "commit"}
      BY <1>19 DEF ReadEnvelope, AgentGoto, OwnerType
    <3> QED
      BY <3>1, CommitFrame
  <2> QED
    BY <2>1, <2>2, <2>3, <2>4, <2>5, <2>6
<1>20. CASE VerifyEnvelope
  <2>1. OwnerType'
    BY <1>f, <1>20 DEF VerifyEnvelope, AgentGoto, OwnerType, Steps
  <2>2. SnapInv'
    BY <1>f, <1>20 DEF VerifyEnvelope, AgentGoto, OwnerType, SnapInv
  <2>3. AgentInv'
    BY <1>f, <1>20 DEF VerifyEnvelope, AgentGoto, OwnerType, AgentInv
  <2>4. SignInv'
    BY <1>f, <1>20 DEF VerifyEnvelope, AgentGoto, OwnerType, SignInv, Writing
  <2>5. HeldInv'
    BY <1>f, <1>20 DEF VerifyEnvelope, AgentGoto, OwnerType, SignInv, HeldInv, Writing
  <2>6. CommitInv'
    <3>1. /\ UNCHANGED <<fileVars, told>>
          /\ \A x \in Sessions :
               \/ pc'[x] = pc[x] \/ pc'[x] = "end"
               \/ pc[x] \notin {"judge", "end"} /\ pc'[x] \notin {"sync", "sync directory", "commit"}
      BY <1>20 DEF VerifyEnvelope, AgentGoto, OwnerType
    <3> QED
      BY <3>1, CommitFrame
  <2> QED
    BY <2>1, <2>2, <2>3, <2>4, <2>5, <2>6
<1>21. CASE StoreDecision
  <2>1. OwnerType'
    <3>1. store' \in Receipts \cup {Nothing}
      BY <1>21 DEF StoreDecision, AgentInv
    <3> QED
      BY <1>21, <3>1 DEF StoreDecision, AgentGoto, OwnerType, Steps
  <2>2. SnapInv'
    BY <1>f, <1>21 DEF StoreDecision, AgentGoto, OwnerType, SnapInv
  <2>3. AgentInv'
    BY <1>f, <1>21 DEF StoreDecision, AgentGoto, OwnerType, AgentInv
  <2>4. SignInv'
    BY <1>f, <1>21 DEF StoreDecision, AgentGoto, OwnerType, SignInv, Writing
  <2>5. HeldInv'
    BY <1>f, <1>21 DEF StoreDecision, AgentGoto, OwnerType, SignInv, HeldInv, Writing
  <2>6. CommitInv'
    <3>1. /\ UNCHANGED <<fileVars, told>>
          /\ \A x \in Sessions :
               \/ pc'[x] = pc[x] \/ pc'[x] = "end"
               \/ pc[x] \notin {"judge", "end"} /\ pc'[x] \notin {"sync", "sync directory", "commit"}
      BY <1>21 DEF StoreDecision, AgentGoto, OwnerType
    <3> QED
      BY <3>1, CommitFrame
  <2> QED
    BY <2>1, <2>2, <2>3, <2>4, <2>5, <2>6
<1>22. CASE ReadStoredRequest
  <2>1. OwnerType'
    BY <1>f, <1>22 DEF ReadStoredRequest, AgentGoto, OwnerType, Steps
  <2>2. SnapInv'
    BY <1>f, <1>22 DEF ReadStoredRequest, AgentGoto, OwnerType, SnapInv
  <2>3. AgentInv'
    <3>1. pc'[Agent] = "verify contract" /\ UNCHANGED <<files, store, hand>>
      BY <1>22 DEF ReadStoredRequest, AgentGoto, OwnerType
    <3>2. got'[Agent].request = files.request
      BY <1>22 DEF ReadStoredRequest, OwnerType
    <3>3. store # Nothing /\ files.request.val = store.files.request /\ files.request \in FileStates
      BY <1>22 DEF ReadStoredRequest, OwnerType
    <3>4. store.files = Tree => met'
      BY <1>22, <3>3 DEF ReadStoredRequest, Signed
    <3> QED
      BY <1>f, <3>1, <3>2, <3>3, <3>4 DEF AgentInv, Behind
  <2>4. SignInv'
    BY <1>f, <1>22 DEF ReadStoredRequest, AgentGoto, OwnerType, SignInv, Writing
  <2>5. HeldInv'
    BY <1>f, <1>22 DEF ReadStoredRequest, AgentGoto, OwnerType, SignInv, HeldInv, Writing
  <2>6. CommitInv'
    <3>1. /\ UNCHANGED <<fileVars, told>>
          /\ \A x \in Sessions :
               \/ pc'[x] = pc[x] \/ pc'[x] = "end"
               \/ pc[x] \notin {"judge", "end"} /\ pc'[x] \notin {"sync", "sync directory", "commit"}
      BY <1>22 DEF ReadStoredRequest, AgentGoto, OwnerType
    <3> QED
      BY <3>1, CommitFrame
  <2> QED
    BY <2>1, <2>2, <2>3, <2>4, <2>5, <2>6
<1>23. CASE ReadStoredAssumptions
  <2>1. OwnerType'
    BY <1>f, <1>23 DEF ReadStoredAssumptions, AgentGoto, OwnerType, Steps
  <2>2. SnapInv'
    BY <1>f, <1>23, ZenonT(60) DEF ReadStoredAssumptions, AgentGoto, OwnerType, SnapInv
  <2>3. AgentInv'
    <3>1. pc'[Agent] = "verify recheck" /\ UNCHANGED <<files, store, hand, met>>
      BY <1>23 DEF ReadStoredAssumptions, AgentGoto, OwnerType
    <3>2. got'[Agent].request = got[Agent].request
      BY <1>23 DEF ReadStoredAssumptions, OwnerType
    <3>3. /\ store # Nothing /\ (store.files = Tree => met)
          /\ got[Agent].request \in FileStates /\ Behind(got[Agent].request, files.request)
          /\ got[Agent].request.val = store.files.request
      BY <1>23 DEF ReadStoredAssumptions, AgentInv
    <3>4. store.files.contract = files.contract.val
      BY <1>23 DEF ReadStoredAssumptions
    <3>5. store.files \in [Files -> Versions]
      BY <3>3 DEF OwnerType, Receipts
    <3>6. got[Agent].request = files.request => store.files = Tree
      BY <3>3, <3>4, <3>5 DEF Tree
    <3> QED
      BY <1>f, <3>1, <3>2, <3>3, <3>6 DEF AgentInv
  <2>4. SignInv'
    BY <1>f, <1>23 DEF ReadStoredAssumptions, AgentGoto, OwnerType, SignInv, Writing
  <2>5. HeldInv'
    BY <1>f, <1>23 DEF ReadStoredAssumptions, AgentGoto, OwnerType, SignInv, HeldInv, Writing
  <2>6. CommitInv'
    <3>1. /\ UNCHANGED <<fileVars, told>>
          /\ \A x \in Sessions :
               \/ pc'[x] = pc[x] \/ pc'[x] = "end"
               \/ pc[x] \notin {"judge", "end"} /\ pc'[x] \notin {"sync", "sync directory", "commit"}
      BY <1>23 DEF ReadStoredAssumptions, AgentGoto, OwnerType
    <3> QED
      BY <3>1, CommitFrame
  <2> QED
    BY <2>1, <2>2, <2>3, <2>4, <2>5, <2>6
<1>24. CASE RecheckStoredRequest
  <2>1. OwnerType'
    BY <1>f, <1>24 DEF RecheckStoredRequest, AgentGoto, unchanged, OwnerType, Steps
  <2>2. SnapInv'
    BY <1>f, <1>24, ZenonT(60) DEF RecheckStoredRequest, AgentGoto, unchanged, OwnerType, SnapInv
  <2>3. AgentInv'
    BY <1>f, <1>24 DEF RecheckStoredRequest, AgentGoto, unchanged, OwnerType, AgentInv
  <2>4. SignInv'
    BY <1>f, <1>24 DEF RecheckStoredRequest, AgentGoto, unchanged, OwnerType, SignInv, Writing
  <2>5. HeldInv'
    BY <1>f, <1>24 DEF RecheckStoredRequest, AgentGoto, unchanged, OwnerType, SignInv, HeldInv, Writing
  <2>6. CommitInv'
    <3>1. /\ UNCHANGED <<fileVars, told>>
          /\ \A x \in Sessions :
               \/ pc'[x] = pc[x] \/ pc'[x] = "end"
               \/ pc[x] \notin {"judge", "end"} /\ pc'[x] \notin {"sync", "sync directory", "commit"}
      BY <1>24 DEF RecheckStoredRequest, AgentGoto, unchanged, OwnerType
    <3> QED
      BY <3>1, CommitFrame
  <2> QED
    BY <2>1, <2>2, <2>3, <2>4, <2>5, <2>6
<1>25. CASE Verified
  <2>1. OwnerType'
    BY <1>f, <1>25 DEF Verified, AgentGoto, unchanged, OwnerType, Steps
  <2>2. SnapInv'
    BY <1>f, <1>25 DEF Verified, AgentGoto, unchanged, OwnerType, SnapInv
  <2>3. AgentInv'
    BY <1>f, <1>25 DEF Verified, AgentGoto, unchanged, OwnerType, AgentInv
  <2>4. SignInv'
    BY <1>f, <1>25 DEF Verified, AgentGoto, unchanged, OwnerType, SignInv, Writing
  <2>5. HeldInv'
    BY <1>f, <1>25 DEF Verified, AgentGoto, unchanged, OwnerType, SignInv, HeldInv, Writing
  <2>6. CommitInv'
    <3>1. /\ UNCHANGED <<fileVars, told>>
          /\ \A x \in Sessions :
               \/ pc'[x] = pc[x] \/ pc'[x] = "end"
               \/ pc[x] \notin {"judge", "end"} /\ pc'[x] \notin {"sync", "sync directory", "commit"}
      BY <1>25 DEF Verified, AgentGoto, unchanged, OwnerType
    <3> QED
      BY <3>1, CommitFrame
  <2> QED
    BY <2>1, <2>2, <2>3, <2>4, <2>5, <2>6
<1>26. CASE AgentEnds
  <2>1. OwnerType'
    BY <1>f, <1>26 DEF AgentEnds, Leave, OwnerType, Steps
  <2>2. SnapInv'
    BY <1>f, <1>26 DEF AgentEnds, Leave, OwnerType, SnapInv
  <2>3. AgentInv'
    BY <1>f, <1>26 DEF AgentEnds, Leave, OwnerType, AgentInv
  <2>4. SignInv'
    BY <1>f, <1>26 DEF AgentEnds, Leave, OwnerType, SignInv, Writing
  <2>5. HeldInv'
    BY <1>f, <1>26 DEF AgentEnds, Leave, OwnerType, SignInv, HeldInv, Writing
  <2>6. CommitInv'
    <3>1. /\ UNCHANGED <<fileVars, told>>
          /\ \A x \in Sessions :
               \/ pc'[x] = pc[x] \/ pc'[x] = "end"
               \/ pc[x] \notin {"judge", "end"} /\ pc'[x] \notin {"sync", "sync directory", "commit"}
      BY <1>26 DEF AgentEnds, Leave, OwnerType
    <3> QED
      BY <3>1, CommitFrame
  <2> QED
    BY <2>1, <2>2, <2>3, <2>4, <2>5, <2>6
<1>27. CASE Edit
  <2> DEFINE moved(f, v) == [Tree EXCEPT ![f] = v]
  <2>a. PICK f \in Files, v \in Versions :
          /\ files' = [files EXCEPT ![f] = [val |-> v, gen |-> files[f].gen + 1]]
          /\ ever' = ever \cup {moved(f, v)}
          /\ Note(moved(f, v), trust.key)
          /\ met' = (met \/ (pc[Agent] # "idle" /\ Signed(moved(f, v))))
          /\ UNCHANGED <<trust, cardVars, fileVars, pc, told, store, hand>>
    BY <1>27 DEF Edit
  <2>b. files' \in [Files -> FileStates]
    BY <2>a DEF OwnerType, FileStates
  <2>c. Tree' = moved(f, v)
    BY <2>a DEF OwnerType, FileStates, Tree
  <2>d. \A g \in Files, a \in FileStates : Behind(a, files[g]) => Behind(a, files'[g])
    BY <2>a DEF OwnerType, FileStates, Behind
  <2>e. \A g \in Files, a \in FileStates :
          Behind(a, files[g]) /\ a = files'[g] => files'[g] = files[g]
    BY <2>a DEF OwnerType, FileStates, Behind
  <2> HIDE DEF moved
  <2>1. OwnerType'
    <3>1. after' \in [Sessions -> SUBSET {"files", "key"}]
      BY <2>a DEF Note, Holding, OwnerType
    <3> QED
      BY <2>a, <2>b, <3>1 DEF OwnerType
  <2>2. SnapInv'
    <3>1. Tree' \in ever' /\ ever \subseteq ever'
      BY <2>a, <2>c
    <3>2. UNCHANGED <<pc, got, card, shown>>
      BY <2>a
    <3>3. ASSUME NEW x \in Sessions, pc[x] \in {"assume", "recheck request"}
          PROVE  /\ got[x].request \in FileStates /\ Behind(got[x].request, files'.request)
                 /\ got[x].request = files'.request => got[x].request = files.request
      BY <2>d, <2>e, <3>3 DEF SnapInv
    <3> QED
      BY <3>1, <3>2, <3>3 DEF SnapInv
  <2>3. AgentInv'
    <3>1. UNCHANGED <<pc, got, store, hand>> /\ (met => met')
      BY <2>a
    <3>2. pc[Agent] # "idle" /\ store # Nothing /\ store.files = Tree' => met'
      BY <2>a, <2>c DEF Signed
    <3>3. pc[Agent] \in {"verify contract", "verify recheck"} =>
            /\ got[Agent].request \in FileStates /\ Behind(got[Agent].request, files'.request)
            /\ got[Agent].request = files'.request => got[Agent].request = files.request
      BY <2>d, <2>e DEF AgentInv
    <3> QED
      BY <3>1, <3>2, <3>3 DEF AgentInv
  <2>4. SignInv'
    <3>1. UNCHANGED <<pc, card, shown, choice, receipt, data>>
      BY <2>a
    <3> QED
      BY <3>1 DEF SignInv
  <2>5. HeldInv'
    <3>1. UNCHANGED <<pc, receipt, data, trust>>
      BY <2>a
    <3>2. ASSUME NEW x \in Sessions, receipt[x] # Nothing
          PROVE  after'[x] = after[x] \cup Holding(receipt[x], Tree', trust'.key)
      BY <2>a, <2>c, <3>2 DEF Note
    <3>3. ASSUME NEW x \in Sessions, receipt[x] # Nothing
          PROVE  /\ after[x] \subseteq after'[x] /\ after'[x] \subseteq {"files", "key"}
                 /\ receipt[x].files = Tree' => "files" \in after'[x]
                 /\ receipt[x].key = trust'.key => "key" \in after'[x]
      BY <3>2, <3>3 DEF Holding, OwnerType
    <3> QED
      BY <3>1, <3>3 DEF HeldInv, SignInv, Writing
  <2>6. CommitInv'
    <3>1. /\ UNCHANGED <<fileVars, told>>
          /\ \A x \in Sessions :
               \/ pc'[x] = pc[x] \/ pc'[x] = "end"
               \/ pc[x] \notin {"judge", "end"} /\ pc'[x] \notin {"sync", "sync directory", "commit"}
      BY <1>27 DEF Edit, Move, Note, OwnerType
    <3> QED
      BY <3>1, CommitFrame
  <2> QED
    BY <2>1, <2>2, <2>3, <2>4, <2>5, <2>6
<1>28. CASE ChangeTrust
  <2>1. OwnerType'
    <3>1. trust' \in [key : Keys, aud : Audiences]
      BY <1>28 DEF ChangeTrust, OwnerType
    <3>2. after' \in [Sessions -> SUBSET {"files", "key"}]
      BY <1>28 DEF ChangeTrust, Note, Holding, OwnerType
    <3> QED
      BY <1>28, <3>1, <3>2 DEF ChangeTrust, OwnerType
  <2>2. SnapInv'
    BY <1>f, <1>28 DEF ChangeTrust, Move, Note, OwnerType, SnapInv
  <2>3. AgentInv'
    BY <1>f, <1>28 DEF ChangeTrust, Move, Note, OwnerType, AgentInv
  <2>4. SignInv'
    BY <1>f, <1>28 DEF ChangeTrust, Move, Note, OwnerType, SignInv, Writing
  <2>5. HeldInv'
    BY <1>f, <1>28, ZenonT(60) DEF ChangeTrust, Move, Note, Holding, OwnerType, SignInv, HeldInv, Writing
  <2>6. CommitInv'
    <3>1. /\ UNCHANGED <<fileVars, told>>
          /\ \A x \in Sessions :
               \/ pc'[x] = pc[x] \/ pc'[x] = "end"
               \/ pc[x] \notin {"judge", "end"} /\ pc'[x] \notin {"sync", "sync directory", "commit"}
      BY <1>28 DEF ChangeTrust, Move, Note, OwnerType
    <3> QED
      BY <3>1, CommitFrame
  <2> QED
    BY <2>1, <2>2, <2>3, <2>4, <2>5, <2>6
<1>29. CASE ClearByHand
  <2>1. OwnerType'
    BY <1>f, <1>29 DEF ClearByHand, Move, OwnerType, Steps
  <2>2. SnapInv'
    BY <1>f, <1>29 DEF ClearByHand, Move, OwnerType, SnapInv
  <2>3. AgentInv'
    BY <1>f, <1>29 DEF ClearByHand, Move, OwnerType, AgentInv
  <2>4. SignInv'
    BY <1>f, <1>29 DEF ClearByHand, Move, OwnerType, SignInv, Writing
  <2>5. HeldInv'
    BY <1>f, <1>29 DEF ClearByHand, Move, OwnerType, SignInv, HeldInv, Writing
  <2>6. CommitInv'
    <3>1. CommittedStays'
      BY <1>29 DEF ClearByHand, Move, OwnerType, CommitInv, CommittedStays
    <3>2. ASSUME NEW x \in Sessions
          PROVE  /\ pc'[x] \in {"sync", "sync directory", "commit"} => data'[x] = "full"
                 /\ pc'[x] \notin {"judge", "end"} => aside'[x] = NoFile
                 /\ told'[x] = "committed" => pc'[x] = "end"
      BY <1>29 DEF ClearByHand, Move, OwnerType, CommitInv
    <3>3. ASSUME NEW x \in Sessions
          PROVE  (pc'[x] = "commit" \/ told'[x] = "committed") /\ out' = x => diskOut' = x
      BY <1>29 DEF ClearByHand, Move, OwnerType, CommitInv
    <3>4. ASSUME NEW x \in Sessions
          PROVE  pc'[x] \in {"sync directory", "commit"} => synced'[x]
      BY <1>29 DEF ClearByHand, Move, OwnerType, CommitInv
    <3> QED
      BY <3>1, <3>2, <3>3, <3>4 DEF CommitInv
  <2> QED
    BY <2>1, <2>2, <2>3, <2>4, <2>5, <2>6
<1>30. CASE PowerLoss
  <2>a. Leave(Readers) /\ UNCHANGED <<files, trust, ever, synced, cleared, told, after, store>>
    BY <1>30 DEF PowerLoss
  <2>b. PICK lost \in SUBSET {x \in Sessions : data[x] = "full" /\ ~synced[x]} :
          data' = [x \in Sessions |-> IF x \in lost THEN "torn" ELSE data[x]]
    BY <1>30 DEF PowerLoss
  <2>1. OwnerType'
    <3>1. data' \in [Sessions -> {"none", "torn", "full"}]
      BY <2>b DEF OwnerType
    <3>2. /\ out' \in Sessions \cup {NoFile} /\ diskOut' \in Sessions \cup {NoFile}
          /\ aside' \in [Sessions -> Sessions \cup {NoFile}]
      BY <1>30 DEF PowerLoss, OwnerType
    <3>3. pc' \in [Readers -> Steps] /\ DOMAIN got' = Readers
      BY <2>a DEF Leave, OwnerType, Steps
    <3>4. /\ card' \in [Sessions -> Cards \cup {Nothing}]
          /\ shown' \in [Sessions -> Cards \cup {Nothing}]
          /\ choice' \in [Sessions -> {"A", "B", Nothing}]
          /\ receipt' = receipt
      BY <2>a DEF Leave, OwnerType
    <3> QED
      BY <2>a, <3>1, <3>2, <3>3, <3>4 DEF OwnerType
  <2>2. SnapInv'
    BY <1>f, <1>30, ZenonT(60) DEF PowerLoss, Leave, Move, OwnerType, SnapInv
  <2>3. AgentInv'
    BY <1>f, <1>30 DEF PowerLoss, Leave, Move, OwnerType, AgentInv
  <2>4. SignInv'
    <3>1. \A x \in Sessions : data'[x] # "none" => data[x] # "none"
      BY <2>b
    <3>2. \A x \in Sessions :
            /\ pc'[x] = "end" /\ receipt'[x] = receipt[x]
            /\ receipt[x] # Nothing => shown'[x] = shown[x] /\ choice'[x] = choice[x]
      BY <2>a DEF Leave
    <3> QED
      BY <3>1, <3>2, ZenonT(60) DEF SignInv, Writing
  <2>5. HeldInv'
    <3>1. \A x \in Sessions : data'[x] # "none" => data[x] # "none"
      BY <2>b
    <3>2. \A x \in Sessions : pc'[x] = "end" /\ receipt'[x] = receipt[x]
      BY <2>a DEF Leave
    <3> QED
      BY <1>f, <2>a, <3>1, <3>2 DEF HeldInv, Writing
  <2>6. CommitInv'
    <3>1. CommittedStays'
      <4> SUFFICES ASSUME NEW x \in Sessions, told'[x] = "committed", x \notin cleared'
                    PROVE  /\ data'[x] = "full" /\ synced'[x]
                           /\ out' = x \/ \E y \in Sessions : aside'[y] = x
        BY DEF CommittedStays
      <4>1. /\ told[x] = "committed" /\ pc[x] = "end" /\ data[x] = "full"
            /\ out = x \/ \E y \in Sessions : aside[y] = x
        BY <1>30 DEF PowerLoss, CommitInv, CommittedStays
      <4>2. synced[x] = TRUE
        BY <1>30, <4>1 DEF PowerLoss, OwnerType, CommitInv, CommittedStays
      <4>3. data'[x] = "full"
        BY <1>30, <4>1, <4>2 DEF PowerLoss, OwnerType
      <4>4. synced'[x]
        BY <1>30, <4>2 DEF PowerLoss, OwnerType
      <4>5. out' = x \/ \E y \in Sessions : aside'[y] = x
        <5>1. CASE out = x
          BY <1>30, <4>1, <5>1 DEF PowerLoss, CommitInv
        <5>2. ASSUME NEW y \in Sessions, aside[y] = x
              PROVE  out' = x \/ aside'[y] = x
          BY <1>30, <5>2 DEF PowerLoss, OwnerType
        <5> QED
          BY <4>1, <5>1, <5>2
      <4> QED
        BY <4>3, <4>4, <4>5
    <3>2. ASSUME NEW x \in Sessions
          PROVE  /\ pc'[x] \in {"sync", "sync directory", "commit"} => data'[x] = "full"
                 /\ pc'[x] \notin {"judge", "end"} => aside'[x] = NoFile
                 /\ told'[x] = "committed" => pc'[x] = "end"
      BY <1>30 DEF PowerLoss, Leave, Move, OwnerType, CommitInv
    <3>3. ASSUME NEW x \in Sessions
          PROVE  (pc'[x] = "commit" \/ told'[x] = "committed") /\ out' = x => diskOut' = x
      BY <1>30 DEF PowerLoss, Leave, Move, OwnerType, CommitInv
    <3>4. ASSUME NEW x \in Sessions
          PROVE  pc'[x] \in {"sync directory", "commit"} => synced'[x]
      BY <1>30 DEF PowerLoss, Leave, Move, OwnerType, CommitInv
    <3> QED
      BY <3>1, <3>2, <3>3, <3>4 DEF CommitInv
  <2> QED
    BY <2>1, <2>2, <2>3, <2>4, <2>5, <2>6
<1>31. ASSUME NEW s \in Sessions,
             ReportExisting(s) \/ Decline(s) \/ Fails(s) \/ NothingToTake(s) \/ Killed(s)
      PROVE  OwnerInv'
  <2>1. Leave({s}) /\ UNCHANGED <<repoVars, fileVars, after, agentVars>>
    BY <1>31 DEF ReportExisting, Decline, Fails, NothingToTake, Killed
  <2>2. \/ told' = told
        \/ told' = [told EXCEPT ![s] = "existing"]
        \/ told' = [told EXCEPT ![s] = "declined"]
    BY <1>31 DEF ReportExisting, Decline, Fails, NothingToTake, Killed
  <2>3. /\ told' \in [Sessions -> {"committed", "existing", "declined", Nothing}]
        /\ \A x \in Sessions : told'[x] = "committed" => told[x] = "committed"
    BY <2>2 DEF OwnerType
  <2> QED
    BY <2>1, <2>3, LeaveKeepsInv
<1>32. CASE UNCHANGED vars
  <2>1. OwnerType'
    BY <1>32 DEF vars, OwnerType
  <2>2. SnapInv'
    BY <1>f, <1>32 DEF vars, SnapInv
  <2>3. AgentInv'
    BY <1>f, <1>32 DEF vars, AgentInv
  <2>4. SignInv'
    BY <1>32 DEF vars, SignInv
  <2>5. HeldInv'
    BY <1>f, <1>32 DEF vars, HeldInv
  <2>6. CommitInv'
    BY <1>32, CommitFrame DEF vars
  <2> QED
    BY <2>1, <2>2, <2>3, <2>4, <2>5, <2>6
<1> QED
  BY <1>1, <1>2, <1>3, <1>4, <1>5, <1>6, <1>7, <1>8, <1>9, <1>10, <1>11, <1>12, <1>13, <1>14, <1>15, <1>16, <1>17, <1>18, <1>19, <1>20, <1>21, <1>22, <1>23, <1>24, <1>25, <1>26, <1>27, <1>28, <1>29, <1>30, <1>31, <1>32 DEF Next

(* OwnerInv is an invariant of the specification.                           *)
LEMMA OwnerInvariant == Spec => []OwnerInv
<1>1. Init => OwnerInv
  <2> SUFFICES ASSUME Init
               PROVE  OwnerInv
    OBVIOUS
  <2> USE OwnerAssumption DEF Init, Readers, Files
  <2>1. PICK t \in [Files -> Versions] :
          files = [f \in Files |-> [val |-> t[f], gen |-> 0]] /\ ever = {t}
    OBVIOUS
  <2>2. OwnerType
    <3>1. files \in [Files -> FileStates]
      BY <2>1 DEF FileStates
    <3> QED
      BY <3>1 DEF OwnerType, Steps
  <2>3. Tree = t
    BY <2>1 DEF Tree
  <2>4. SnapInv
    BY <2>1, <2>3 DEF SnapInv
  <2>5. AgentInv /\ SignInv /\ HeldInv
    BY DEF AgentInv, SignInv, HeldInv, Writing
  <2>6. CommitInv
    BY DEF CommitInv, CommittedStays
  <2> QED
    BY <2>2, <2>4, <2>5, <2>6 DEF OwnerInv
<1> QED
  BY <1>1, OwnerInvStep, PTL DEF Spec

(* The files on a card the Owner sees were in the repository together, and  *)
(* a stored decision that is reported to hold held at one moment of the      *)
(* call, however the readings and the Agents' writes interleave             *)
(* (FileSetSnapshot, fs_security.py:32).                                    *)
THEOREM SnapshotsWereReal == Spec => []SnapshotsAreReal
<1>1. OwnerInv => SnapshotsAreReal
  BY DEF OwnerInv, SnapInv, AgentInv, SnapshotsAreReal
<1> QED
  BY <1>1, OwnerInvariant, PTL

(* What is signed is what the Owner saw and answered A to                   *)
(* (approve_product_decision, owner_approval.py:846).                       *)
THEOREM OnlyShownIsSigned == Spec => []SignedWasShown
<1>1. OwnerInv => SignedWasShown
  BY DEF OwnerInv, SignInv, SignedWasShown
<1> QED
  BY <1>1, OwnerInvariant, PTL

(* A receipt that is published held once more after its signature           *)
(* (approve_product_decision, owner_approval.py:937).                       *)
THEOREM OvertakenIsNotPublished == Spec => []PublishedStillHeld
<1>1. OwnerInv => PublishedStillHeld
  BY DEF OwnerInv, HeldInv, PublishedStillHeld
<1> QED
  BY <1>1, OwnerInvariant, PTL

(* A receipt reported as durably committed survives every crash and every   *)
(* other session's cleanup (write_new_regular_file, fs_security.py:557).    *)
THEOREM CommittedReceiptStays == Spec => []CommittedStays
<1>1. OwnerInv => CommittedStays
  BY DEF OwnerInv, CommitInv
<1> QED
  BY <1>1, OwnerInvariant, PTL

=============================================================================
