----------------------- MODULE ExternalActionsProofs -----------------------
(***************************************************************************)
(* Proofs about ExternalActions for every number of Agents, actions and     *)
(* requests and all lifetimes.                                              *)
(*                                                                          *)
(* LockInv: the file lock is held exactly in the critical section.          *)
(* CallInv: what its holder has read is still what the store says, and what *)
(* it is about to write is a revision of that, of one row.  ResultInv: what *)
(* an Agent will be answered is a valid row of the request it made.         *)
(* StoreInv and EventInv, on a store nobody edits, then follow from         *)
(* comparing a revision with the rows it replaces.                          *)
(***************************************************************************)
EXTENDS ExternalActions, SequenceTheorems, TLAPS

Resolved == {"completed", "cancelled"}

(* The row is not resolved, or by a receipt of R that fits it.              *)
SoundRow(row, R) ==
    row.status \in Resolved =>
        /\ row.receipt \in R
        /\ row.receipt.action = row.action /\ row.receipt.request = row.request
        /\ row.receipt.status = row.status
        /\ row.created <= row.receipt.at /\ row.receipt.at <= row.expires

Distinct(rows) == \A i, j \in DOMAIN rows : rows[i].action = rows[j].action => i = j

Sound(rows, R) == Distinct(rows) /\ \A i \in DOMAIN rows : SoundRow(rows[i], R)

(* new is old with row i added, or with a pending row i settled.            *)
Revision(old, new, i) ==
    /\ i \in DOMAIN new
    /\ \A j \in DOMAIN old : j \in DOMAIN new /\ (j # i => new[j] = old[j])
    /\ \A j \in DOMAIN new : j # i => j \in DOMAIN old
    /\ i \in DOMAIN old =>
        /\ old[i].status = "pending"
        /\ new[i].action = old[i].action /\ new[i].request = old[i].request
        /\ new[i].expires = old[i].expires
    /\ i \notin DOMAIN old => \A j \in DOMAIN old : old[j].action # new[i].action

LockInv ==
    \A a \in Agents :
        /\ pc[a] \in {"read", "write", "emit"} => lock = a
        /\ lock = a => pc[a] \in {"read", "write", "emit"}

CallInv ==
    /\ DOMAIN result = Agents
    /\ \A a \in Agents :
        /\ pc[a] # "idle" => job[a] \in Job
        /\ pc[a] # "idle" /\ job[a].op = "resolve" => job[a].receipt \in signed
        /\ pc[a] = "read" => data[a] = actions
        /\ pc[a] = "write" => \E i \in DOMAIN data[a] :
            /\ Revision(actions, data[a], i)
            /\ SoundRow(data[a][i], signed)
            /\ result[a].row = data[a][i]
        /\ pc[a] = "emit" => \E i \in DOMAIN actions : result[a].row = actions[i]

ResultInv ==
    \A a \in Agents :
        pc[a] \in {"write", "emit", "answer"} /\ job[a].op = "need" /\ result[a] # Error =>
            /\ result[a].row \in Row /\ RowValid(result[a].row)
            /\ result[a].row.action = job[a].action /\ result[a].row.request = job[a].request

StoreInv == edits = 0 => Sound(actions, signed)

(* Every event is about a row with that outcome, or about one that was new. *)
EventsFit(rows) ==
    \A e \in events : \E i \in DOMAIN rows :
        rows[i].action = e[2] /\ (e[1] = "pending" \/ e[1] = rows[i].status)

Announced(row) ==
    \/ <<row.status, row.action>> \in events
    \/ lock # NoOne /\ pc[lock] = "emit" /\ result[lock].row = row

EventInv ==
    edits = 0 =>
        /\ EventsFit(actions)
        /\ ~died => \A i \in DOMAIN actions : Announced(actions[i])

ActionsInv == TypeOK /\ LockInv /\ CallInv /\ ResultInv /\ StoreInv /\ EventInv /\ ToldOnlyWhatWasSigned

-----------------------------------------------------------------------------
(* A revision of a sound store that settles or adds a sound row is sound.   *)
LEMMA RevisionIsSound ==
    ASSUME NEW old, NEW new, NEW i, NEW R,
           Sound(old, R), Revision(old, new, i), SoundRow(new[i], R)
    PROVE  Sound(new, R)
<1>1. Distinct(new)
  BY DEF Sound, Distinct, Revision
<1>2. \A j \in DOMAIN new : SoundRow(new[j], R)
  BY DEF Sound, Revision
<1> QED
  BY <1>1, <1>2 DEF Sound

(* More receipts make no store unsound.                                     *)
LEMMA SoundGrows ==
    ASSUME NEW rows, NEW R, NEW Q, R \subseteq Q
    PROVE  /\ Sound(rows, R) => Sound(rows, Q)
           /\ \A row : SoundRow(row, R) => SoundRow(row, Q)
BY DEF Sound, SoundRow

(* Changing the rows in memory under the lock keeps the invariant if the    *)
(* change is a revision.                                                    *)
LEMMA StageKeepsInv ==
    ASSUME ActionsInv, NEW a \in Agents, NEW rows \in Seq(Row), NEW i, NEW made,
           pc[a] = "read", Stage(a, rows, i, made),
           Revision(actions, rows, i), SoundRow(rows[i], signed),
           job[a].op = "need" =>
             /\ rows[i] \in Row /\ RowValid(rows[i])
             /\ rows[i].action = job[a].action /\ rows[i].request = job[a].request
    PROVE  ActionsInv'
<1> USE ActionsAssumption DEF ActionsInv, world, Goto
<1>a. /\ data' = [data EXCEPT ![a] = rows]
      /\ result' = [result EXCEPT ![a] = [row |-> rows[i], made |-> made]]
      /\ pc' = [pc EXCEPT ![a] = "write"]
      /\ UNCHANGED <<actions, lock, events, signed, now, edits, job, told, died>>
      /\ i \in DOMAIN rows
  BY DEF Stage, Revision
<1>b. /\ pc'[a] = "write" /\ data'[a] = rows /\ result'[a].row = rows[i]
      /\ \A b \in Agents : b # a => pc'[b] = pc[b] /\ data'[b] = data[b] /\ result'[b] = result[b]
  BY <1>a DEF TypeOK, CallInv
<1>1. TypeOK'
  BY <1>a DEF Revision, TypeOK
<1>2. LockInv'
  BY <1>a DEF Revision, TypeOK, LockInv
<1>3. CallInv'
  <2>1. DOMAIN result' = Agents
    BY <1>a DEF CallInv
  <2>2. \E j \in DOMAIN data'[a] :
          /\ Revision(actions', data'[a], j) /\ SoundRow(data'[a][j], signed')
          /\ result'[a].row = data'[a][j]
    BY <1>a, <1>b
  <2> QED
    BY <1>a, <1>b, <2>1, <2>2 DEF CallInv
<1>4. ResultInv'
  BY <1>a, <1>b DEF ResultInv
<1>5. StoreInv'
  BY <1>a DEF Revision, StoreInv
<1>6. EventInv'
  BY <1>a DEF Revision, TypeOK, LockInv, EventInv, EventsFit, Announced
<1>7. ToldOnlyWhatWasSigned'
  BY <1>a DEF Revision, ToldOnlyWhatWasSigned
<1> QED
  BY <1>1, <1>2, <1>3, <1>4, <1>5, <1>6, <1>7

(* A call that returns or raises under the lock keeps the invariant if the  *)
(* row it returns is valid and the requested one.                           *)
LEMMA ReturnKeepsInv ==
    ASSUME ActionsInv, NEW a \in Agents, NEW res,
           pc[a] = "read", Return(a, res),
           job[a].op = "need" /\ res # Error =>
             /\ res.row \in Row /\ RowValid(res.row)
             /\ res.row.action = job[a].action /\ res.row.request = job[a].request
    PROVE  ActionsInv'
<1> USE ActionsAssumption DEF ActionsInv, world, Goto
<1>a. /\ lock' = NoOne
      /\ data' = [data EXCEPT ![a] = <<>>]
      /\ result' = [result EXCEPT ![a] = res]
      /\ pc' = [pc EXCEPT ![a] = "answer"]
      /\ UNCHANGED <<actions, events, signed, now, edits, job, told, died>>
  BY DEF Return
<1>b. /\ pc'[a] = "answer" /\ result'[a] = res
      /\ \A b \in Agents : b # a => pc'[b] = pc[b] /\ result'[b] = result[b]
  BY <1>a DEF TypeOK, CallInv
<1>1. TypeOK'
  BY <1>a DEF Return, TypeOK
<1>2. LockInv'
  BY <1>a DEF Return, TypeOK, LockInv
<1>3. CallInv'
  BY <1>a DEF Return, TypeOK, CallInv
<1>4. ResultInv'
  BY <1>a, <1>b DEF ResultInv
<1>5. StoreInv'
  BY <1>a DEF Return, StoreInv
<1>6. EventInv'
  BY <1>a DEF Return, TypeOK, LockInv, EventInv, EventsFit, Announced
<1>7. ToldOnlyWhatWasSigned'
  BY <1>a DEF Return, ToldOnlyWhatWasSigned
<1> QED
  BY <1>1, <1>2, <1>3, <1>4, <1>5, <1>6, <1>7

(* Every step of an Agent, the owner, the clock and an editor preserves     *)
(* ActionsInv.                                                              *)
LEMMA ActionsInvStep ==
    ASSUME ActionsInv, [Next]_vars
    PROVE  ActionsInv'
<1> USE ActionsAssumption DEF ActionsInv, world, Goto
<1>1. ASSUME NEW a \in Agents, NEW x \in Actions, NEW q \in Requests, Need(a, x, q)
      PROVE  ActionsInv'
  <2>a. /\ job'[a] \in Job /\ job'[a].op = "need"
        /\ pc[a] = "idle" /\ pc'[a] = "wait"
        /\ \A b \in Agents : b # a => job'[b] = job[b] /\ pc'[b] = pc[b]
    BY <1>1 DEF Need, TypeOK, Job
  <2>1. TypeOK'
    <3>1. job' \in [Agents -> Job \cup {NoJob}]
      BY <1>1, <2>a DEF Need, TypeOK
    <3> QED
      BY <1>1, <3>1 DEF Need, TypeOK
  <2>2. LockInv'
    BY <1>1 DEF Need, TypeOK, LockInv
  <2>3. CallInv'
    <3>1. UNCHANGED <<actions, data, result, signed>>
      BY <1>1 DEF Need
    <3> QED
      BY <2>a, <3>1 DEF CallInv
  <2>4. ResultInv'
    BY <1>1 DEF Need, TypeOK, ResultInv
  <2>5. StoreInv'
    BY <1>1 DEF Need, StoreInv
  <2>6. EventInv'
    BY <1>1 DEF Need, TypeOK, LockInv, EventInv, EventsFit, Announced
  <2>7. ToldOnlyWhatWasSigned'
    BY <1>1 DEF Need, ToldOnlyWhatWasSigned
  <2> QED
    BY <2>1, <2>2, <2>3, <2>4, <2>5, <2>6, <2>7
<1>2. ASSUME NEW a \in Agents, NEW r \in signed, ImportResolution(a, r)
      PROVE  ActionsInv'
  <2>a. /\ job'[a] \in Job /\ job'[a].receipt \in signed
        /\ pc[a] = "idle" /\ pc'[a] = "wait"
        /\ \A b \in Agents : b # a => job'[b] = job[b] /\ pc'[b] = pc[b]
    BY <1>2 DEF ImportResolution, EnvelopeValid, TypeOK, Job
  <2>1. TypeOK'
    <3>1. job' \in [Agents -> Job \cup {NoJob}]
      BY <1>2, <2>a DEF ImportResolution, TypeOK
    <3> QED
      BY <1>2, <3>1 DEF ImportResolution, TypeOK
  <2>2. LockInv'
    BY <1>2 DEF ImportResolution, TypeOK, LockInv
  <2>3. CallInv'
    <3>1. UNCHANGED <<actions, data, result, signed>>
      BY <1>2 DEF ImportResolution
    <3> QED
      BY <2>a, <3>1 DEF CallInv
  <2>4. ResultInv'
    BY <1>2 DEF ImportResolution, TypeOK, ResultInv
  <2>5. StoreInv'
    BY <1>2 DEF ImportResolution, StoreInv
  <2>6. EventInv'
    BY <1>2 DEF ImportResolution, TypeOK, LockInv, EventInv, EventsFit, Announced
  <2>7. ToldOnlyWhatWasSigned'
    BY <1>2 DEF ImportResolution, ToldOnlyWhatWasSigned
  <2> QED
    BY <2>1, <2>2, <2>3, <2>4, <2>5, <2>6, <2>7
<1>3. ASSUME NEW a \in Agents, LockAndLoad(a)
      PROVE  ActionsInv'
  <2>1. TypeOK'
    BY <1>3 DEF LockAndLoad, TypeOK
  <2>2. LockInv'
    BY <1>3 DEF LockAndLoad, TypeOK, LockInv
  <2>3. CallInv'
    BY <1>3 DEF LockAndLoad, TypeOK, CallInv
  <2>4. ResultInv'
    BY <1>3 DEF LockAndLoad, TypeOK, ResultInv
  <2>5. StoreInv'
    BY <1>3 DEF LockAndLoad, StoreInv
  <2>6. EventInv'
    BY <1>3 DEF LockAndLoad, TypeOK, LockInv, EventInv, EventsFit, Announced
  <2>7. ToldOnlyWhatWasSigned'
    BY <1>3 DEF LockAndLoad, ToldOnlyWhatWasSigned
  <2> QED
    BY <2>1, <2>2, <2>3, <2>4, <2>5, <2>6, <2>7
<1>4. ASSUME NEW a \in Agents, EnqueueNew(a)
      PROVE  ActionsInv'
  <2> DEFINE row == NewRow(job[a].action, job[a].request)
            rows == Append(actions, row)
            i == Len(actions) + 1
  <2>1. /\ pc[a] = "read" /\ data[a] = actions /\ actions \in Seq(Row)
        /\ job[a].op = "need" /\ job[a].action \in Actions /\ job[a].request \in Requests
    BY <1>4 DEF EnqueueNew, Enqueuing, CallInv, TypeOK, Job
  <2>2. Stage(a, rows, i, TRUE) /\ Matches(actions, job[a].action) = {}
    BY <1>4, <2>1 DEF EnqueueNew
  <2>3. row \in Row /\ RowValid(row) /\ row.status = "pending"
    BY <2>1, SMTT(30) DEF NewRow, Row, Times, Statuses, RowValid, TypeOK
  <2>4. row.action = job[a].action /\ row.request = job[a].request
    BY DEF NewRow
  <2> HIDE DEF row
  <2>5. /\ rows \in Seq(Row) /\ DOMAIN rows = DOMAIN actions \cup {i} /\ i \notin DOMAIN actions
        /\ rows[i] = row /\ \A j \in DOMAIN actions : rows[j] = actions[j]
    BY <2>1, <2>3
  <2>6. \A j \in DOMAIN actions : actions[j].action # row.action
    BY <2>2, <2>4 DEF Matches
  <2> HIDE DEF rows, i
  <2>7. Revision(actions, rows, i)
    BY <2>5, <2>6 DEF Revision
  <2>8. SoundRow(rows[i], signed)
    BY <2>3, <2>5 DEF SoundRow, Resolved
  <2> QED
    BY <2>1, <2>2, <2>3, <2>4, <2>5, <2>7, <2>8, StageKeepsInv
<1>5. ASSUME NEW a \in Agents, ReuseRow(a)
      PROVE  ActionsInv'
  <2>1. /\ pc[a] = "read" /\ data[a] = actions /\ actions \in Seq(Row)
    BY <1>5 DEF ReuseRow, Enqueuing, CallInv, TypeOK
  <2>2. PICK i \in DOMAIN actions :
          Found(a, i) /\ Return(a, [row |-> actions[i], made |-> FALSE])
    BY <1>5, <2>1 DEF ReuseRow
  <2>3. /\ actions[i] \in Row /\ RowValid(actions[i])
        /\ actions[i].action = job[a].action /\ actions[i].request = job[a].request
    BY <2>1, <2>2 DEF Found, EnqueueRefused, StoreValid, Matches
  <2> QED
    BY <2>1, <2>2, <2>3, ReturnKeepsInv
<1>6. ASSUME NEW a \in Agents, ExpireRow(a)
      PROVE  ActionsInv'
  <2>1. /\ pc[a] = "read" /\ data[a] = actions /\ actions \in Seq(Row)
    BY <1>6 DEF ExpireRow, Enqueuing, CallInv, TypeOK
  <2>2. PICK i \in DOMAIN actions :
          /\ Found(a, i) /\ actions[i].status = "pending"
          /\ Stage(a, [actions EXCEPT ![i].status = "expired"], i, FALSE)
    BY <1>6, <2>1 DEF ExpireRow
  <2>3. /\ actions[i] \in Row /\ RowValid(actions[i])
        /\ actions[i].action = job[a].action /\ actions[i].request = job[a].request
    BY <2>1, <2>2 DEF Found, EnqueueRefused, StoreValid, Matches
  <2> DEFINE row == [actions[i] EXCEPT !.status = "expired"]
            rows == [actions EXCEPT ![i] = row]
  <2>4. Stage(a, rows, i, FALSE)
    BY <2>2
  <2>5. /\ row \in Row /\ RowValid(row) /\ row.status = "expired"
        /\ row.action = actions[i].action /\ row.request = actions[i].request
        /\ row.expires = actions[i].expires
    BY <2>2, <2>3 DEF Row, RowValid, Statuses
  <2> HIDE DEF row
  <2>6. rows \in Seq(Row)
    BY <2>1, <2>5, ExceptSeq
  <2>7. DOMAIN rows = DOMAIN actions /\ rows[i] = row /\ \A j \in DOMAIN actions : j # i => rows[j] = actions[j]
    BY <2>1
  <2> HIDE DEF rows
  <2>8. Revision(actions, rows, i)
    BY <2>2, <2>5, <2>7 DEF Revision
  <2>9. SoundRow(rows[i], signed)
    BY <2>5, <2>7 DEF SoundRow, Resolved
  <2> QED
    BY <2>1, <2>3, <2>4, <2>5, <2>6, <2>7, <2>8, <2>9, StageKeepsInv
<1>7. ASSUME NEW a \in Agents, RepeatResolution(a)
      PROVE  ActionsInv'
  <2>1. pc[a] = "read" /\ job[a].op = "resolve"
    BY <1>7 DEF RepeatResolution, Resolving
  <2>2. \E res : Return(a, res)
    BY <1>7 DEF RepeatResolution
  <2> QED
    BY <2>1, <2>2, ReturnKeepsInv
<1>8. ASSUME NEW a \in Agents, ApplyResolution(a)
      PROVE  ActionsInv'
  <2> DEFINE r == job[a].receipt
  <2>1. /\ pc[a] = "read" /\ data[a] = actions /\ actions \in Seq(Row)
        /\ job[a].op = "resolve" /\ r \in signed /\ r \in Receipt
    BY <1>8 DEF ApplyResolution, Resolving, CallInv, TypeOK
  <2>2. ~ResolveRefused(actions, r)
    BY <1>8, <2>1 DEF ApplyResolution
  <2>3. PICK i \in Matches(actions, r.action) :
          /\ ~SettledBy(actions[i], r)
          /\ Stage(a, [actions EXCEPT ![i].status = r.status, ![i].receipt = r], i, FALSE)
    BY <1>8, <2>1 DEF ApplyResolution
  <2> HIDE DEF r
  <2>4. i \in DOMAIN actions /\ actions[i] \in Row /\ actions[i].action = r.action
    BY <2>1, <2>3 DEF Matches
  <2>5. actions[i].request = r.request /\ Resolvable(actions[i], r)
    BY <2>2, <2>3 DEF ResolveRefused
  <2> DEFINE row == [actions[i] EXCEPT !.status = r.status, !.receipt = r]
            rows == [actions EXCEPT ![i] = row]
  <2>6. Stage(a, rows, i, FALSE)
    BY <2>3
  <2>7. /\ row \in Row /\ row.status = r.status /\ row.receipt = r
        /\ row.action = actions[i].action /\ row.request = actions[i].request
        /\ row.created = actions[i].created /\ row.expires = actions[i].expires
    BY <2>1, <2>4 DEF Row, Receipt, Statuses
  <2> HIDE DEF row
  <2>8. rows \in Seq(Row)
    BY <2>1, <2>4, <2>7, ExceptSeq
  <2>9. DOMAIN rows = DOMAIN actions /\ rows[i] = row /\ \A j \in DOMAIN actions : j # i => rows[j] = actions[j]
    BY <2>1, <2>4
  <2> HIDE DEF rows
  <2>10. Revision(actions, rows, i)
    BY <2>4, <2>5, <2>7, <2>9 DEF Revision, Resolvable
  <2>11. SoundRow(rows[i], signed)
    BY <2>1, <2>4, <2>5, <2>7, <2>9 DEF SoundRow, Resolvable
  <2> QED
    BY <2>1, <2>6, <2>8, <2>10, <2>11, StageKeepsInv
<1>9. ASSUME NEW a \in Agents, WriteStore(a)
      PROVE  ActionsInv'
  <2>a. PICK i \in DOMAIN data[a] :
          /\ Revision(actions, data[a], i) /\ SoundRow(data[a][i], signed)
          /\ result[a].row = data[a][i]
    BY <1>9 DEF WriteStore, CallInv
  <2>b. /\ pc[a] = "write" /\ pc'[a] = "emit" /\ actions' = data[a]
        /\ \A b \in Agents : b # a => pc'[b] = pc[b]
        /\ UNCHANGED <<lock, events, signed, edits, job, data, result, died>>
    BY <1>9 DEF WriteStore, TypeOK
  <2>c. lock = a /\ \A b \in Agents : b # a => pc[b] \notin {"read", "write", "emit"}
    BY <2>b DEF LockInv
  <2>1. TypeOK'
    BY <1>9 DEF WriteStore, TypeOK
  <2>2. LockInv'
    BY <1>9 DEF WriteStore, TypeOK, LockInv
  <2>3. CallInv'
    BY <2>a, <2>b, <2>c DEF CallInv
  <2>4. ResultInv'
    BY <1>9 DEF WriteStore, TypeOK, ResultInv
  <2>5. StoreInv'
    BY <2>a, <2>b, RevisionIsSound DEF StoreInv
  <2>6. EventInv'
    <3> SUFFICES ASSUME edits = 0
                 PROVE  /\ EventsFit(actions)'
                        /\ ~died => \A j \in DOMAIN data[a] : Announced(data[a][j])'
      BY <2>b DEF EventInv
    <3>1. EventsFit(actions)'
      <4> SUFFICES ASSUME NEW e \in events
                   PROVE  \E j \in DOMAIN data[a] :
                            data[a][j].action = e[2] /\ (e[1] = "pending" \/ e[1] = data[a][j].status)
        BY <2>b DEF EventsFit
      <4>1. PICK j \in DOMAIN actions :
              actions[j].action = e[2] /\ (e[1] = "pending" \/ e[1] = actions[j].status)
        BY DEF EventInv, EventsFit
      <4> QED
        BY <2>a, <4>1 DEF Revision
    <3>2. ASSUME ~died, NEW j \in DOMAIN data[a], j # i
          PROVE  Announced(data[a][j])'
      <4>1. j \in DOMAIN actions /\ data[a][j] = actions[j]
        BY <2>a, <3>2 DEF Revision
      <4>2. <<actions[j].status, actions[j].action>> \in events
        BY <2>b, <2>c, <3>2, <4>1 DEF EventInv, Announced
      <4> QED
        BY <2>b, <4>1, <4>2 DEF Announced
    <3>3. Announced(data[a][i])'
      BY <2>a, <2>b, <2>c DEF Announced
    <3> QED
      BY <3>1, <3>2, <3>3
  <2>7. ToldOnlyWhatWasSigned'
    BY <1>9 DEF WriteStore, ToldOnlyWhatWasSigned
  <2> QED
    BY <2>1, <2>2, <2>3, <2>4, <2>5, <2>6, <2>7
<1>10. ASSUME NEW a \in Agents, EmitEvent(a)
      PROVE  ActionsInv'
  <2>a. PICK i \in DOMAIN actions : result[a].row = actions[i]
    BY <1>10 DEF EmitEvent, CallInv
  <2>b. /\ pc[a] = "emit" /\ pc'[a] = "answer" /\ lock' = NoOne
        /\ events' = events \cup {<<actions[i].status, actions[i].action>>}
        /\ UNCHANGED <<actions, signed, edits, result, died>>
    BY <1>10, <2>a DEF EmitEvent, TypeOK
  <2>c. lock = a
    BY <2>b DEF LockInv
  <2>1. TypeOK'
    <3>1. actions[i].status \in Statuses /\ actions[i].action \in Actions
      <4>1. actions[i] \in Row
        BY DEF TypeOK
      <4> QED
        BY <4>1 DEF Row
    <3>2. events' \subseteq (Statuses \X Actions)
      BY <2>b, <3>1 DEF TypeOK
    <3> QED
      BY <1>10, <3>2 DEF EmitEvent, TypeOK
  <2>2. LockInv'
    BY <1>10 DEF EmitEvent, TypeOK, LockInv
  <2>3. CallInv'
    BY <1>10 DEF EmitEvent, TypeOK, CallInv
  <2>4. ResultInv'
    BY <1>10 DEF EmitEvent, TypeOK, ResultInv
  <2>5. StoreInv'
    BY <1>10 DEF EmitEvent, StoreInv
  <2>6. EventInv'
    <3> SUFFICES ASSUME edits = 0
                 PROVE  /\ EventsFit(actions)'
                        /\ ~died => \A j \in DOMAIN actions : Announced(actions[j])'
      BY <2>b DEF EventInv
    <3>1. EventsFit(actions)'
      <4>1. \A e \in events : \E j \in DOMAIN actions :
              actions[j].action = e[2] /\ (e[1] = "pending" \/ e[1] = actions[j].status)
        BY DEF EventInv, EventsFit
      <4>2. \A e \in {<<actions[i].status, actions[i].action>>} : \E j \in DOMAIN actions :
              actions[j].action = e[2] /\ (e[1] = "pending" \/ e[1] = actions[j].status)
        OBVIOUS
      <4> QED
        BY <2>b, <4>1, <4>2 DEF EventsFit
    <3>2. ASSUME ~died, NEW j \in DOMAIN actions
          PROVE  <<actions[j].status, actions[j].action>> \in events'
      BY <2>a, <2>b, <2>c, <3>2 DEF EventInv, Announced
    <3> QED
      BY <2>b, <3>2, <3>1 DEF Announced
  <2>7. ToldOnlyWhatWasSigned'
    BY <1>10 DEF EmitEvent, ToldOnlyWhatWasSigned
  <2> QED
    BY <2>1, <2>2, <2>3, <2>4, <2>5, <2>6, <2>7
<1>11. ASSUME NEW a \in Agents, Answer(a)
      PROVE  ActionsInv'
  <2>1. TypeOK'
    BY <1>11 DEF Answer, TypeOK
  <2>2. LockInv'
    BY <1>11 DEF Answer, TypeOK, LockInv
  <2>3. CallInv'
    BY <1>11 DEF Answer, TypeOK, CallInv
  <2>4. ResultInv'
    BY <1>11 DEF Answer, TypeOK, ResultInv
  <2>5. StoreInv'
    BY <1>11 DEF Answer, StoreInv
  <2>6. EventInv'
    BY <1>11 DEF Answer, TypeOK, LockInv, EventInv, EventsFit, Announced
  <2>7. ToldOnlyWhatWasSigned'
    <3> SUFFICES ASSUME NEW m \in told', m \notin told, m[3] \in Resolved
                 PROVE  \E r \in signed : r.action = m[1] /\ r.request = m[2] /\ r.status = m[3]
      BY <1>11 DEF Answer, ToldOnlyWhatWasSigned, Resolved
    <3>1. /\ pc[a] = "answer" /\ job[a].op = "need"
          /\ m = <<job[a].action, job[a].request, AnswerFor(result[a])>>
      BY <1>11 DEF Answer
    <3> DEFINE row == result[a].row
    <3>2. AnswerFor(result[a]) \in Resolved
      BY <3>1
    <3>3. /\ result[a] # Error /\ AnswerFor(result[a]) = row.status
          /\ row.receipt # NoReceipt => Trusted(row)
      BY <3>2 DEF AnswerFor, Resolved
    <3>4. RowValid(row) /\ row.action = job[a].action /\ row.request = job[a].request
      BY <3>1, <3>3 DEF ResultInv
    <3>5. Trusted(row)
      BY <3>2, <3>3, <3>4 DEF RowValid, Resolved
    <3> HIDE DEF row
    <3> QED
      BY <3>1, <3>3, <3>4, <3>5 DEF Trusted, EnvelopeValid
  <2> QED
    BY <2>1, <2>2, <2>3, <2>4, <2>5, <2>6, <2>7
<1>12. ASSUME NEW a \in Agents, Crash(a)
      PROVE  ActionsInv'
  <2>a. /\ pc'[a] = "idle" /\ \A b \in Agents : b # a => pc'[b] = pc[b] /\ result'[b] = result[b]
        /\ UNCHANGED <<actions, events, edits>>
        /\ lock' = IF lock = a THEN NoOne ELSE lock
        /\ died' = (died \/ pc[a] = "emit")
    BY <1>12 DEF Crash, TypeOK, CallInv
  <2>1. TypeOK'
    BY <1>12 DEF Crash, TypeOK
  <2>2. LockInv'
    BY <1>12 DEF Crash, TypeOK, LockInv
  <2>3. CallInv'
    BY <1>12 DEF Crash, TypeOK, CallInv
  <2>4. ResultInv'
    BY <1>12 DEF Crash, TypeOK, ResultInv
  <2>5. StoreInv'
    BY <1>12 DEF Crash, StoreInv
  <2>6. EventInv'
    <3> SUFFICES ASSUME edits = 0
                 PROVE  /\ EventsFit(actions)'
                        /\ ~died' => \A j \in DOMAIN actions : Announced(actions[j])'
      BY <2>a DEF EventInv
    <3>1. EventsFit(actions)'
      BY <2>a DEF EventInv, EventsFit
    <3>2. ASSUME ~died', NEW j \in DOMAIN actions
          PROVE  Announced(actions[j])'
      <4>1. ~died /\ pc[a] # "emit"
        BY <2>a, <3>2
      <4>2. Announced(actions[j])
        BY <4>1 DEF EventInv
      <4>3. CASE <<actions[j].status, actions[j].action>> \in events
        BY <2>a, <4>3 DEF Announced
      <4>4. CASE lock # NoOne /\ pc[lock] = "emit" /\ result[lock].row = actions[j]
        <5>1. lock \in Agents /\ lock # a
          BY <4>1, <4>4 DEF TypeOK
        <5> QED
          BY <2>a, <4>4, <5>1 DEF Announced
      <4> QED
        BY <4>2, <4>3, <4>4 DEF Announced
    <3> QED
      BY <3>1, <3>2
  <2>7. ToldOnlyWhatWasSigned'
    BY <1>12 DEF Crash, ToldOnlyWhatWasSigned
  <2> QED
    BY <2>1, <2>2, <2>3, <2>4, <2>5, <2>6, <2>7
<1>13. ASSUME NEW a \in Agents, RefuseEnqueue(a) \/ RefuseResolution(a)
      PROVE  ActionsInv'
  <2>1. pc[a] = "read" /\ Return(a, Error)
    BY <1>13 DEF RefuseEnqueue, RefuseResolution, Enqueuing, Resolving, Raise
  <2> QED
    BY <2>1, ReturnKeepsInv
<1>14. ASSUME NEW x \in Actions, NEW q \in Requests, NEW s \in Resolved,
             NEW t \in now .. now + Skew, Sign(x, q, s, t)
      PROVE  ActionsInv'
  <2>a. signed \subseteq signed' /\ UNCHANGED <<actions, pc, job, data, result, edits>>
    BY <1>14 DEF Sign
  <2>1. TypeOK'
    <3>1. t \in Times /\ t + Validity \in Times
      BY <1>14 DEF Times, TypeOK
    <3>2. [action |-> x, request |-> q, status |-> s, at |-> t, expires |-> t + Validity] \in Receipt
      BY <3>1 DEF Receipt, Resolved
    <3>3. signed' \subseteq Receipt
      BY <1>14, <3>2 DEF Sign, TypeOK
    <3> QED
      BY <1>14, <3>3 DEF Sign, TypeOK
  <2>2. LockInv'
    BY <1>14 DEF Sign, TypeOK, LockInv
  <2>3. CallInv'
    BY <2>a, SoundGrows DEF CallInv
  <2>4. ResultInv'
    BY <1>14 DEF Sign, TypeOK, ResultInv
  <2>5. StoreInv'
    BY <2>a, SoundGrows DEF StoreInv
  <2>6. EventInv'
    BY <1>14 DEF Sign, TypeOK, LockInv, EventInv, EventsFit, Announced
  <2>7. ToldOnlyWhatWasSigned'
    BY <1>14 DEF Sign, ToldOnlyWhatWasSigned
  <2> QED
    BY <2>1, <2>2, <2>3, <2>4, <2>5, <2>6, <2>7
<1>15. CASE Tick
  <2>1. TypeOK'
    BY <1>15 DEF Tick, TypeOK
  <2>2. LockInv'
    BY <1>15 DEF Tick, TypeOK, LockInv
  <2>3. CallInv'
    BY <1>15 DEF Tick, TypeOK, CallInv
  <2>4. ResultInv'
    BY <1>15 DEF Tick, TypeOK, ResultInv
  <2>5. StoreInv'
    BY <1>15 DEF Tick, StoreInv
  <2>6. EventInv'
    BY <1>15 DEF Tick, TypeOK, LockInv, EventInv, EventsFit, Announced
  <2>7. ToldOnlyWhatWasSigned'
    BY <1>15 DEF Tick, ToldOnlyWhatWasSigned
  <2> QED
    BY <2>1, <2>2, <2>3, <2>4, <2>5, <2>6, <2>7
<1>16. ASSUME NEW i \in DOMAIN actions, NEW s \in Statuses,
             NEW r \in signed \cup {NoReceipt, Unsigned(actions[i].action, actions[i].request)},
             EditRow(i, s, r)
      PROVE  ActionsInv'
  <2>1. TypeOK'
    <3>1. actions[i] \in Row /\ actions \in Seq(Row)
      BY DEF TypeOK
    <3>2. 0 \in Times /\ Validity \in Times
      BY DEF Times
    <3>3. r \in Receipt \cup {NoReceipt}
      BY <3>1, <3>2 DEF TypeOK, Unsigned, Receipt, Row
    <3> DEFINE row == [actions[i] EXCEPT !.status = s, !.receipt = r]
    <3>4. row \in Row
      BY <3>1, <3>3 DEF Row
    <3>5. actions' = [actions EXCEPT ![i] = row]
      BY <1>16 DEF EditRow
    <3> HIDE DEF row
    <3>6. actions' \in Seq(Row)
      BY <3>1, <3>4, <3>5, ExceptSeq
    <3> QED
      BY <1>16, <3>6 DEF EditRow, TypeOK
  <2>2. LockInv'
    BY <1>16 DEF EditRow, TypeOK, LockInv
  <2>3. CallInv'
    BY <1>16 DEF EditRow, TypeOK, CallInv
  <2>4. ResultInv'
    BY <1>16 DEF EditRow, TypeOK, ResultInv
  <2>5. StoreInv'
    <3>1. edits' # 0
      BY <1>16 DEF EditRow, TypeOK
    <3> QED
      BY <3>1 DEF StoreInv
  <2>6. EventInv'
    <3>1. edits' # 0
      BY <1>16 DEF EditRow, TypeOK
    <3> QED
      BY <3>1 DEF EventInv
  <2>7. ToldOnlyWhatWasSigned'
    BY <1>16 DEF EditRow, ToldOnlyWhatWasSigned
  <2> QED
    BY <2>1, <2>2, <2>3, <2>4, <2>5, <2>6, <2>7
<1>17. CASE UNCHANGED vars
  <2>1. TypeOK'
    BY <1>17 DEF vars, TypeOK
  <2>2. LockInv'
    BY <1>17 DEF vars, LockInv
  <2>3. CallInv'
    BY <1>17 DEF vars, CallInv
  <2>4. ResultInv'
    BY <1>17 DEF vars, ResultInv
  <2>5. StoreInv'
    BY <1>17 DEF vars, StoreInv
  <2>6. EventInv'
    BY <1>17 DEF vars, EventInv, EventsFit, Announced
  <2>7. ToldOnlyWhatWasSigned'
    BY <1>17 DEF vars, ToldOnlyWhatWasSigned
  <2> QED
    BY <2>1, <2>2, <2>3, <2>4, <2>5, <2>6, <2>7
<1> QED
  BY <1>1, <1>2, <1>3, <1>4, <1>5, <1>6, <1>7, <1>8, <1>9, <1>10, <1>11, <1>12, <1>13, <1>14, <1>15, <1>16, <1>17 DEF Next, Call, Resolved

(* ActionsInv is an invariant of the specification.                         *)
LEMMA ActionsInvariant == Spec => []ActionsInv
<1>1. Init => ActionsInv
  <2> SUFFICES ASSUME Init
               PROVE  ActionsInv
    OBVIOUS
  <2> USE ActionsAssumption DEF Init
  <2>1. TypeOK
    <3>1. actions \in Seq(Row) /\ data \in [Agents -> Seq(Row)]
      OBVIOUS
    <3>2. now \in 0 .. MaxTime /\ edits \in 0 .. MaxEdits
      OBVIOUS
    <3> QED
      BY <3>1, <3>2 DEF TypeOK
  <2>2. LockInv /\ CallInv /\ ResultInv
    BY DEF LockInv, CallInv, ResultInv
  <2>3. StoreInv /\ EventInv /\ ToldOnlyWhatWasSigned
    BY DEF StoreInv, EventInv, Sound, Distinct, EventsFit, ToldOnlyWhatWasSigned
  <2> QED
    BY <2>1, <2>2, <2>3 DEF ActionsInv
<1> QED
  BY <1>1, ActionsInvStep, PTL DEF Spec

(* Every variable keeps its type.                                           *)
THEOREM ActionsTypeCorrect == Spec => []TypeOK
<1>1. ActionsInv => TypeOK
  BY DEF ActionsInv
<1> QED
  BY <1>1, ActionsInvariant, PTL

(* One row per action id, resolved only by a receipt the owner signed for   *)
(* it, dated inside its lifetime (_enqueue_external_action_unlocked and      *)
(* resolve_external_action, governance.py).                                 *)
THEOREM StoredRowsAreSound == Spec => []RowsAreSound
<1>1. ActionsInv => RowsAreSound
  BY DEF ActionsInv, StoreInv, Sound, Distinct, SoundRow, Resolved, RowsAreSound
<1> QED
  BY <1>1, ActionsInvariant, PTL

(* The event log and the store agree, but for an Agent that died between    *)
(* the two writes (emit_event after _write, governance.py).                 *)
THEOREM EventLogAgrees == Spec => []EventsAgree
<1>1. ActionsInv => EventsAgree
  BY DEF ActionsInv, EventInv, EventsFit, Announced, EventsAgree
<1> QED
  BY <1>1, ActionsInvariant, PTL

(* An Agent is told of an outcome only if the owner signed it, whatever is  *)
(* written into the store by hand (evaluate_escalation, autonomy.py).       *)
THEOREM ToldIsSigned == Spec => []ToldOnlyWhatWasSigned
<1>1. ActionsInv => ToldOnlyWhatWasSigned
  BY DEF ActionsInv
<1> QED
  BY <1>1, ActionsInvariant, PTL

(* No step of the tool drops a row, rebinds it or changes a settled one:    *)
(* the two writers of the store work on what they read under the lock.      *)
THEOREM SettledRowsAreFinal == Spec => RowsAreFinal
<1> DEFINE Final(i) ==
      /\ i \in DOMAIN actions'
      /\ actions'[i].action = actions[i].action
      /\ actions'[i].request = actions[i].request
      /\ actions'[i].expires = actions[i].expires
      /\ actions[i].status # "pending" => actions'[i] = actions[i]
<1>1. ASSUME ActionsInv, [Next]_vars
      PROVE  [edits' = 0 => \A i \in DOMAIN actions : Final(i)]_vars
  <2> SUFFICES ASSUME edits' = 0, NEW i \in DOMAIN actions
               PROVE  Final(i)
    OBVIOUS
  <2>1. CASE UNCHANGED actions
    BY <2>1
  <2>2. ASSUME NEW a \in Agents, WriteStore(a)
        PROVE  Final(i)
    <3>1. PICK j \in DOMAIN data[a] : Revision(actions, data[a], j)
      BY <1>1, <2>2 DEF ActionsInv, CallInv, WriteStore
    <3> QED
      BY <2>2, <3>1 DEF WriteStore, Revision
  <2>3. ASSUME NEW j \in DOMAIN actions, NEW s \in Statuses, NEW r, EditRow(j, s, r)
        PROVE  FALSE
    BY <1>1, <2>3 DEF EditRow, ActionsInv, TypeOK
  <2>4. \/ UNCHANGED actions
        \/ \E a \in Agents : WriteStore(a)
        \/ \E j \in DOMAIN actions, s \in Statuses :
             \E r \in signed \cup {NoReceipt, Unsigned(actions[j].action, actions[j].request)} :
                EditRow(j, s, r)
    BY <1>1, ZenonT(60) DEF Next, Call, vars, Need, ImportResolution, LockAndLoad, RefuseEnqueue, EnqueueNew,
       ReuseRow, ExpireRow, RefuseResolution, RepeatResolution, ApplyResolution, Raise, Return,
       Stage, EmitEvent, Answer, Crash, Sign, Tick
  <2> QED
    BY <2>1, <2>2, <2>3, <2>4
<1> QED
  BY <1>1, ActionsInvariant, PTL DEF Spec, RowsAreFinal

============================================================================
