-------------------------- MODULE ExternalActions --------------------------
(***************************************************************************)
(* The queue of bounded external actions (.sddgov/external-actions.json):   *)
(* src/sddgov/governance.py enqueues and resolves rows under a file lock,   *)
(* src/sddgov/autonomy.py verifies the owner's signed resolutions and       *)
(* decides what an Agent that needs an action may do.                       *)
(*                                                                          *)
(* A request digest stands for the summary, risk, owner, class and scope it *)
(* covers.  A receipt is the signed part of a resolution envelope; the      *)
(* receipts the trusted owner signed are the ones whose signature verifies. *)
(***************************************************************************)
EXTENDS Naturals, Sequences, FiniteSets

CONSTANTS
    Agents,       \* processes that run the command line tool
    Actions,      \* action ids
    Requests,     \* request digests
    Ttl,          \* ttl_minutes of a new action
    Validity,     \* lifetime of a signed resolution
    Skew,         \* how far in the future resolved_at may lie (five minutes)
    MaxTime,      \* bound: the clock stops here
    MaxSigned,    \* bound: resolutions the owner signs
    MaxEdits,     \* bound: rows changed by hand
    NoReceipt, NoOne

ASSUME ActionsAssumption ==
    /\ Ttl \in Nat \ {0} /\ Validity \in Nat \ {0} /\ Skew \in Nat
    /\ MaxTime \in Nat /\ MaxSigned \in Nat /\ MaxEdits \in Nat
    /\ NoOne \notin Agents

VARIABLES
    actions,    \* the rows of the store, in order
    lock,       \* the holder of external-actions.lock, or NoOne
    events,     \* what events.jsonl says: <<event type, action>>
    signed,     \* the receipts the owner signed
    now,        \* the wall clock
    pc,         \* where each Agent is in its code
    job,        \* what each Agent was asked to do
    data,       \* the rows each Agent read, then the ones it will write
    result,     \* the row its call returns, or the reason it returns none
    told,       \* the outcomes Agents were told: <<action, request, outcome>>
    edits,      \* rows changed by hand so far
    died        \* whether an Agent was killed between the write and the event

vars == <<actions, lock, events, signed, now, pc, job, data, result, told, edits, died>>
world == <<signed, now, edits>>

Statuses == {"pending", "completed", "cancelled", "expired"}

Outcomes == Actions \X Requests \X (Statuses \ {"pending"})

Times == 0 .. MaxTime + Ttl + Validity + Skew

Receipt == [action : Actions, request : Requests, status : {"completed", "cancelled"},
            at : Times, expires : Times]

Row == [action : Actions, request : Requests, status : Statuses,
        created : Times, expires : Times, receipt : Receipt \cup {NoReceipt}]

NoJob == [op |-> "none"]
Error == [reason |-> "error"]   \* the result of a call that raised
Job == [op : {"need"}, action : Actions, request : Requests] \cup [op : {"resolve"}, receipt : Receipt]

TypeOK ==
    /\ actions \in Seq(Row)
    /\ lock \in Agents \cup {NoOne}
    /\ events \subseteq (Statuses \X Actions)
    /\ signed \subseteq Receipt
    /\ now \in 0 .. MaxTime
    /\ pc \in [Agents -> {"idle", "wait", "read", "write", "emit", "answer"}]
    /\ job \in [Agents -> Job \cup {NoJob}]
    /\ data \in [Agents -> Seq(Row)]
    /\ told \subseteq Outcomes
    /\ edits \in 0 .. MaxEdits
    /\ died \in BOOLEAN

Init ==
    /\ actions = <<>>
    /\ lock = NoOne
    /\ events = {}
    /\ signed = {}
    /\ now = 0
    /\ pc = [a \in Agents |-> "idle"]
    /\ job = [a \in Agents |-> NoJob]
    /\ data = [a \in Agents |-> <<>>]
    /\ result = [a \in Agents |-> Error]
    /\ told = {}
    /\ edits = 0
    /\ died = FALSE

-----------------------------------------------------------------------------
(* The store                                                                *)

Goto(a, l) == pc' = [pc EXCEPT ![a] = l]

(* _validate_external_action_row: a resolved row carries its envelope, any  *)
(* other row carries none.                                                  *)
RowValid(row) ==
    /\ row.created < row.expires
    /\ row.status \in {"completed", "cancelled"} <=> row.receipt # NoReceipt

StoreValid(rows) == \A i \in DOMAIN rows : RowValid(rows[i])

Matches(rows, x) == {i \in DOMAIN rows : rows[i].action = x}

NewRow(x, q) ==
    [action |-> x, request |-> q, status |-> "pending",
     created |-> now, expires |-> now + Ttl, receipt |-> NoReceipt]

-----------------------------------------------------------------------------
(* Entering and leaving the critical section                                *)

(* An Agent evaluates a request of category operational_action or           *)
(* necessary_uat.                                                           *)
Need(a, x, q) ==
    /\ pc[a] = "idle"
    /\ job' = [job EXCEPT ![a] = [op |-> "need", action |-> x, request |-> q]]
    /\ Goto(a, "wait")
    /\ UNCHANGED <<actions, lock, events, world, data, result, told, died>>

(* The envelope check before a resolution is applied: signature, then       *)
(* resolved_at, then freshness.                                             *)
EnvelopeValid(r, fresh) ==
    /\ r \in signed
    /\ r.at <= now + Skew
    /\ r.at < r.expires
    /\ fresh => now < r.expires

(* import_external_action_resolution: the envelope is verified before the   *)
(* lock is requested.                                                       *)
ImportResolution(a, r) ==
    /\ pc[a] = "idle"
    /\ EnvelopeValid(r, TRUE)
    /\ job' = [job EXCEPT ![a] = [op |-> "resolve", receipt |-> r]]
    /\ Goto(a, "wait")
    /\ UNCHANGED <<actions, lock, events, world, data, result, told, died>>

(* Mutant: the rows are read before the lock is held.                       *)
LockAndLoadEarly(a) ==
    \/ /\ pc[a] = "wait"
       /\ data[a] = <<>>
       /\ actions # <<>>
       /\ data' = [data EXCEPT ![a] = actions]
       /\ UNCHANGED <<lock, pc, actions, events, world, job, result, told, died>>
    \/ /\ pc[a] = "wait"
       /\ lock = NoOne
       /\ lock' = a
       /\ Goto(a, "read")
       /\ UNCHANGED <<actions, events, world, job, data, result, told, died>>

(* flock(LOCK_EX), then _load_external_action_store.                        *)
LockAndLoad(a) ==
    /\ pc[a] = "wait"
    /\ lock = NoOne
    /\ lock' = a
    /\ data' = [data EXCEPT ![a] = actions]
    /\ Goto(a, "read")
    /\ UNCHANGED <<actions, events, world, job, result, told, died>>

(* The call returns a row, or raises: the lock is released.                 *)
Return(a, res) ==
    /\ lock' = NoOne
    /\ result' = [result EXCEPT ![a] = res]
    /\ data' = [data EXCEPT ![a] = <<>>]
    /\ Goto(a, "answer")
    /\ UNCHANGED <<actions, events, world, job, told, died>>

Raise(a) == Return(a, Error)

(* The rows are changed in memory; write, event and return follow.          *)
Stage(a, rows, i, made) ==
    /\ data' = [data EXCEPT ![a] = rows]
    /\ result' = [result EXCEPT ![a] = [row |-> rows[i], made |-> made]]
    /\ Goto(a, "write")
    /\ UNCHANGED <<actions, lock, events, world, job, told, died>>

-----------------------------------------------------------------------------
(* _enqueue_external_action_unlocked                                        *)

Enqueuing(a) == pc[a] = "read" /\ job[a].op = "need"

EnqueueRefused(rows, x, q) ==
    \/ ~StoreValid(rows)
    \/ Cardinality(Matches(rows, x)) > 1
    \/ \E i \in Matches(rows, x) : rows[i].request # q

RefuseEnqueue(a) ==
    /\ Enqueuing(a)
    /\ EnqueueRefused(data[a], job[a].action, job[a].request)
    /\ Raise(a)

EnqueueNew(a) ==
    /\ Enqueuing(a)
    /\ ~EnqueueRefused(data[a], job[a].action, job[a].request)
    /\ Matches(data[a], job[a].action) = {}
    /\ Stage(a, Append(data[a], NewRow(job[a].action, job[a].request)), Len(data[a]) + 1, TRUE)

Found(a, i) ==
    /\ ~EnqueueRefused(data[a], job[a].action, job[a].request)
    /\ i \in Matches(data[a], job[a].action)

(* A resolved row, or a pending one that has not expired, is returned.      *)
ReuseRow(a) ==
    /\ Enqueuing(a)
    /\ \E i \in DOMAIN data[a] :
          /\ Found(a, i)
          /\ data[a][i].status # "pending" \/ now < data[a][i].expires
          /\ Return(a, [row |-> data[a][i], made |-> FALSE])

(* A pending row past its expiry becomes expired.                           *)
ExpireRow(a) ==
    /\ Enqueuing(a)
    /\ \E i \in DOMAIN data[a] :
          /\ Found(a, i)
          /\ data[a][i].status = "pending" /\ data[a][i].expires <= now
          /\ Stage(a, [data[a] EXCEPT ![i].status = "expired"], i, FALSE)

-----------------------------------------------------------------------------
(* resolve_external_action                                                  *)

Resolving(a) == pc[a] = "read" /\ job[a].op = "resolve"

SettledBy(row, r) == row.status = r.status /\ row.receipt = r

(* Mutant: a resolution replaces whatever the row says.                     *)
ResolvableAlways(row, r) == row.created <= r.at /\ r.at <= row.expires

(* Mutant: resolved_at is not compared with the lifetime of the action.     *)
ResolvableAnytime(row, r) == row.status = "pending"

(* Only a pending row, and only by a resolution dated inside its lifetime.  *)
Resolvable(row, r) ==
    row.status = "pending" /\ row.created <= r.at /\ r.at <= row.expires

ResolveRefused(rows, r) ==
    \/ ~StoreValid(rows)
    \/ Cardinality(Matches(rows, r.action)) # 1
    \/ \E i \in Matches(rows, r.action) :
          rows[i].request # r.request \/ ~(SettledBy(rows[i], r) \/ Resolvable(rows[i], r))

RefuseResolution(a) ==
    /\ Resolving(a)
    /\ ResolveRefused(data[a], job[a].receipt)
    /\ Raise(a)

(* The same receipt again changes nothing.                                  *)
RepeatResolution(a) ==
    /\ Resolving(a)
    /\ ~ResolveRefused(data[a], job[a].receipt)
    /\ \E i \in Matches(data[a], job[a].receipt.action) :
          /\ SettledBy(data[a][i], job[a].receipt)
          /\ Return(a, [row |-> data[a][i], made |-> FALSE])

ApplyResolution(a) ==
    /\ Resolving(a)
    /\ ~ResolveRefused(data[a], job[a].receipt)
    /\ LET r == job[a].receipt IN
       \E i \in Matches(data[a], r.action) :
          /\ ~SettledBy(data[a][i], r)
          /\ Stage(a, [data[a] EXCEPT ![i].status = r.status, ![i].receipt = r], i, FALSE)

-----------------------------------------------------------------------------
(* The writes, in the order of the code                                     *)

(* _write: a temporary file replaces the store.                             *)
WriteStore(a) ==
    /\ pc[a] = "write"
    /\ actions' = data[a]
    /\ Goto(a, "emit")
    /\ UNCHANGED <<lock, events, world, job, data, result, told, died>>

(* emit_event appends one line, then the lock is released.                  *)
EmitEvent(a) ==
    /\ pc[a] = "emit"
    /\ events' = events \cup {<<result[a].row.status, result[a].row.action>>}
    /\ lock' = NoOne
    /\ data' = [data EXCEPT ![a] = <<>>]
    /\ Goto(a, "answer")
    /\ UNCHANGED <<actions, world, job, result, told, died>>

-----------------------------------------------------------------------------
(* evaluate_escalation after the enqueue                                    *)

(* Mutant: a stored completion is believed without its envelope.            *)
TrustedBlindly(row) == TRUE

(* The envelope in a resolved row is verified again, without freshness, and *)
(* compared with the row.                                                   *)
Trusted(row) ==
    /\ EnvelopeValid(row.receipt, FALSE)
    /\ row.receipt.action = row.action
    /\ row.receipt.request = row.request
    /\ row.receipt.status = row.status

AnswerFor(res) ==
    IF res = Error THEN "blocked"
    ELSE IF res.made THEN "prompt"
    ELSE IF res.row.receipt # NoReceipt /\ ~Trusted(res.row) THEN "untrusted"
    ELSE res.row.status

Answer(a) ==
    /\ pc[a] = "answer"
    /\ IF job[a].op = "need"
       THEN told' = told \cup ({<<job[a].action, job[a].request, AnswerFor(result[a])>>} \cap Outcomes)
       ELSE UNCHANGED told
    /\ job' = [job EXCEPT ![a] = NoJob]
    /\ data' = [data EXCEPT ![a] = <<>>]
    /\ result' = [result EXCEPT ![a] = Error]
    /\ Goto(a, "idle")
    /\ UNCHANGED <<actions, lock, events, world, died>>

-----------------------------------------------------------------------------
(* The environment                                                          *)

(* A killed Agent loses its memory; the kernel releases its lock.           *)
Crash(a) ==
    /\ pc[a] # "idle"
    /\ lock' = IF lock = a THEN NoOne ELSE lock
    /\ died' = (died \/ pc[a] = "emit")
    /\ job' = [job EXCEPT ![a] = NoJob]
    /\ data' = [data EXCEPT ![a] = <<>>]
    /\ result' = [result EXCEPT ![a] = Error]
    /\ Goto(a, "idle")
    /\ UNCHANGED <<actions, events, world, told>>

(* The owner signs a resolution; the date may run ahead of this clock.      *)
Sign(x, q, s, t) ==
    /\ Cardinality(signed) < MaxSigned
    /\ signed' = signed \cup
         {[action |-> x, request |-> q, status |-> s, at |-> t, expires |-> t + Validity]}
    /\ UNCHANGED <<actions, lock, events, now, pc, job, data, result, told, edits, died>>

Tick ==
    /\ now < MaxTime
    /\ now' = now + 1
    /\ UNCHANGED <<actions, lock, events, signed, pc, job, data, result, told, edits, died>>

(* Somebody edits a row of the store by hand: any status, with no envelope, *)
(* a signed one or one that was never signed.  A call reads the store once, *)
(* so an edit in the middle of one is overwritten or the same as one before *)
(* or after it.                                                             *)
EditRow(i, s, r) ==
    /\ edits < MaxEdits
    /\ \A a \in Agents : pc[a] = "idle"
    /\ actions' = [actions EXCEPT ![i].status = s, ![i].receipt = r]
    /\ edits' = edits + 1
    /\ UNCHANGED <<lock, events, signed, now, pc, job, data, result, told, died>>

Unsigned(x, q) ==
    [action |-> x, request |-> q, status |-> "completed", at |-> 0, expires |-> Validity]

-----------------------------------------------------------------------------
Call(a) ==
    \/ LockAndLoad(a)
    \/ RefuseEnqueue(a) \/ EnqueueNew(a) \/ ReuseRow(a) \/ ExpireRow(a)
    \/ RefuseResolution(a) \/ RepeatResolution(a) \/ ApplyResolution(a)
    \/ WriteStore(a) \/ EmitEvent(a) \/ Answer(a)

Next ==
    \/ \E a \in Agents :
          \/ \E x \in Actions, q \in Requests : Need(a, x, q)
          \/ \E r \in signed : ImportResolution(a, r)
          \/ Call(a)
          \/ Crash(a)
    \/ \E x \in Actions, q \in Requests, s \in {"completed", "cancelled"}, t \in now .. now + Skew :
          Sign(x, q, s, t)
    \/ Tick
    \/ \E i \in DOMAIN actions, s \in Statuses :
          \E r \in signed \cup {NoReceipt, Unsigned(actions[i].action, actions[i].request)} :
             EditRow(i, s, r)

Spec == Init /\ [][Next]_vars

-----------------------------------------------------------------------------
(* Properties.  All but the last are about a store that only the tool       *)
(* writes: nothing else has the right to.                                   *)

(* A step never drops a row, never rebinds an action id to another request  *)
(* or lifetime, and never changes a row that is not pending.                *)
RowsAreFinal ==
    [][edits' = 0 => \A i \in DOMAIN actions :
          /\ i \in DOMAIN actions'
          /\ actions'[i].action = actions[i].action
          /\ actions'[i].request = actions[i].request
          /\ actions'[i].expires = actions[i].expires
          /\ actions[i].status # "pending" => actions'[i] = actions[i]]_vars

(* However Agents interleave and die, the store never holds two rows for    *)
(* one action id, and a row is completed or cancelled only by a receipt the *)
(* owner signed for this action and request, with this outcome, dated       *)
(* inside its lifetime, even when the import waited for the lock past that   *)
(* lifetime.                                                                *)
RowsAreSound ==
    edits = 0 => \A i \in DOMAIN actions :
        /\ \A j \in DOMAIN actions : actions[i].action = actions[j].action => i = j
        /\ actions[i].status \in {"completed", "cancelled"} =>
            LET r == actions[i].receipt IN
            /\ r \in signed
            /\ r.action = actions[i].action /\ r.request = actions[i].request
            /\ r.status = actions[i].status
            /\ actions[i].created <= r.at /\ r.at <= actions[i].expires

(* The event log and the store agree: an event is never about a row that    *)
(* does not exist or has another outcome, and, unless an Agent died in      *)
(* between, an outcome without its event is one being emitted under the     *)
(* lock.                                                                    *)
EventsAgree ==
    edits = 0 =>
      /\ \A e \in events : \E i \in DOMAIN actions :
            actions[i].action = e[2] /\ (e[1] = "pending" \/ e[1] = actions[i].status)
      /\ ~died => \A i \in DOMAIN actions :
            \/ <<actions[i].status, actions[i].action>> \in events
            \/ lock # NoOne /\ pc[lock] = "emit" /\ result[lock].row = actions[i]

(* Whatever is written into the store by hand, an Agent is told that an     *)
(* action is completed or cancelled only if the owner signed exactly that.  *)
ToldOnlyWhatWasSigned ==
    \A m \in told : m[3] \in {"completed", "cancelled"} =>
        \E r \in signed : r.action = m[1] /\ r.request = m[2] /\ r.status = m[3]
=============================================================================
