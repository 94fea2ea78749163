----------------------------- MODULE L3Approval -----------------------------
(***************************************************************************)
(* How agents turn an owner-signed L3 receipt into one authorized operation *)
(* (src/sddgov/autonomy.py): import_operation_approval records the receipt  *)
(* in the clone's decision store, _consume_operation_approval checks the    *)
(* row under the clone's lock, spends the nonce through the broker of       *)
(* NonceBroker and marks the row completed.  Agents may time out, crash or  *)
(* lose the answer; every clone has its own store and lock, the broker is   *)
(* shared.                                                                  *)
(*                                                                          *)
(* A receipt is represented by its name, its nonce and whether              *)
(* _verify_operation_envelope still accepts it: once it has expired or its  *)
(* approver was removed it never verifies again.                            *)
(***************************************************************************)
EXTENDS NonceBroker

CONSTANTS
    Agents,    \* agent processes
    Clones,    \* clones of the repository
    CloneOf,   \* the clone each agent works in
    Receipts,  \* owner-signed L3 receipts
    NonceOf    \* the nonce each receipt carries

ASSUME ApprovalAssumption ==
    /\ CloneOf \in [Agents -> Clones]
    /\ NonceOf \in [Receipts -> Nonces]
    /\ NoOne \notin Agents \cup Receipts

VARIABLES
    store,     \* decisions.json of each clone: the status of each receipt's row
    dlock,     \* the holder of decisions.lock of each clone, or NoOne
    valid,     \* the receipts that still verify
    apc,       \* where each agent is in its code
    arcpt,     \* the receipt it works on
    aview,     \* the copy of the store it read under the lock
    aconn,     \* its connection to the broker
    granted    \* the connections whose agent returned the authorized row

agentVars == <<store, dlock, valid, apc, arcpt, aview, aconn, granted>>
vars == <<brokerVars, agentVars>>

Rows == [Receipts -> {"none", "approved", "completed"}]

TypeOK ==
    /\ BrokerTypeOK
    /\ store \in [Clones -> Rows]
    /\ dlock \in [Clones -> Agents \cup {NoOne}]
    /\ valid \subseteq Receipts
    /\ apc \in [Agents -> {"idle", "import", "importing", "evaluate", "checked", "waiting", "consumed"}]
    /\ arcpt \in [Agents -> Receipts \cup {NoOne}]
    /\ aview \in [Agents -> Rows]
    /\ aconn \in [Agents -> Conns \cup {NoOne}]
    /\ granted \subseteq Conns

NoRows == [r \in Receipts |-> "none"]

Init ==
    /\ BrokerInit
    /\ store = [c \in Clones |-> NoRows]
    /\ dlock = [c \in Clones |-> NoOne]
    /\ valid = Receipts
    /\ apc = [a \in Agents |-> "idle"]
    /\ arcpt = [a \in Agents |-> NoOne]
    /\ aview = [a \in Agents |-> NoRows]
    /\ aconn = [a \in Agents |-> NoOne]
    /\ granted = {}

-----------------------------------------------------------------------------
(* The agent leaves its operation and whatever lock it holds.               *)
Leave(a) ==
    /\ apc' = [apc EXCEPT ![a] = "idle"]
    /\ arcpt' = [arcpt EXCEPT ![a] = NoOne]
    /\ aview' = [aview EXCEPT ![a] = NoRows]
    /\ aconn' = [aconn EXCEPT ![a] = NoOne]
    /\ dlock' = [c \in Clones |-> IF dlock[c] = a THEN NoOne ELSE dlock[c]]

(* Mutant: the store is read without waiting for the lock.                  *)
LockAndReadEarly(a) ==
    /\ dlock' = [dlock EXCEPT ![CloneOf[a]] = a]
    /\ aview' = [aview EXCEPT ![a] = store[CloneOf[a]]]

(* Take decisions.lock and read the whole store, as every mutation does.    *)
LockAndRead(a) ==
    /\ dlock[CloneOf[a]] = NoOne
    /\ dlock' = [dlock EXCEPT ![CloneOf[a]] = a]
    /\ aview' = [aview EXCEPT ![a] = store[CloneOf[a]]]

(* _atomic_json replaces the file by the copy with row r set to status s.   *)
WriteRow(a, r, s) ==
    store' = [store EXCEPT ![CloneOf[a]] = [aview[a] EXCEPT ![r] = s]]

-----------------------------------------------------------------------------
(* import_operation_approval                                                *)

(* The envelope is verified before the lock is taken.                       *)
BeginImport(a, r) ==
    /\ apc[a] = "idle"
    /\ r \in valid
    /\ apc' = [apc EXCEPT ![a] = "import"]
    /\ arcpt' = [arcpt EXCEPT ![a] = r]
    /\ UNCHANGED <<brokerVars, store, dlock, valid, aview, aconn, granted>>

LockForImport(a) ==
    /\ apc[a] = "import"
    /\ LockAndRead(a)
    /\ apc' = [apc EXCEPT ![a] = "importing"]
    /\ UNCHANGED <<brokerVars, store, valid, arcpt, aconn, granted>>

(* The receipt or its nonce is already in the store.                        *)
Imported(a) ==
    \E r \in Receipts :
        /\ aview[a][r] # "none"
        /\ r = arcpt[a] \/ NonceOf[r] = NonceOf[arcpt[a]]

FinishImport(a) ==
    /\ apc[a] = "importing"
    /\ \/ Imported(a) /\ UNCHANGED store
       \/ ~Imported(a) /\ WriteRow(a, arcpt[a], "approved")
    /\ Leave(a)
    /\ UNCHANGED <<brokerVars, valid, granted>>

-----------------------------------------------------------------------------
(* _consume_operation_approval                                              *)

(* The requested payload and the runtime context are validated first.       *)
BeginEvaluate(a, r) ==
    /\ apc[a] = "idle"
    /\ apc' = [apc EXCEPT ![a] = "evaluate"]
    /\ arcpt' = [arcpt EXCEPT ![a] = r]
    /\ UNCHANGED <<brokerVars, store, dlock, valid, aview, aconn, granted>>

(* The row exists, is approved and not consumed, and its envelope verifies  *)
(* again now; the lock stays held over the broker call.                     *)
CheckRow(a) ==
    /\ apc[a] = "evaluate"
    /\ store[CloneOf[a]][arcpt[a]] = "approved"
    /\ arcpt[a] \in valid
    /\ LockAndRead(a)
    /\ apc' = [apc EXCEPT ![a] = "checked"]
    /\ UNCHANGED <<brokerVars, store, valid, arcpt, aconn, granted>>

(* The row is missing, consumed, stale or does not match the request.       *)
RefuseRow(a) ==
    /\ apc[a] = "evaluate"
    /\ dlock[CloneOf[a]] = NoOne
    /\ Leave(a)
    /\ UNCHANGED <<brokerVars, store, valid, granted>>

(* _consume_nonce_via_control_plane connects and sends the request.         *)
SendConsume(a, k, b) ==
    /\ apc[a] = "checked"
    /\ Connect(k, b, NonceOf[arcpt[a]])
    /\ aconn' = [aconn EXCEPT ![a] = k]
    /\ apc' = [apc EXCEPT ![a] = "waiting"]
    /\ UNCHANGED <<store, dlock, valid, arcpt, aview, granted>>

(* The socket is missing or untrusted, or connect or send fails.            *)
BrokerUnavailable(a) ==
    /\ apc[a] = "checked"
    /\ Leave(a)
    /\ UNCHANGED <<brokerVars, store, valid, granted>>

(* Mutant: a replayed nonce is taken for a consumed one.                    *)
ReadConsumedReplay(a) ==
    /\ apc[a] = "waiting"
    /\ cst[aconn[a]] = "answered"
    /\ cresp[aconn[a]] \in {"CONSUMED", "ALREADY_CONSUMED"}
    /\ apc' = [apc EXCEPT ![a] = "consumed"]
    /\ UNCHANGED <<brokerVars, store, dlock, valid, arcpt, aview, aconn, granted>>

(* Mutant: the agent goes on after a timeout.                               *)
ReadConsumedLate(a) ==
    /\ apc[a] = "waiting"
    /\ apc' = [apc EXCEPT ![a] = "consumed"]
    /\ UNCHANGED <<brokerVars, store, dlock, valid, arcpt, aview, aconn, granted>>

(* Exactly CONSUMED was read to EOF.                                        *)
ReadConsumed(a) ==
    /\ apc[a] = "waiting"
    /\ cst[aconn[a]] = "answered"
    /\ cresp[aconn[a]] = "CONSUMED"
    /\ apc' = [apc EXCEPT ![a] = "consumed"]
    /\ UNCHANGED <<brokerVars, store, dlock, valid, arcpt, aview, aconn, granted>>

(* Mutant: the row is marked although the broker refused.                   *)
NotConsumedMarksRow(a) ==
    /\ apc[a] = "waiting"
    /\ WriteRow(a, arcpt[a], "completed")
    /\ Leave(a)
    /\ UNCHANGED <<brokerVars, valid, granted>>

(* Mutant: the client has no timeout.                                       *)
NotConsumedNoTimeout(a) ==
    /\ apc[a] = "waiting"
    /\ cst[aconn[a]] \in {"answered", "closed"}
    /\ Leave(a)
    /\ UNCHANGED <<brokerVars, store, valid, granted>>

(* Another answer, a reset connection, or the ten-second timeout, which may *)
(* strike while the daemon still works on the request: the operation is     *)
(* blocked (_control_plane_blocked).                                        *)
NotConsumed(a) ==
    /\ apc[a] = "waiting"
    /\ Leave(a)
    /\ UNCHANGED <<brokerVars, store, valid, granted>>

(* The row is marked completed and returned: the operation is authorized.   *)
Complete(a) ==
    /\ apc[a] = "consumed"
    /\ WriteRow(a, arcpt[a], "completed")
    /\ granted' = granted \cup {aconn[a]}
    /\ Leave(a)
    /\ UNCHANGED <<brokerVars, valid>>

-----------------------------------------------------------------------------
(* The environment                                                          *)

(* A receipt expires, or its approver leaves the trusted store.             *)
Lapse(r) ==
    /\ r \in valid
    /\ valid' = valid \ {r}
    /\ UNCHANGED <<brokerVars, store, dlock, apc, arcpt, aview, aconn, granted>>

(* An agent dies, or any of its calls raises, _atomic_json included.        *)
AgentExit(a) ==
    /\ apc[a] # "idle"
    /\ Leave(a)
    /\ UNCHANGED <<brokerVars, store, valid, granted>>

Older(s) == CASE s = "none" -> {"none"}
              [] s = "approved" -> {"none", "approved"}
              [] OTHER -> {"none", "approved", "completed"}

(* Power loss ends every process.  _atomic_json never fsyncs, so any write  *)
(* to a store may be lost.                                                  *)
HostLoss ==
    /\ PowerLoss
    /\ apc' = [a \in Agents |-> "idle"]
    /\ arcpt' = [a \in Agents |-> NoOne]
    /\ aview' = [a \in Agents |-> NoRows]
    /\ aconn' = [a \in Agents |-> NoOne]
    /\ dlock' = [c \in Clones |-> NoOne]
    /\ store' \in [Clones -> Rows]
    /\ \A c \in Clones, r \in Receipts : store'[c][r] \in Older(store[c][r])
    /\ UNCHANGED <<valid, granted>>

-----------------------------------------------------------------------------
Agent(a) ==
    \/ \E r \in Receipts : BeginImport(a, r)
    \/ LockForImport(a) \/ FinishImport(a)
    \/ \E r \in Receipts : BeginEvaluate(a, r)
    \/ CheckRow(a) \/ RefuseRow(a)
    \/ \E k \in Conns, b \in Brokers : SendConsume(a, k, b)
    \/ BrokerUnavailable(a)
    \/ ReadConsumed(a) \/ NotConsumed(a) \/ Complete(a)

Next ==
    \/ \E b \in Brokers : (Daemon(b) \/ BrokerExit(b)) /\ UNCHANGED agentVars
    \/ \E a \in Agents : Agent(a) \/ AgentExit(a)
    \/ \E r \in Receipts : Lapse(r)
    \/ HostLoss

Spec == Init /\ [][Next]_vars

(* What an agent that has taken decisions.lock does next: every wait under  *)
(* the lock is bounded by a timeout of the code.                            *)
Proceed(a) ==
    \/ FinishImport(a) \/ BrokerUnavailable(a) \/ NotConsumed(a) \/ Complete(a)
    \/ \E k \in Conns, b \in Brokers : SendConsume(a, k, b)

FairSpec == Spec /\ \A a \in Agents : WF_vars(Proceed(a))

-----------------------------------------------------------------------------
(* Properties                                                               *)

(* One receipt, and one nonce whatever receipts carry it, authorizes at     *)
(* most one operation: over all clones, agents, daemons, crashes, timeouts  *)
(* and lost answers ("L3: one fresh, one-use approval per concrete          *)
(* operation").                                                             *)
AuthorizedOnce ==
    \A j, k \in granted : cnonce[j] = cnonce[k] => j = k

(* A row of any clone says completed only if the nonce of its receipt has   *)
(* really been consumed by the broker.                                      *)
CompletedWasConsumed ==
    \A c \in Clones, r \in Receipts :
        store[c][r] = "completed" =>
            \E k \in Won : cnonce[k] = NonceOf[r]

(* No clone holds two rows with the same nonce: the duplicate check and the *)
(* append of import_operation_approval are one transaction.                 *)
OneRowPerNonce ==
    \A c \in Clones : \A q, r \in Receipts :
        store[c][q] # "none" /\ store[c][r] # "none" /\ NonceOf[q] = NonceOf[r] => q = r

Rank(s) == CASE s = "none" -> 0 [] s = "approved" -> 1 [] OTHER -> 2

(* Short of a power loss no step drops a row of a decision store or takes   *)
(* one back: every writer rewrites the whole file from the copy it read, so *)
(* this is what decisions.lock is for ("Serialized Decision Store mutations *)
(* so concurrent Agents cannot ... overwrite each other's decisions").      *)
NoLostDecision ==
    [][\/ HostLoss
       \/ \A c \in Clones, r \in Receipts :
             Rank(store[c][r]) <= Rank(store'[c][r])]_vars

(* The decision lock of every clone is always released again, even when the *)
(* broker never answers.                                                    *)
LockIsReleased ==
    \A c \in Clones : dlock[c] # NoOne ~> dlock[c] = NoOne

(* The implementation promises what OneShotApproval promises.               *)
OneShot == INSTANCE OneShotApproval WITH
    Requests <- Conns,
    asked <- cnonce,
    spent <- Won,
    granted <- granted

ImplementsOneShot == OneShot!Spec
=============================================================================
