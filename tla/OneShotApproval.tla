-------------------------- MODULE OneShotApproval --------------------------
(***************************************************************************)
(* What the broker and the decision store promise together: an approval     *)
(* nonce is spent by at most one request, and only the request that spent   *)
(* it may authorize an operation, once.  A request may spend the nonce and  *)
(* never authorize anything: every failure is on the safe side.             *)
(***************************************************************************)
CONSTANTS Requests, Nonces, NoOne

VARIABLES
    asked,     \* the nonce each request asked for, or NoOne
    spent,     \* the requests that spent their nonce
    granted    \* the requests that authorized an operation

vars == <<asked, spent, granted>>

Init ==
    /\ asked = [q \in Requests |-> NoOne]
    /\ spent = {}
    /\ granted = {}

Ask(q, n) ==
    /\ asked[q] = NoOne
    /\ asked' = [asked EXCEPT ![q] = n]
    /\ UNCHANGED <<spent, granted>>

Spend(q) ==
    /\ asked[q] # NoOne
    /\ \A p \in spent : asked[p] # asked[q]
    /\ spent' = spent \cup {q}
    /\ UNCHANGED <<asked, granted>>

Grant(q) ==
    /\ q \in spent \ granted
    /\ granted' = granted \cup {q}
    /\ UNCHANGED <<asked, spent>>

Next ==
    \E q \in Requests :
        \/ \E n \in Nonces : Ask(q, n)
        \/ Spend(q)
        \/ Grant(q)

Spec == Init /\ [][Next]_vars
=============================================================================
