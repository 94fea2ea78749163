----------------------------- MODULE WorkClaims -----------------------------
(***************************************************************************)
(* Work claims (.sddgov/work-claims.json): claim_work of                    *)
(* src/sddgov/governance.py reads the file, drops the claims that are no    *)
(* longer active, refuses a work package that has an active claim, and      *)
(* replaces the file.  It takes no lock.                                    *)
(***************************************************************************)
EXTENDS Naturals, FiniteSets

CONSTANTS
    Claimants,   \* concurrent runs of `sddgov claim`
    Packages,    \* work packages
    Ttls,        \* the ttl_minutes they ask for
    MaxTtl,      \* 1440
    MaxTime,     \* bound: the clock stops here
    NoPackage    \* an Agent that asks for nothing

VARIABLES
    claims,   \* the claims in the file
    now,      \* the wall clock
    pc,       \* where each Agent is in claim_work
    want,     \* the work package each Agent asks for
    ttl,      \* the lifetime it asks for
    active,   \* the claims it found active
    held      \* the claims logged in events.jsonl and returned, while unexpired

claimVars == <<claims, now, pc, want, ttl, active, held>>

Claim == [package : Packages, agent : Claimants, expires : 1 .. MaxTime + MaxTtl]

ClaimsTypeOK ==
    /\ claims \subseteq Claim
    /\ now \in 0 .. MaxTime
    /\ pc \in [Claimants -> {"idle", "read", "write", "emit"}]
    /\ want \in [Claimants -> Packages \cup {NoPackage}]
    /\ ttl \in [Claimants -> 1 .. MaxTtl]
    /\ active \in [Claimants -> SUBSET Claim]
    /\ held \subseteq Claim

ClaimsInit ==
    /\ claims = {}
    /\ now = 0
    /\ pc = [a \in Claimants |-> "idle"]
    /\ want = [a \in Claimants |-> NoPackage]
    /\ ttl = [a \in Claimants |-> 1]
    /\ active = [a \in Claimants |-> {}]
    /\ held = {}

Goto(a, l) == pc' = [pc EXCEPT ![a] = l]

(* The call ends, and with it what the Agent had in memory.                 *)
EndCall(a) ==
    /\ active' = [active EXCEPT ![a] = {}]
    /\ want' = [want EXCEPT ![a] = NoPackage]
    /\ ttl' = [ttl EXCEPT ![a] = 1]
    /\ Goto(a, "idle")

-----------------------------------------------------------------------------
(* claim_work, in its steps: read, check, replace, event                    *)

(* ttl_minutes is checked, then the file is read.                           *)
Begin(a, p, t) ==
    /\ pc[a] = "idle"
    /\ t \in 1 .. MaxTtl
    /\ want' = [want EXCEPT ![a] = p]
    /\ ttl' = [ttl EXCEPT ![a] = t]
    /\ active' = [active EXCEPT ![a] = claims]
    /\ Goto(a, "read")
    /\ UNCHANGED <<claims, now, held>>

(* The claims whose expiry lies after the time read now.                    *)
StillActive(S) == {c \in S : c.expires > now}

Taken(S, p) == \E c \in S : c.package = p

NewClaim(a) == [package |-> want[a], agent |-> a, expires |-> now + ttl[a]]

RefuseClaim(a) ==
    /\ pc[a] = "read"
    /\ Taken(StillActive(active[a]), want[a])
    /\ EndCall(a)
    /\ UNCHANGED <<claims, now, held>>

Prepare(a) ==
    /\ pc[a] = "read"
    /\ ~Taken(StillActive(active[a]), want[a])
    /\ active' = [active EXCEPT ![a] = StillActive(active[a]) \cup {NewClaim(a)}]
    /\ Goto(a, "write")
    /\ UNCHANGED <<claims, now, want, ttl, held>>

Mine(a) == CHOOSE c \in active[a] : c.agent = a /\ c.package = want[a]

(* _write replaces the file with what this Agent has in memory.             *)
Replace(a) ==
    /\ pc[a] = "write"
    /\ claims' = active[a]
    /\ Goto(a, "emit")
    /\ UNCHANGED <<now, want, ttl, active, held>>

(* The event is appended and the claim is returned to the Agent.            *)
EmitAndReturn(a) ==
    /\ pc[a] = "emit"
    /\ held' = held \cup {Mine(a)}
    /\ EndCall(a)
    /\ UNCHANGED <<claims, now>>

Crash(a) ==
    /\ pc[a] # "idle"
    /\ EndCall(a)
    /\ UNCHANGED <<claims, now, held>>

(* Claims nobody can act on any more are forgotten with the clock.          *)
Tick ==
    /\ now < MaxTime
    /\ now' = now + 1
    /\ held' = {c \in held : c.expires > now + 1}
    /\ UNCHANGED <<claims, pc, want, ttl, active>>

ClaimsNext ==
    \/ \E a \in Claimants :
          \/ \E p \in Packages, t \in Ttls : Begin(a, p, t)
          \/ RefuseClaim(a) \/ Prepare(a) \/ Replace(a) \/ EmitAndReturn(a)
          \/ Crash(a)
    \/ Tick

ClaimsSpec == ClaimsInit /\ [][ClaimsNext]_claimVars

-----------------------------------------------------------------------------
(* Properties                                                               *)

Live(S) == {c \in S : c.expires > now}

Disjoint(S) == \A c, d \in S : c.package = d.package => c = d

(* What the error "already has an active claim" and its test promise: a     *)
(* work package has one holder at a time.                                   *)
OneHolder == Disjoint(Live(held))
=============================================================================
