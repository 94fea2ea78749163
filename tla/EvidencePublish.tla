-------------------------- MODULE EvidencePublish --------------------------
(***************************************************************************)
(* Publication of one control document of an Evidence package (manifest,    *)
(* summary or redaction report) by _write_bytes_at of                       *)
(* src/sddgov/evidence.py, with remove_owned_at of src/sddgov/fs_security.py *)
(* and the _MutationTransaction that commits or rolls it back.              *)
(*                                                                         *)
(* A generation of the document is an inode: its bytes never change, and    *)
(* names are hard links to it.  Only the public name is shared; the claims  *)
(* and pending names are random and each belongs to one writer.             *)
(* No lock is taken: two commands on one package, an editor that replaces   *)
(* the document, failing system calls and a kill may fall between any two   *)
(* steps.                                                                   *)
(***************************************************************************)
EXTENDS Naturals, FiniteSets

CONSTANTS
    Writers,     \* runs of collect, redact or transition; w is also the
                 \* generation that writer w publishes
    Foreign,     \* generations another program puts at the public name
    First,       \* the generation the package was created with
    None,        \* no generation
    MaxFaults,   \* bound: failing system calls and lost path leases
    MaxCrashes   \* bound: killed writers

ASSUME PublishAssumption ==
    /\ MaxFaults \in Nat /\ MaxCrashes \in Nat
    /\ IsFiniteSet(Writers)
    /\ Writers \cap Foreign = {}
    /\ First \notin Writers \cup Foreign
    /\ None \notin Writers \cup Foreign \cup {First}

VARIABLES
    public,     \* the generation at the public name, or None
    base,       \* what was there at first: First, or None for a new document
    pc,         \* where each writer is
    expected,   \* the generation its snapshot names
    claim,      \* whether .sddgov.control-new-* of the writer exists
    old,        \* the generation .sddgov.control-old-* of the writer links
    pend,       \* the generation it renamed to .sddgov.cleanup-pending-*
    seen,       \* the link count of that generation when it was opened
    reached,    \* how far the writer got before it failed, if it did
    kept,       \* pending names left behind, per generation
    last,       \* the last generation another program put there
    faults,     \* failures so far
    crashes     \* killed writers so far

vars == <<public, base, pc, expected, claim, old, pend, seen, reached, kept,
          last, faults, crashes>>

Generations == Writers \cup Foreign \cup {First}

Steps == {"idle", "check", "linkOld", "take", "settle", "readOld", "publish",
          "unclaim", "confirm", "verify", "finalize", "withdraw", "resettle",
          "restore", "discard", "drop", "committed", "failed", "crashed"}

TypeOK ==
    /\ public \in Generations \cup {None}
    /\ base \in {First, None}
    /\ pc \in [Writers -> Steps]
    /\ expected \in [Writers -> Generations \cup {None}]
    /\ claim \in [Writers -> BOOLEAN]
    /\ old \in [Writers -> Generations \cup {None}]
    /\ pend \in [Writers -> Generations \cup {None}]
    /\ seen \in [Writers -> Nat]
    /\ reached \in [Writers -> {"start", "known", "published", "registered"}]
    /\ kept \in [Generations -> Nat]
    /\ last \in Foreign \cup {None}
    /\ faults \in 0 .. MaxFaults
    /\ crashes \in 0 .. MaxCrashes

Init ==
    /\ base \in {First, None}
    /\ public = base
    /\ pc = [w \in Writers |-> "idle"]
    /\ expected = [w \in Writers |-> None]
    /\ claim = [w \in Writers |-> FALSE]
    /\ old = [w \in Writers |-> None]
    /\ pend = [w \in Writers |-> None]
    /\ seen = [w \in Writers |-> 0]
    /\ reached = [w \in Writers |-> "start"]
    /\ kept = [g \in Generations |-> 0]
    /\ last = None
    /\ faults = 0
    /\ crashes = 0

Goto(w, l) == pc' = [pc EXCEPT ![w] = l]

(* st_nlink of a generation.                                               *)
Links(g) ==
    (IF public = g THEN 1 ELSE 0) + (IF g \in Writers /\ claim[g] THEN 1 ELSE 0)
      + Cardinality({w \in Writers : old[w] = g})
      + Cardinality({w \in Writers : pend[w] = g}) + kept[g]

(* What _read_regular_bytes_at accepts: a regular file with one link.       *)
Readable(g) == g # None /\ Links(g) = 1

(* The public name still holds, alone, the generation in question.          *)
Holds(g) == public = g /\ Readable(g)

(* Where a writer goes when a step raises: it withdraws what it published   *)
(* and puts its predecessor back.                                           *)
Raise(w) ==
    Goto(w, IF reached[w] \in {"published", "registered"} THEN "withdraw"
            ELSE "restore")

-----------------------------------------------------------------------------
(* The command reads the document it will replace, or finds that there is   *)
(* none when it is to create it.                                            *)
ReadExpected(w) ==
    /\ pc[w] = "idle"
    /\ \/ /\ base # None /\ Readable(public)
          /\ expected' = [expected EXCEPT ![w] = public]
          /\ Goto(w, "check")
       \/ /\ base = None /\ public = None
          /\ Goto(w, "check")
          /\ UNCHANGED expected
       \/ /\ IF base = None THEN public # None ELSE ~Readable(public)
          /\ Goto(w, "failed")
          /\ UNCHANGED expected
    /\ UNCHANGED <<public, base, claim, old, pend, seen, reached, kept, last,
                   faults, crashes>>

(* _write_bytes_at checks the generation again and stages the new one: the  *)
(* names it uses until control-new-* is verified are its own.               *)
CheckAndStage(w) ==
    /\ pc[w] = "check"
    /\ \/ /\ IF base = None THEN public = None ELSE Holds(expected[w])
          /\ claim' = [claim EXCEPT ![w] = TRUE]
          /\ Goto(w, IF base = None THEN "publish" ELSE "linkOld")
       \/ /\ IF base = None THEN public # None ELSE ~Holds(expected[w])
          /\ Goto(w, "failed")
          /\ UNCHANGED claim
    /\ UNCHANGED <<public, base, expected, old, pend, seen, reached, kept, last,
                   faults, crashes>>

(* Mutant: the predecessor is not claimed before its name is taken.         *)
LinkOldSkipped(w) ==
    /\ pc[w] = "linkOld"
    /\ Goto(w, "take")
    /\ UNCHANGED <<public, base, expected, claim, old, pend, seen, reached, kept,
                   last, faults, crashes>>

(* It links whatever is at the public name now as its predecessor.          *)
LinkOld(w) ==
    /\ pc[w] = "linkOld"
    /\ \/ /\ public # None
          /\ old' = [old EXCEPT ![w] = public]
          /\ Goto(w, "take")
       \/ /\ public = None
          /\ Raise(w)
          /\ UNCHANGED old
    /\ UNCHANGED <<public, base, expected, claim, pend, seen, reached, kept,
                   last, faults, crashes>>

-----------------------------------------------------------------------------
(* remove_owned_at on the public name, for the predecessor ("take") or for  *)
(* what the writer published itself ("withdraw").                           *)
Withdrawing(w) == pc[w] \in {"withdraw", "resettle"}

Owned(w) == IF Withdrawing(w) THEN w ELSE expected[w]

AfterRemoval(w) == IF Withdrawing(w) THEN "restore" ELSE "readOld"

(* rollback_publication gives up the predecessor's turn when the removal    *)
(* raises; the handler inside _write_bytes_at goes on to it.                 *)
AfterRaise(w) ==
    IF Withdrawing(w) /\ reached[w] = "registered" THEN "drop" ELSE "restore"

(* exclusive_rename_at moves the public name to a private one.              *)
Take(w) ==
    /\ pc[w] \in {"take", "withdraw"}
    /\ \/ /\ public # None
          /\ pend' = [pend EXCEPT ![w] = public]
          /\ seen' = [seen EXCEPT ![w] = Links(public)]
          /\ public' = None
          /\ Goto(w, IF Withdrawing(w) THEN "resettle" ELSE "settle")
       \/ /\ public = None
          /\ Goto(w, AfterRemoval(w))
          /\ UNCHANGED <<public, pend, seen>>
    /\ UNCHANGED <<base, expected, claim, old, reached, kept, last, faults,
                   crashes>>

(* The pending name is unlinked.                                            *)
Unlink(w) ==
    /\ pend' = [pend EXCEPT ![w] = None]
    /\ UNCHANGED <<public, kept>>

(* restore_claim: rename back, but never over a later writer.               *)
RestoreClaim(w) ==
    /\ pend' = [pend EXCEPT ![w] = None]
    /\ \/ /\ public = None
          /\ public' = pend[w]
          /\ UNCHANGED kept
       \/ /\ public # None
          /\ kept' = [kept EXCEPT ![pend[w]] = @ + 1]
          /\ UNCHANGED public

(* The pending name stays.                                                  *)
Keep(w) ==
    /\ pend' = [pend EXCEPT ![w] = None]
    /\ kept' = [kept EXCEPT ![pend[w]] = @ + 1]
    /\ UNCHANGED public

(* Mutant: whatever was taken is unlinked.                                  *)
SettleBlindly(w) ==
    /\ pc[w] \in {"settle", "resettle"}
    /\ Unlink(w)
    /\ Goto(w, AfterRemoval(w))
    /\ UNCHANGED <<base, expected, claim, old, seen, reached, last, faults,
                   crashes>>

(* What was taken is the writer's and is unlinked, or it is somebody else's *)
(* (or its links changed while it was read) and goes back.                  *)
Settle(w) ==
    /\ pc[w] \in {"settle", "resettle"}
    /\ \/ /\ pend[w] = Owned(w)
          /\ Unlink(w)
          /\ Goto(w, AfterRemoval(w))
       \/ /\ pend[w] # Owned(w) \/ Links(pend[w]) # seen[w]
          /\ RestoreClaim(w)
          /\ Goto(w, IF public = None THEN AfterRemoval(w) ELSE AfterRaise(w))
    /\ seen' = [seen EXCEPT ![w] = 0]
    /\ UNCHANGED <<base, expected, claim, old, reached, last, faults, crashes>>

-----------------------------------------------------------------------------
(* The predecessor's claim must be the only link left and must name the     *)
(* expected generation.  Otherwise the claim cannot be identified and stays. *)
ReadOld(w) ==
    /\ pc[w] = "readOld"
    /\ \/ /\ Readable(old[w]) /\ old[w] = expected[w]
          /\ reached' = [reached EXCEPT ![w] = "known"]
          /\ Goto(w, "publish")
       \/ /\ ~Readable(old[w]) \/ old[w] # expected[w]
          /\ Raise(w)
          /\ UNCHANGED reached
    /\ UNCHANGED <<public, base, expected, claim, old, pend, seen, kept, last,
                   faults, crashes>>

(* Mutant: os.replace instead of os.link.                                   *)
PublishClobbers(w) ==
    /\ pc[w] = "publish"
    /\ public' = w
    /\ reached' = [reached EXCEPT ![w] = "published"]
    /\ Goto(w, "unclaim")
    /\ UNCHANGED <<base, expected, claim, old, pend, seen, kept, last, faults,
                   crashes>>

(* os.link to the public name: a later writer is not clobbered.             *)
Publish(w) ==
    /\ pc[w] = "publish"
    /\ \/ /\ public = None
          /\ public' = w
          /\ reached' = [reached EXCEPT ![w] = "published"]
          /\ Goto(w, "unclaim")
       \/ /\ public # None
          /\ Raise(w)
          /\ UNCHANGED <<public, reached>>
    /\ UNCHANGED <<base, expected, claim, old, pend, seen, kept, last, faults,
                   crashes>>

(* control-new-* is removed.                                                *)
Unclaim(w) ==
    /\ pc[w] = "unclaim"
    /\ claim' = [claim EXCEPT ![w] = FALSE]
    /\ Goto(w, "confirm")
    /\ UNCHANGED <<public, base, expected, old, pend, seen, reached, kept, last,
                   faults, crashes>>

(* require_exact on the public name, then the publication is registered     *)
(* with the transaction.                                                    *)
Confirm(w) ==
    /\ pc[w] = "confirm"
    /\ \/ /\ Holds(w)
          /\ reached' = [reached EXCEPT ![w] = "registered"]
          /\ Goto(w, "verify")
       \/ /\ ~Holds(w)
          /\ Raise(w)
          /\ UNCHANGED reached
    /\ UNCHANGED <<public, base, expected, claim, old, pend, seen, kept, last,
                   faults, crashes>>

(* transaction.finalize: verify_publication ...                             *)
Verify(w) ==
    /\ pc[w] = "verify"
    /\ IF Holds(w) THEN Goto(w, "finalize") ELSE Raise(w)
    /\ UNCHANGED <<public, base, expected, claim, old, pend, seen, reached, kept,
                   last, faults, crashes>>

(* ... then finalize_predecessor.                                           *)
Finalize(w) ==
    /\ pc[w] = "finalize"
    /\ old' = [old EXCEPT ![w] = None]
    /\ Goto(w, "committed")
    /\ UNCHANGED <<public, base, expected, claim, pend, seen, reached, kept,
                   last, faults, crashes>>

-----------------------------------------------------------------------------
(* Mutant: the predecessor is not put back.                                 *)
RestoreOldForgotten(w) ==
    /\ pc[w] = "restore"
    /\ Goto(w, "drop")
    /\ UNCHANGED <<public, base, expected, claim, old, pend, seen, reached, kept,
                   last, faults, crashes>>

(* Mutant: the predecessor is renamed back over whatever is there.          *)
RestoreOldClobbers(w) ==
    /\ pc[w] = "restore"
    /\ public' = IF old[w] = None THEN public ELSE old[w]
    /\ Goto(w, "discard")
    /\ UNCHANGED <<base, expected, claim, old, pend, seen, reached, kept, last,
                   faults, crashes>>

(* restore_old_claim: the predecessor is linked back unless a later writer  *)
(* is there; either way its claim is then discarded.  An unidentified claim *)
(* is an error and stays.                                                   *)
RestoreOld(w) ==
    /\ pc[w] = "restore"
    /\ \/ /\ old[w] # None /\ reached[w] # "start" /\ Readable(old[w])
          /\ public' = IF public = None THEN old[w] ELSE public
          /\ Goto(w, "discard")
       \/ /\ old[w] = None \/ reached[w] = "start" \/ ~Readable(old[w])
          /\ Goto(w, "drop")
          /\ UNCHANGED public
    /\ UNCHANGED <<base, expected, claim, old, pend, seen, reached, kept, last,
                   faults, crashes>>

(* discard_old_claim.                                                       *)
DiscardOld(w) ==
    /\ pc[w] = "discard"
    /\ old' = [old EXCEPT ![w] = None]
    /\ Goto(w, "drop")
    /\ UNCHANGED <<public, base, expected, claim, pend, seen, reached, kept,
                   last, faults, crashes>>

(* The staging claim is removed and the error reaches the caller.           *)
DropClaim(w) ==
    /\ pc[w] = "drop"
    /\ claim' = [claim EXCEPT ![w] = FALSE]
    /\ Goto(w, "failed")
    /\ UNCHANGED <<public, base, expected, old, pend, seen, reached, kept, last,
                   faults, crashes>>

-----------------------------------------------------------------------------
(* A system call fails, the path lease is found lost before finalize, or    *)
(* another document of the same transaction cannot be finalized.            *)
(* remove_owned_at then puts back what it holds, leaves the pending name,   *)
(* or fails after the unlink; any other call fails without an effect.       *)
Fault(w) ==
    /\ faults < MaxFaults
    /\ faults' = faults + 1
    /\ \/ /\ pc[w] = "check"
          /\ Goto(w, "failed")
          /\ UNCHANGED <<public, pend, kept, old, claim>>
       \/ /\ pc[w] \in {"linkOld", "take", "readOld", "publish", "unclaim",
                        "confirm", "verify", "finalize"}
          /\ Raise(w)
          /\ UNCHANGED <<public, pend, kept, old, claim>>
       \/ /\ pc[w] = "withdraw"
          /\ Goto(w, AfterRaise(w))
          /\ UNCHANGED <<public, pend, kept, old, claim>>
       \/ /\ pc[w] \in {"settle", "resettle"}
          /\ \/ RestoreClaim(w)
             \/ Keep(w)
             \/ pend[w] = Owned(w) /\ Unlink(w)
          /\ Goto(w, AfterRaise(w))
          /\ UNCHANGED <<old, claim>>
       \/ /\ pc[w] \in {"restore", "discard"}
          /\ Goto(w, "drop")
          /\ UNCHANGED <<public, pend, kept, old, claim>>
       \/ /\ pc[w] = "drop"
          /\ Goto(w, "failed")
          /\ UNCHANGED <<public, pend, kept, old, claim>>
    /\ UNCHANGED <<base, expected, seen, reached, last, crashes>>

(* The writer is killed: its names stay.                                    *)
Crash(w) ==
    /\ crashes < MaxCrashes
    /\ pc[w] \notin {"idle", "committed", "failed", "crashed"}
    /\ crashes' = crashes + 1
    /\ Goto(w, "crashed")
    /\ UNCHANGED <<public, base, expected, claim, old, pend, seen, reached, kept,
                   last, faults>>

(* Another program replaces the document by a rename.                       *)
Replace(f) ==
    /\ last # f /\ Links(f) = 0 /\ \A w \in Writers : expected[w] # f
    /\ public' = f
    /\ last' = f
    /\ UNCHANGED <<base, pc, expected, claim, old, pend, seen, reached, kept,
                   faults, crashes>>

WriterStep(w) ==
    \/ ReadExpected(w) \/ CheckAndStage(w) \/ LinkOld(w) \/ Take(w) \/ Settle(w)
    \/ ReadOld(w) \/ Publish(w) \/ Unclaim(w) \/ Confirm(w) \/ Verify(w)
    \/ Finalize(w) \/ RestoreOld(w) \/ DiscardOld(w) \/ DropClaim(w)

Next ==
    \/ \E w \in Writers : WriterStep(w) \/ Fault(w) \/ Crash(w)
    \/ \E f \in Foreign : Replace(f)

Spec == Init /\ [][Next]_vars

-----------------------------------------------------------------------------
(* Only one command has touched the document.                               *)
Solo(w) == \A v \in Writers \ {w} : pc[v] = "idle"

(* No lost update: two commands never both commit a successor of the same   *)
(* generation, however collect, redact and transition interleave, fail and  *)
(* are killed (expected_snapshot and must_not_exist of _write_bytes_at).     *)
NoLostUpdate ==
    \A v, w \in Writers :
        v # w /\ pc[v] = "committed" /\ pc[w] = "committed"
            => expected[v] # expected[w]

(* "Remove only one owned generation while preserving a later writer": a    *)
(* command never takes a link away from a generation that is neither its    *)
(* own nor the one it read as its predecessor; only the program that        *)
(* replaces a document does.                                                *)
OnlyOwnedUnlinked ==
    [][\A g \in Generations :
         Links(g)' < Links(g) =>
            \/ last' # last
            \/ \E w \in Writers : pc'[w] # pc[w] /\ g \in {w, expected[w]}]_vars

(* While one command is at work the predecessor survives a failure and a    *)
(* kill, wherever they fall: the first generation has a link until the      *)
(* command has committed or another program replaced the document.          *)
PredecessorKept ==
    \A w \in Writers :
        /\ Solo(w) /\ base = First /\ last = None /\ faults <= 1
        /\ pc[w] # "committed"
        => Links(First) >= 1

(* A command that fails because of one fault leaves no link of its own      *)
(* generation, and either everything is as it found it, with no other link  *)
(* and no claim, or the fault fell before it had identified the claim on    *)
(* its predecessor: then that claim stays and keeps the predecessor, whose  *)
(* public name may be gone (rollback_publication, restore_old_claim).       *)
RollbackRestores ==
    \A w \in Writers :
        Solo(w) /\ last = None /\ faults <= 1 /\ pc[w] = "failed" =>
            /\ Links(w) = 0
            /\ \/ public = base /\ old[w] = None /\ (base = First => Links(First) = 1)
               \/ /\ reached[w] = "start" /\ old[w] = First
                  /\ public \in {First, None}

(* "A later destination writer wins": when one command has ended without a  *)
(* fault, the last generation another program put at the public name is     *)
(* there, unless the command read it as its predecessor and replaced it.    *)
LaterWriterWins ==
    \A w \in Writers :
        /\ Solo(w) /\ faults = 0 /\ last # None
        /\ pc[w] \in {"committed", "failed"} /\ expected[w] # last
        => public = last

(* "manifest/report/summary writes keep ... atomic replacement": when the   *)
(* commands have ended without a kill, the document exists.                 *)
NameSurvives ==
    /\ base = First
    /\ \A w \in Writers : pc[w] \in {"idle", "committed", "failed"}
    => public # None
=============================================================================
