---------------------------- MODULE EvidenceFlow ----------------------------
(***************************************************************************)
(* One Debug Evidence Package: collect, redact, transition and attach of    *)
(* src/sddgov/evidence.py, run by several processes without a lock.         *)
(*                                                                         *)
(* manifest.json and summary.yaml are replaced step by step as in           *)
(* _write_bytes_at: the name is empty between the moment a command takes    *)
(* its predecessor away and the moment it links its own document.           *)
(* (EvidencePublish adds failing system calls, other programs and the link  *)
(* of the staged document to these steps; here the documents have a         *)
(* content, and several are published in one transaction.)                  *)
(*                                                                         *)
(* A document is a record with the command that wrote it as its generation; *)
(* the content of an artifact is the collect that wrote it.                 *)
(***************************************************************************)
EXTENDS Naturals, FiniteSets

CONSTANTS
    Collects, Redacts, Moves, Attaches,   \* the commands, each run once
    Names,        \* file names of artifacts
    Opaque,       \* the names redaction blocks: HAR files and binaries
    LastPhase,    \* the number of the phase "proof"; "red" is 0
    Made,         \* the generation make_dep wrote
    None,         \* no file, no document
    MaxTrouble,   \* bound: leases found lost at commit and killed commands
    Teams         \* bound: the sets of commands that are run together

Writers == Collects \cup Redacts \cup Moves
Verifiers == Moves \cup Attaches
Commands == Writers \cup Attaches

ASSUME FlowAssumption ==
    /\ IsFiniteSet(Commands)
    /\ LastPhase \in Nat \ {0}
    /\ MaxTrouble \in Nat
    /\ Teams \subseteq SUBSET Commands
    /\ Opaque \subseteq Names
    /\ Made \notin Commands /\ None \notin Commands \cup {Made} \cup Names
    /\ Collects \cap (Redacts \cup Moves \cup Attaches) = {}
    /\ Redacts \cap (Moves \cup Attaches) = {} /\ Moves \cap Attaches = {}

VARIABLES
    docs,       \* manifest.json and summary.yaml, or None
    report,     \* redaction-report.json, or None
    rawDir,     \* private/raw
    shareDir,   \* shareable/artifacts: the content and the redact it is from
    pc,         \* where each command is
    mem,        \* what it has in memory
    old,        \* the document its .sddgov.control-old-* links
    pend,       \* the document it renamed to .cleanup-pending-*
    kept,       \* documents left under such a name for good
    residue,    \* commands killed with a staged document
    trouble,    \* leases lost and commands killed so far
    undone,     \* history: commands that took back what they had published
    missed,     \* history: those of them whose removal removed nothing
    withdrawn   \* history: redacts that took their report back

names == <<docs, old, pend, kept>>
zones == <<report, rawDir, shareDir>>
history == <<residue, trouble, undone, missed, withdrawn>>
vars == <<names, zones, pc, mem, history>>

Row == [name : Names, by : Collects]
Manifest == [gen : Commands \cup {Made}, raw : SUBSET Row, share : SUBSET Row]
Summary == [gen : Moves \cup {Made}, phase : 0 .. LastPhase]
Report == [gen : Redacts, rows : SUBSET Row]
Output == [by : Collects, via : Redacts]

(* The memory of a command: the manifest and the summary it read, the file  *)
(* name a collect chose, the raw files a redact has still to read, the rows *)
(* of the report it prepares, and the links of what it took away.           *)
NewManifest == [gen |-> Made, raw |-> {}, share |-> {}]
NewSummary == [gen |-> Made, phase |-> 0]
Blank == [m |-> NewManifest, s |-> NewSummary, name |-> None, todo |-> {},
          found |-> {}, links |-> 0]

ASSUME NoneAssumption == None \notin Manifest \cup Summary \cup Report \cup Output

Memory == [m : Manifest, s : Summary, name : Names \cup {None},
           todo : SUBSET Names, found : SUBSET Row, links : Nat]

Maybe(documents) == documents \cup {None}

TypeOK ==
    /\ docs \in [manifest : Maybe(Manifest), summary : Maybe(Summary)]
    /\ report \in Maybe(Report)
    /\ rawDir \in [Names -> Maybe(Collects)]
    /\ shareDir \in [Names -> Maybe(Output)]
    /\ mem \in [Commands -> Memory]
    /\ \A name \in {old, pend} : name \in [Writers -> Maybe(Manifest \cup Summary)]
    /\ kept \subseteq Manifest \cup Summary
    /\ trouble \in 0 .. MaxTrouble
    /\ residue \cup undone \cup missed \subseteq Commands /\ withdrawn \subseteq Redacts

(* make_dep has just published the package.                                 *)
Init ==
    /\ docs = [manifest |-> NewManifest, summary |-> NewSummary]
    /\ report = None
    /\ rawDir = [n \in Names |-> None]
    /\ shareDir = [n \in Names |-> None]
    /\ \E team \in Teams :
          pc = [c \in Commands |-> IF c \in team THEN "idle" ELSE "failed"]
    /\ mem = [c \in Commands |-> Blank]
    /\ old = [c \in Writers |-> None]
    /\ pend = [c \in Writers |-> None]
    /\ kept = {} /\ residue = {} /\ trouble = 0
    /\ undone = {} /\ missed = {} /\ withdrawn = {}

At(c, l) == pc[c] = l

(* The next step, with new contents of the memory ...                       *)
Learn(c, l, contents) ==
    /\ pc' = [pc EXCEPT ![c] = l]
    /\ mem' = [mem EXCEPT ![c] = contents]

(* ... or the same; a command that ends forgets what it had in memory, but  *)
(* for what a transition and an attachment were based on.                   *)
Goto(c, l) ==
    Learn(c, l, IF l = "failed" \/ (l = "done" /\ c \notin Moves) THEN Blank ELSE mem[c])

NamesOf(rows) == {row.name : row \in rows}
Distinct(rows) == Cardinality(NamesOf(rows)) = Cardinality(rows)
Clear(rows) == {row \in rows : row.name \notin Opaque}
Files(zone) == {n \in Names : zone[n] # None}

\* st_nlink of a control document.
Links(d) ==
    Cardinality({f \in DOMAIN docs : docs[f] = d})
      + Cardinality({c \in Writers : old[c] = d})
      + Cardinality({c \in Writers : pend[c] = d})
      + IF d \in kept THEN 1 ELSE 0

\* _read_regular_bytes_at reads a document with one link.
Readable(d) == d # None /\ Links(d) = 1

-----------------------------------------------------------------------------
(* _write_bytes_at and its transaction.  The document a command replaces,   *)
(* the generation it expects there and the one it publishes.                *)
Target(c) == IF c \in Moves THEN "summary" ELSE "manifest"

(* Mutant: whatever the command has claimed is what it expected.            *)
ExpectedAsClaimed(c) == IF old[c] = None THEN docs[Target(c)] ELSE old[c]

Expected(c) == IF c \in Moves THEN mem[c].s ELSE mem[c].m

\* collect adds its row; redact brings the raw rows to what was read and the
\* shareable rows to what was written; transition advances by one phase.
Own(c) ==
    CASE c \in Collects ->
           [gen |-> c,
            raw |-> mem[c].m.raw \cup {[name |-> mem[c].name, by |-> c]},
            share |-> mem[c].m.share]
      [] c \in Redacts ->
           [gen |-> c,
            raw |-> {row \in mem[c].found : row.name \in NamesOf(mem[c].m.raw)},
            share |-> Clear(mem[c].found)]
      [] OTHER -> [gen |-> c, phase |-> mem[c].s.phase + 1]

\* Where a command goes when it has published nothing, or taken it back.
Failing(c) ==
    CASE c \in Collects -> {"clean"}
      [] c \in Redacts -> {"outputs"}
      [] OTHER -> {"failed"}
Undone(c) == IF c \in Redacts THEN {"outputs", "clean"} ELSE Failing(c)

Put(c, d) == docs' = [docs EXCEPT ![Target(c)] = d]
There(c) == docs[Target(c)]

OwnReport(r) == report # None /\ report.gen = r

(* The other publications of the transaction stand.                         *)
OthersStand(c) ==
    /\ c \in Collects => rawDir[mem[c].name] = c
    /\ c \in Redacts =>
         /\ OwnReport(c)
         /\ \A row \in Clear(mem[c].found) :
              shareDir[row.name] = [by |-> row.by, via |-> c]

(* The expected generation is still there, and the new one is staged; the   *)
(* report of a redact is read again before ...                              *)
Check(c) ==
    /\ At(c, "save")
    /\ \/ /\ There(c) = Expected(c) /\ Readable(There(c))
          /\ c \in Redacts => OwnReport(c)
          /\ Goto(c, "claim")
       \/ /\ \/ There(c) # Expected(c) \/ ~Readable(There(c))
             \/ c \in Redacts /\ ~OwnReport(c)
          /\ \E l \in Failing(c) : Goto(c, l)
    /\ UNCHANGED <<names, zones, history>>

(* ... then whatever is at the name is claimed ...                          *)
ClaimOld(c) ==
    /\ At(c, "claim")
    /\ \/ /\ There(c) # None
          /\ old' = [old EXCEPT ![c] = There(c)]
          /\ Goto(c, "take")
       \/ /\ There(c) = None
          /\ \E l \in Failing(c) : Goto(c, l)
          /\ UNCHANGED old
    /\ UNCHANGED <<docs, pend, kept, zones, history>>

(* ... and taken away: remove_owned_at, of the predecessor or, in a         *)
(* rollback, of the command's own document.                                 *)
Take(c) ==
    /\ pc[c] \in {"take", "withdraw"} /\ There(c) # None
    /\ pend' = [pend EXCEPT ![c] = There(c)]
    /\ Put(c, None)
    /\ Learn(c, IF At(c, "take") THEN "settle" ELSE "resettle",
             [mem[c] EXCEPT !.links = Links(There(c))])
    /\ undone' = IF At(c, "withdraw") THEN undone \cup {c} ELSE undone
    /\ UNCHANGED <<old, kept, zones, residue, trouble, missed, withdrawn>>

(* There may be nothing to take: that is no error, not even in a rollback.  *)
TakeNothing(c) ==
    /\ pc[c] \in {"take", "withdraw"} /\ There(c) = None
    /\ Goto(c, IF At(c, "take") THEN "identify" ELSE "restore")
    /\ undone' = IF At(c, "withdraw") THEN undone \cup {c} ELSE undone
    /\ missed' = IF At(c, "withdraw") THEN missed \cup {c} ELSE missed
    /\ UNCHANGED <<names, zones, residue, trouble, withdrawn>>

Owned(c) == IF At(c, "settle") THEN Expected(c) ELSE Own(c)

(* What was taken is the command's and is unlinked; ...                     *)
SettleOwned(c) ==
    /\ pc[c] \in {"settle", "resettle"}
    /\ pend[c] = Owned(c)
    /\ pend' = [pend EXCEPT ![c] = None]
    /\ Goto(c, IF At(c, "settle") THEN "identify" ELSE "restore")
    /\ UNCHANGED <<docs, old, kept, zones, history>>

(* ... or it is somebody else's, or its links changed, and it goes back,    *)
(* but never over a later document.                                         *)
SettleForeign(c) ==
    /\ pc[c] \in {"settle", "resettle"}
    /\ pend[c] # Owned(c) \/ Links(pend[c]) # mem[c].links
    /\ \/ /\ There(c) = None
          /\ Put(c, pend[c])
          /\ Goto(c, IF At(c, "settle") THEN "identify" ELSE "restore")
          /\ UNCHANGED kept
       \/ /\ There(c) # None
          /\ kept' = kept \cup {pend[c]}
          /\ \E l \in (IF At(c, "settle") THEN Failing(c) ELSE Undone(c) \cup {"restore"}) :
                Goto(c, l)
          /\ UNCHANGED docs
    /\ pend' = [pend EXCEPT ![c] = None]
    /\ missed' = IF At(c, "resettle") THEN missed \cup {c} ELSE missed
    /\ UNCHANGED <<old, zones, residue, trouble, undone, withdrawn>>

(* The claim must be the last link and name the expected generation.        *)
(* Otherwise it stays.                                                      *)
Identify(c) ==
    /\ At(c, "identify")
    /\ \/ /\ old[c] = Expected(c) /\ Readable(old[c])
          /\ Goto(c, "publish")
       \/ /\ old[c] # Expected(c) \/ ~Readable(old[c])
          /\ \E l \in Failing(c) : Goto(c, l)
    /\ UNCHANGED <<names, zones, history>>

(* os.link of the new document, or a later writer was faster.               *)
Publish(c) ==
    /\ At(c, "publish")
    /\ \/ There(c) = None /\ Put(c, Own(c)) /\ Goto(c, "commit")
       \/ There(c) # None /\ Goto(c, "restore") /\ UNCHANGED docs
    /\ UNCHANGED <<old, pend, kept, zones, history>>

(* Mutant: what fails the verification is not taken away.                   *)
CommitLeavesDocument(c) ==
    /\ At(c, "commit")
    /\ \E l \in (IF There(c) = Own(c) /\ Readable(There(c)) /\ OthersStand(c)
                 THEN {"finalize"} ELSE Failing(c)) : Goto(c, l)
    /\ UNCHANGED <<names, zones, history>>

(* transaction.finalize: everything published is verified ...               *)
Commit(c) ==
    /\ At(c, "commit")
    /\ Goto(c, IF There(c) = Own(c) /\ Readable(There(c)) /\ OthersStand(c)
               THEN "finalize" ELSE "withdraw")
    /\ UNCHANGED <<names, zones, history>>

(* ... and the claim on the predecessor is removed.                         *)
Finalize(c) ==
    /\ At(c, "finalize")
    /\ old' = [old EXCEPT ![c] = None]
    /\ Goto(c, "done")
    /\ UNCHANGED <<docs, pend, kept, zones, history>>

(* The path of the package changed under the command: on_change rolls back. *)
LeaseLost(c) ==
    /\ At(c, "commit") /\ trouble < MaxTrouble
    /\ trouble' = trouble + 1
    /\ Goto(c, "withdraw")
    /\ UNCHANGED <<names, zones, residue, undone, missed, withdrawn>>

(* restore_old_claim: the predecessor goes back to its name unless a later  *)
(* document is there ...                                                    *)
Restore(c) ==
    /\ At(c, "restore")
    /\ \/ /\ Readable(old[c])
          /\ IF There(c) = None THEN Put(c, old[c]) ELSE UNCHANGED docs
          /\ Goto(c, "discard")
       \/ /\ ~Readable(old[c])
          /\ \E l \in Undone(c) : Goto(c, l)
          /\ UNCHANGED docs
    /\ UNCHANGED <<old, pend, kept, zones, history>>

(* ... and either way the claim is discarded.                               *)
DiscardOld(c) ==
    /\ At(c, "discard")
    /\ old' = [old EXCEPT ![c] = None]
    /\ \E l \in Undone(c) : Goto(c, l)
    /\ UNCHANGED <<docs, pend, kept, zones, history>>

Staged == {"claim", "take", "settle", "identify", "publish", "commit", "finalize",
           "withdraw", "resettle", "restore", "discard"}

(* A transaction has left, or still has, a name of its own in the package.  *)
Residue ==
    \/ kept # {} \/ residue # {}
    \/ \E c \in Writers : old[c] # None \/ pend[c] # None \/ pc[c] \in Staged

-----------------------------------------------------------------------------
(* collect.  It looks for a redaction report ...                            *)
CollectReadReport(c) ==
    /\ At(c, "idle")
    /\ Goto(c, IF report = None THEN "manifest" ELSE "failed")
    /\ UNCHANGED <<names, zones, history>>

(* ... then reads the manifest and chooses the file name ...                *)
CollectReadManifest(c) ==
    /\ At(c, "manifest")
    /\ LET m == docs.manifest
           open == Readable(m) /\ m.share = {} IN
       \/ /\ open
          /\ \E n \in Names : Learn(c, "raw", [mem[c] EXCEPT !.m = m, !.name = n])
       \/ ~open /\ Goto(c, "failed")
    /\ UNCHANGED <<names, zones, history>>

(* ... creates the raw artifact with O_EXCL ...                             *)
CollectWriteRaw(c) ==
    /\ At(c, "raw")
    /\ \/ /\ rawDir[mem[c].name] = None
          /\ rawDir' = [rawDir EXCEPT ![mem[c].name] = c]
          /\ Goto(c, "save")
       \/ /\ rawDir[mem[c].name] # None
          /\ Goto(c, "failed")
          /\ UNCHANGED rawDir
    /\ UNCHANGED <<names, report, shareDir, history>>

(* ... and replaces the manifest; if it fails, cleanup_owned_raw.           *)
CollectCleanup(c) ==
    /\ At(c, "clean") /\ c \in Collects
    /\ rawDir' = [rawDir EXCEPT ![mem[c].name] = IF @ = c THEN None ELSE @]
    /\ Goto(c, "failed")
    /\ UNCHANGED <<names, report, shareDir, history>>

-----------------------------------------------------------------------------
(* redact.  It reads the manifest ...                                       *)
RedactReadManifest(r) ==
    /\ At(r, "idle")
    /\ \/ /\ Readable(docs.manifest)
          /\ Learn(r, "report", [mem[r] EXCEPT !.m = docs.manifest])
       \/ ~Readable(docs.manifest) /\ Goto(r, "failed")
    /\ UNCHANGED <<names, zones, history>>

(* ... finds no report and distinct raw paths ...                           *)
RedactReadReport(r) ==
    /\ At(r, "report")
    /\ Goto(r, IF report = None /\ Distinct(mem[r].m.raw) THEN "zone" ELSE "failed")
    /\ UNCHANGED <<names, zones, history>>

(* ... lists the raw zone, whatever the manifest says, and wants an empty   *)
(* shareable zone ...                                                       *)
RedactList(r) ==
    /\ At(r, "zone")
    /\ \/ /\ Files(shareDir) = {}
          /\ Learn(r, "files", [mem[r] EXCEPT !.todo = Files(rawDir)])
       \/ Files(shareDir) # {} /\ Goto(r, "failed")
    /\ UNCHANGED <<names, zones, history>>

(* ... redacts each file to an output it does not clobber, or blocks it ... *)
RedactFile(r) ==
    /\ At(r, "files")
    /\ \E n \in mem[r].todo :
         \/ /\ rawDir[n] # None
            /\ n \in Opaque \/ shareDir[n] = None
            /\ shareDir' = IF n \in Opaque THEN shareDir
                           ELSE [shareDir EXCEPT ![n] = [by |-> rawDir[n], via |-> r]]
            /\ Learn(r, "files",
                     [mem[r] EXCEPT !.todo = @ \ {n},
                                    !.found = @ \cup {[name |-> n, by |-> rawDir[n]]}])
         \/ /\ \/ rawDir[n] = None
               \/ n \notin Opaque /\ shareDir[n] # None
            /\ Goto(r, "outputs")
            /\ UNCHANGED shareDir
    /\ UNCHANGED <<names, report, rawDir, history>>

(* ... requires that every row of the manifest was read, and publishes the  *)
(* report, which must not exist, before the manifest.                       *)
RedactSaveReport(r) ==
    /\ At(r, "files") /\ mem[r].todo = {}
    /\ LET covered == Readable(docs.summary) /\ NamesOf(mem[r].m.raw) \subseteq NamesOf(mem[r].found) IN
         \/ /\ covered /\ report = None
            /\ report' = [gen |-> r, rows |-> mem[r].found]
            /\ Goto(r, "save")
         \/ /\ ~covered \/ report # None
            /\ Goto(r, "outputs")
            /\ UNCHANGED report
    /\ UNCHANGED <<names, rawDir, shareDir, history>>

OwnOutputsRemoved(r) ==
    [n \in Names |-> IF shareDir[n] # None /\ shareDir[n].via = r THEN None
                     ELSE shareDir[n]]

(* A failure removes the outputs first (cleanup_owned_outputs) ...          *)
RedactCleanup(r) ==
    /\ At(r, "outputs")
    /\ shareDir' = OwnOutputsRemoved(r)
    /\ Goto(r, "clean")
    /\ UNCHANGED <<names, report, rawDir, history>>

(* ... and the transaction, rolled back, the report, whatever became of the *)
(* manifest ...                                                             *)
RedactRollbackReport(r) ==
    /\ At(r, "clean") /\ r \in Redacts
    /\ report' = IF OwnReport(r) THEN None ELSE report
    /\ withdrawn' = IF OwnReport(r) THEN withdrawn \cup {r} ELSE withdrawn
    /\ Goto(r, "last")
    /\ UNCHANGED <<names, rawDir, shareDir, residue, trouble, undone, missed>>

(* ... and the outputs that are still there.                                *)
RedactRollbackOutputs(r) ==
    /\ At(r, "last")
    /\ shareDir' = OwnOutputsRemoved(r)
    /\ Goto(r, "failed")
    /\ UNCHANGED <<names, report, rawDir, history>>

-----------------------------------------------------------------------------
(* transition reads the summary; it advances by exactly one phase.          *)
MoveRead(t) ==
    /\ At(t, "idle")
    /\ \/ /\ Readable(docs.summary) /\ docs.summary.phase < LastPhase
          /\ Learn(t, "list", [mem[t] EXCEPT !.s = docs.summary])
       \/ /\ ~(Readable(docs.summary) /\ docs.summary.phase < LastPhase)
          /\ Goto(t, "failed")
    /\ UNCHANGED <<names, zones, history>>

(* _verify_open of transition and attach.  No name of a transaction is in   *)
(* the package ...                                                          *)
VerifyList(v) ==
    /\ At(v, IF v \in Moves THEN "list" ELSE "idle")
    /\ ~Residue
    /\ Goto(v, "summary")
    /\ UNCHANGED <<names, zones, history>>

(* Mutant: an attachment is generated in any phase.                         *)
VerifySummaryAnyPhase(v) ==
    /\ At(v, "summary") /\ Readable(docs.summary)
    /\ Learn(v, "controls",
             IF v \in Moves THEN mem[v] ELSE [mem[v] EXCEPT !.s = docs.summary])
    /\ UNCHANGED <<names, zones, history>>

(* ... the summary is read, to which a transition has its own successor; an *)
(* attachment needs the last phase ...                                      *)
VerifySummary(v) ==
    /\ At(v, "summary") /\ Readable(docs.summary)
    /\ v \in Attaches => docs.summary.phase = LastPhase
    /\ Learn(v, "controls",
             IF v \in Moves THEN mem[v] ELSE [mem[v] EXCEPT !.s = docs.summary])
    /\ UNCHANGED <<names, zones, history>>

(* ... the manifest is read and lists evidence ...                          *)
VerifyManifest(v) ==
    /\ At(v, "controls") /\ Readable(docs.manifest)
    /\ docs.manifest.raw # {}
    /\ Learn(v, "required", [mem[v] EXCEPT !.m = docs.manifest])
    /\ UNCHANGED <<names, zones, history>>

(* Mutant: the phase requires no report.                                    *)
VerifyRequiredLater(v) ==
    /\ At(v, "required")
    /\ Goto(v, "verify")
    /\ UNCHANGED <<names, zones, history>>

(* ... the report is among the documents the phase requires ...             *)
VerifyRequired(v) ==
    /\ At(v, "required") /\ report # None
    /\ Goto(v, "verify")
    /\ UNCHANGED <<names, zones, history>>

(* _verify_redaction_associations: every raw row is in the report, once,    *)
(* and the report knows no others; the outputs are the shareable rows.      *)
Associated(m) == report.rows = m.raw /\ Clear(report.rows) = m.share

(* ... it is read once more; only a report that is still there is asked     *)
(* whether it is complete and blocks nothing ...                            *)
VerifyReport(v) ==
    /\ At(v, "verify")
    /\ report # None =>
         /\ NamesOf(report.rows) \cap Opaque = {}
         /\ mem[v].m.share # {}
         /\ Associated(mem[v].m)
    /\ Goto(v, "artifacts")
    /\ UNCHANGED <<names, zones, history>>

(* The rows have the artifacts they name.                                   *)
Present(m) ==
    /\ \A row \in m.raw : rawDir[row.name] = row.by
    /\ \A row \in m.share : shareDir[row.name] # None /\ shareDir[row.name].by = row.by

(* ... and rows and files of both zones agree (_verify_manifest_artifacts). *)
VerifyArtifacts(v) ==
    /\ At(v, "artifacts")
    /\ LET m == mem[v].m IN
         /\ Distinct(m.raw) /\ Present(m)
         /\ Files(rawDir) = NamesOf(m.raw) /\ Files(shareDir) = NamesOf(m.share)
    /\ Goto(v, IF v \in Moves THEN "save" ELSE "link")
    /\ UNCHANGED <<names, zones, history>>

(* Any check may fail: also the Markdown records and the schema, which are  *)
(* left out.                                                                *)
VerifyRefuses(v) ==
    /\ \/ pc[v] \in {"list", "summary", "controls", "required", "verify", "artifacts"}
       \/ At(v, "idle") /\ v \in Attaches
    /\ Goto(v, "failed")
    /\ UNCHANGED <<names, zones, history>>

(* _require_control_snapshot and _require_artifact_snapshot.                *)
StillVerified(a) ==
    /\ docs = [manifest |-> mem[a].m, summary |-> mem[a].s]
    /\ Readable(docs.manifest) /\ Readable(docs.summary)
    /\ Present(mem[a].m)

(* _publish_verified_attachment_at checks, links the attachment, ...        *)
AttachLink(a) ==
    /\ At(a, "link")
    /\ Goto(a, IF StillVerified(a) THEN "linked" ELSE "failed")
    /\ UNCHANGED <<names, zones, history>>

(* ... and checks again, or removes it.                                     *)
AttachConfirm(a) ==
    /\ At(a, "linked")
    /\ Goto(a, IF StillVerified(a) THEN "attached" ELSE "failed")
    /\ UNCHANGED <<names, zones, history>>

-----------------------------------------------------------------------------
(* The command is killed; its names stay.                                   *)
Crash(c) ==
    /\ trouble < MaxTrouble
    /\ pc[c] \notin {"idle", "done", "attached", "failed"}
    /\ trouble' = trouble + 1
    /\ residue' = IF pc[c] \in Staged THEN residue \cup {c} ELSE residue
    /\ Goto(c, "failed")
    /\ UNCHANGED <<names, zones, undone, missed, withdrawn>>

Next ==
    \/ \E c \in Collects :
         \/ CollectReadReport(c) \/ CollectReadManifest(c) \/ CollectWriteRaw(c)
         \/ CollectCleanup(c)
    \/ \E r \in Redacts :
         \/ RedactReadManifest(r) \/ RedactReadReport(r) \/ RedactList(r)
         \/ RedactFile(r) \/ RedactSaveReport(r) \/ RedactCleanup(r)
         \/ RedactRollbackReport(r) \/ RedactRollbackOutputs(r)
    \/ \E t \in Moves : MoveRead(t)
    \/ \E a \in Attaches : AttachLink(a) \/ AttachConfirm(a)
    \/ \E v \in Verifiers :
         \/ VerifyList(v) \/ VerifySummary(v) \/ VerifyManifest(v) \/ VerifyRequired(v)
         \/ VerifyReport(v) \/ VerifyArtifacts(v) \/ VerifyRefuses(v)
    \/ \E c \in Writers :
         \/ Check(c) \/ ClaimOld(c) \/ Take(c) \/ TakeNothing(c)
         \/ SettleOwned(c) \/ SettleForeign(c)
         \/ Identify(c) \/ Publish(c) \/ Commit(c) \/ Finalize(c) \/ LeaseLost(c)
         \/ Restore(c) \/ DiscardOld(c)
    \/ \E c \in Commands : Crash(c)

Spec == Init /\ [][Next]_vars
-----------------------------------------------------------------------------
(* Nothing shareable without its report: whenever the manifest lists        *)
(* shareable artifacts, also after a kill or in the middle of a rollback,   *)
(* the redaction report that produced them is there and covers every raw    *)
(* row (redact publishes the report before the manifest and takes them back *)
(* in the opposite order).  The exception is a redact whose rollback did    *)
(* not find its manifest at the name: rollback_publication does not ask     *)
(* remove_owned_at whether it removed anything, and the report is taken     *)
(* back all the same.                                                       *)
ShareNeedsReport ==
    LET m == docs.manifest IN
    m # None /\ m.gen \notin missed /\ m.share # {} =>
        /\ report # None
        /\ m.share = Clear(report.rows)
        /\ m.raw \subseteq report.rows

Documents ==
    {docs[f] : f \in DOMAIN docs} \cup {old[c] : c \in Writers}
      \cup {pend[c] : c \in Writers} \cup kept

(* A collect that reported success keeps its raw artifact, and its row is   *)
(* in a manifest on the disk -- at the name or under a name of a            *)
(* transaction -- whatever other commands publish and wherever they are     *)
(* killed, as long as no command takes back what it has published.          *)
CollectedStays ==
    undone = {} =>
        \A c \in Collects : At(c, "done") =>
            \E n \in Names, m \in Documents \cap Manifest :
                rawDir[n] = c /\ [name |-> n, by |-> c] \in m.raw

(* A phase is earned: as long as no redact has taken its report back, a     *)
(* transition that reported success stands on a report without blocked      *)
(* artifacts for exactly the rows of the manifest it verified.  (With a     *)
(* report that disappears between the two reads of _verify_open it does     *)
(* not.)                                                                    *)
PhaseEarned ==
    withdrawn = {} =>
        \A t \in Moves : At(t, "done") =>
            /\ report # None
            /\ Associated(mem[t].m)
            /\ NamesOf(report.rows) \cap Opaque = {}

(* What an attachment lists stays true as long as no command takes back     *)
(* what it has published: the control documents it was generated from are   *)
(* on the disk, in the last phase, no other manifest is at the name, and    *)
(* every shareable artifact it names is there.                              *)
AttachedStaysTrue ==
    undone = {} /\ withdrawn = {} =>
        \A a \in Attaches : At(a, "attached") =>
            /\ {mem[a].m, mem[a].s} \subseteq Documents
            /\ docs.manifest \in {None, mem[a].m}
            /\ mem[a].s.phase = LastPhase
            /\ \A row \in mem[a].m.share :
                  shareDir[row.name] # None /\ shareDir[row.name].by = row.by
=============================================================================
