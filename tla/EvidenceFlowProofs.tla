------------------------- MODULE EvidenceFlowProofs -------------------------
(***************************************************************************)
(* Proofs about EvidenceFlow for every number of commands and names, every  *)
(* choice of commands that run together and every bound on lost leases and  *)
(* kills.                                                                   *)
(*                                                                          *)
(* CommandInv: what a command at work relies on: the report of a redaction  *)
(* is its own, a collect read a manifest without shareable rows, a claim    *)
(* that was identified is the document that was read.  NameInv: a manifest  *)
(* with shareable rows that is at the name, or may go back to it, is there  *)
(* once, and its report is there, unless its redaction removed nothing in   *)
(* its rollback.  VerifyInv: a transition past the check of the report      *)
(* keeps the report it saw.                                                 *)
(***************************************************************************)
EXTENDS EvidenceFlow, FiniteSetTheorems, TLAPS

Keepers == Collects \cup Redacts      \* who replaces the manifest

(* A redaction that has, or may have, published its manifest; one that      *)
(* relies on its report; a command that has identified its predecessor; a   *)
(* redaction whose manifest is gone unless missed.                          *)
Wrote == {"commit", "finalize", "withdraw", "resettle", "restore", "discard", "outputs",
          "clean", "last", "done", "failed"}
Relying == {"save"} \cup Staged
Based == {"publish", "commit", "finalize", "withdraw", "resettle", "restore"}
Gone == {"restore", "discard", "outputs", "clean"}

Labels == {"idle", "manifest", "raw", "save", "clean", "report", "zone", "files", "outputs",
           "last", "list", "summary", "controls", "required", "verify", "artifacts",
           "link", "linked", "attached", "claim", "take", "settle", "identify", "publish",
           "commit", "finalize", "withdraw", "resettle", "restore", "discard", "done",
           "failed"}

Kind(c) == IF c \in Moves THEN Summary ELSE Manifest

TurnType ==
    /\ pc \in [Commands -> Labels]
    /\ \A c \in Collects : pc[c] \in {"raw", "clean"} \cup Relying => mem[c].name \in Names
    /\ \A t \in Moves :
          pc[t] \in {"list", "summary", "controls", "required", "verify", "artifacts"} \cup Relying
             => mem[t].s.phase < LastPhase
    /\ \A c \in Writers : old[c] \in Maybe(Kind(c)) /\ pend[c] \in Maybe(Kind(c))
    /\ \A c \in Writers : pc[c] \in {"settle", "resettle"} => pend[c] # None

FlowType == TypeOK /\ TurnType

Sharing(d) == d # None /\ d.share # {}

Written(d) == Sharing(d) => d.gen \in Redacts /\ pc[d.gen] \in Wrote

CommandInv(c) ==
    /\ c \in Collects => mem[c].m.share = {}
    /\ c \in Redacts =>
         /\ pc[c] \in Relying => OwnReport(c) /\ report.rows = mem[c].found
         /\ Written(mem[c].m)
         /\ pc[c] \in Staged /\ Sharing(mem[c].m) => mem[c].m.gen \in missed
    /\ c \in Keepers /\ pc[c] \in Based => old[c] = mem[c].m

Covered(d) ==
    /\ OwnReport(d.gen)
    /\ d.share = Clear(report.rows)
    /\ d.raw \subseteq report.rows

DocInv(d) == Written(d) /\ (Sharing(d) /\ d.gen \notin missed => Covered(d))

Of(d, r) == Sharing(d) /\ d.gen = r

Sole(r) ==
    /\ \A c \in Keepers : ~(Of(docs.manifest, r) /\ Of(pend[c], r))
    /\ \A b, c \in Keepers : Of(pend[b], r) /\ Of(pend[c], r) => b = c

Nowhere(r) == ~Of(docs.manifest, r) /\ \A c \in Keepers : ~Of(pend[c], r)

NameInv ==
    /\ DocInv(docs.manifest)
    /\ \A c \in Keepers : DocInv(pend[c])
    /\ \A r \in Redacts \ missed : Sole(r) /\ (pc[r] \in Gone => Nowhere(r))

Sound(m) ==
    /\ report # None
    /\ Associated(m)
    /\ NamesOf(report.rows) \cap Opaque = {}

VerifyInv(t) ==
    withdrawn = {} =>
        /\ pc[t] = "verify" => report # None
        /\ pc[t] \in {"artifacts", "done"} \cup Relying => Sound(mem[t].m)

FlowInv ==
    /\ FlowType /\ NameInv
    /\ \A c \in Keepers : CommandInv(c)
    /\ \A t \in Moves : VerifyInv(t)

-----------------------------------------------------------------------------
(* The kinds of commands are disjoint; Target and Undone depend on them.    *)
LEMMA Kinds ==
    /\ Keepers \subseteq Writers /\ Writers \subseteq Commands
    /\ \A c \in Writers : c \in Keepers <=> c \notin Moves
    /\ \A c \in Collects : c \notin Redacts /\ c \notin Moves /\ c \notin Attaches
    /\ \A r \in Redacts : r \notin Moves /\ r \notin Attaches
    /\ \A t \in Moves : t \notin Attaches
    /\ \A c \in Keepers : Target(c) = "manifest" /\ Kind(c) = Manifest /\ Expected(c) = mem[c].m
    /\ \A t \in Moves : Target(t) = "summary" /\ Kind(t) = Summary /\ Expected(t) = mem[t].s
BY FlowAssumption DEF Keepers, Writers, Commands, Target, Kind, Expected

(* The steps a command goes to when it fails.                               *)
LEMMA FailingSteps ==
    ASSUME NEW c \in Writers
    PROVE  /\ Failing(c) \subseteq {"clean", "outputs", "failed"}
           /\ Undone(c) \subseteq {"clean", "outputs", "failed"}
           /\ c \in Moves => Failing(c) = {"failed"} /\ Undone(c) = {"failed"}
BY FlowAssumption DEF Failing, Undone, Writers

(* The initial documents and memory are of their types.                     *)
LEMMA Beginnings ==
    NewManifest \in Manifest /\ NewSummary \in Summary /\ Blank \in Memory
BY FlowAssumption DEF NewManifest, NewSummary, Manifest, Summary, Blank, Memory

(* What Learn does to the program counters and the memories.                *)
LEMMA LearnEffect ==
    ASSUME NEW c \in Commands, NEW l \in Labels, NEW k \in Memory, Learn(c, l, k),
           pc \in [Commands -> Labels], mem \in [Commands -> Memory]
    PROVE  /\ pc' \in [Commands -> Labels] /\ mem' \in [Commands -> Memory]
           /\ pc'[c] = l /\ mem'[c] = k
           /\ \A d \in Commands : d # c => pc'[d] = pc[d] /\ mem'[d] = mem[d]
BY DEF Learn

(* What Goto does to them.                                                  *)
LEMMA GotoEffect ==
    ASSUME NEW c \in Commands, NEW l \in Labels, Goto(c, l),
           pc \in [Commands -> Labels], mem \in [Commands -> Memory]
    PROVE  /\ pc' \in [Commands -> Labels] /\ mem' \in [Commands -> Memory]
           /\ pc'[c] = l
           /\ mem'[c] = mem[c] \/ (mem'[c] = Blank /\ l \in {"failed", "done"})
           /\ l # "failed" /\ (l = "done" => c \in Moves) => mem'[c] = mem[c]
           /\ \A d \in Commands : d # c => pc'[d] = pc[d] /\ mem'[d] = mem[d]
<1> DEFINE k == IF l = "failed" \/ (l = "done" /\ c \notin Moves) THEN Blank ELSE mem[c]
<1>1. k \in Memory /\ Learn(c, l, k)
  BY Beginnings DEF Goto
<1>2. /\ k = mem[c] \/ (k = Blank /\ l \in {"failed", "done"})
      /\ l # "failed" /\ (l = "done" => c \in Moves) => k = mem[c]
  OBVIOUS
<1> HIDE DEF k
<1> QED
  BY <1>1, <1>2, LearnEffect

(* What Put does to the documents.                                          *)
LEMMA PutEffect ==
    ASSUME NEW c \in Writers, NEW d \in Maybe(Kind(c)), Put(c, d),
           docs \in [manifest : Maybe(Manifest), summary : Maybe(Summary)]
    PROVE  /\ docs' \in [manifest : Maybe(Manifest), summary : Maybe(Summary)]
           /\ c \in Moves => docs'.manifest = docs.manifest /\ docs'.summary = d
           /\ c \in Keepers => docs'.manifest = d /\ docs'.summary = docs.summary
<1>1. CASE c \in Moves
  <2>1. Target(c) = "summary" /\ Kind(c) = Summary
    BY <1>1, Kinds
  <2> QED
    BY <1>1, <2>1, Kinds DEF Put
<1>2. CASE c \in Keepers
  <2>1. Target(c) = "manifest" /\ Kind(c) = Manifest
    BY <1>2, Kinds
  <2> QED
    BY <1>2, <2>1, Kinds DEF Put
<1> QED
  BY <1>1, <1>2, Kinds

(* What is at a command's name is of the kind it replaces.                  *)
LEMMA ThereType ==
    ASSUME NEW c \in Writers,
           docs \in [manifest : Maybe(Manifest), summary : Maybe(Summary)]
    PROVE  /\ There(c) \in Maybe(Kind(c))
           /\ c \in Keepers => There(c) = docs.manifest
<1>1. CASE c \in Moves
  BY <1>1, Kinds DEF There
<1>2. CASE c \in Keepers
  BY <1>2, Kinds DEF There
<1> QED
  BY <1>1, <1>2, Kinds

(* st_nlink is a number.                                                    *)
LEMMA LinksType ==
    ASSUME NEW d, docs \in [manifest : Maybe(Manifest), summary : Maybe(Summary)]
    PROVE  Links(d) \in Nat
<1>1. DOMAIN docs = {"manifest", "summary"}
  OBVIOUS
<1>2. IsFiniteSet({"manifest", "summary"})
  <2>1. IsFiniteSet({"manifest"})
    BY FS_Singleton
  <2>2. {"manifest", "summary"} = {"manifest"} \cup {"summary"}
    OBVIOUS
  <2> QED
    BY <2>1, <2>2, FS_AddElement
<1>3. IsFiniteSet({f \in DOMAIN docs : docs[f] = d})
  BY <1>1, <1>2, FS_Subset
<1>4. IsFiniteSet({c \in Writers : old[c] = d}) /\ IsFiniteSet({c \in Writers : pend[c] = d})
  BY FS_Subset, FlowAssumption DEF Commands, Writers
<1> QED
  BY <1>3, <1>4, FS_CardinalityType DEF Links

-----------------------------------------------------------------------------
(* Type correctness, the part that does not depend on what an action does   *)
(* to the program counters: an action that leaves the rest as it is.        *)
RestType ==
    /\ docs \in [manifest : Maybe(Manifest), summary : Maybe(Summary)]
    /\ report \in Maybe(Report)
    /\ rawDir \in [Names -> Maybe(Collects)]
    /\ shareDir \in [Names -> Maybe(Output)]
    /\ \A name \in {old, pend} : name \in [Writers -> Maybe(Manifest \cup Summary)]
    /\ kept \subseteq Manifest \cup Summary
    /\ trouble \in 0 .. MaxTrouble
    /\ residue \cup undone \cup missed \subseteq Commands /\ withdrawn \subseteq Redacts

(* The part about one command.                                              *)
PlaceType(c) ==
    /\ c \in Collects => (pc[c] \in {"raw", "clean"} \cup Relying => mem[c].name \in Names)
    /\ c \in Moves =>
         (pc[c] \in {"list", "summary", "controls", "required", "verify", "artifacts"} \cup Relying
            => mem[c].s.phase < LastPhase)
    /\ c \in Writers =>
         /\ old[c] \in Maybe(Kind(c)) /\ pend[c] \in Maybe(Kind(c))
         /\ pc[c] \in {"settle", "resettle"} => pend[c] # None

(* FlowType in those parts.                                                 *)
LEMMA FlowTypeParts ==
    FlowType <=> /\ RestType /\ pc \in [Commands -> Labels] /\ mem \in [Commands -> Memory]
                 /\ \A c \in Commands : PlaceType(c)
<1>1. FlowType => \A c \in Commands : PlaceType(c)
  BY DEF FlowType, TurnType, PlaceType
<1>2. (\A c \in Commands : PlaceType(c)) /\ pc \in [Commands -> Labels] => TurnType
  BY Kinds DEF TurnType, PlaceType, Writers, Commands
<1> QED
  BY <1>1, <1>2 DEF FlowType, TypeOK, TurnType, RestType

(* The same in the next state.                                              *)
LEMMA FlowTypePartsNext ==
    FlowType' <=> /\ RestType' /\ pc' \in [Commands -> Labels] /\ mem' \in [Commands -> Memory]
                  /\ \A c \in Commands : PlaceType(c)'
<1>1. FlowType' => \A c \in Commands : PlaceType(c)'
  BY DEF FlowType, TurnType, PlaceType
<1>2. (\A c \in Commands : PlaceType(c)') /\ pc' \in [Commands -> Labels] => TurnType'
  BY Kinds DEF TurnType, PlaceType, Writers, Commands
<1> QED
  BY <1>1, <1>2 DEF FlowType, TypeOK, TurnType, RestType

(* A step of c that leaves the names of the other commands alone is         *)
(* type correct if c's part is.                                             *)
LEMMA TypeStep ==
    ASSUME NEW c \in Commands, FlowType, RestType', PlaceType(c)',
           pc' \in [Commands -> Labels], mem' \in [Commands -> Memory],
           \A d \in Commands : d # c => pc'[d] = pc[d] /\ mem'[d] = mem[d],
           \A d \in Writers : d # c => old'[d] = old[d] /\ pend'[d] = pend[d]
    PROVE  FlowType'
<1>1. \A d \in Commands : d # c => PlaceType(d)'
  <2> TAKE d \in Commands
  <2> HAVE d # c
  <2>1. PlaceType(d) /\ pc'[d] = pc[d] /\ mem'[d] = mem[d]
    BY FlowTypeParts
  <2>2. d \in Writers => old'[d] = old[d] /\ pend'[d] = pend[d]
    OBVIOUS
  <2> QED
    BY <2>1, <2>2 DEF PlaceType
<1> QED
  BY <1>1, FlowTypePartsNext

-----------------------------------------------------------------------------
(* What a step of c keeps of the other commands ...                         *)
LEMMA CommandStep ==
    ASSUME NEW c \in Commands, FlowInv,
           \A d \in Commands : d # c => pc'[d] = pc[d] /\ mem'[d] = mem[d],
           \A d \in Keepers : d # c => old'[d] = old[d],
           \A r \in Redacts : r # c /\ OwnReport(r) => report' = report,
           missed \subseteq missed',
           pc[c] \in Wrote => pc'[c] \in Wrote,
           c \in Keepers => CommandInv(c)'
    PROVE  \A d \in Keepers : CommandInv(d)'
<1> SUFFICES ASSUME NEW d \in Keepers, d # c
             PROVE  CommandInv(d)'
  OBVIOUS
<1>1. CommandInv(d) /\ pc'[d] = pc[d] /\ mem'[d] = mem[d] /\ old'[d] = old[d]
  BY Kinds DEF FlowInv
<1>2. d \in Collects => mem'[d].m.share = {}
  BY <1>1 DEF CommandInv
<1>3. pc'[d] \in Based => old'[d] = mem'[d].m
  BY <1>1 DEF CommandInv
<1>4. ASSUME d \in Redacts
      PROVE  /\ pc'[d] \in Relying => OwnReport(d)' /\ report'.rows = mem'[d].found
             /\ Written(mem[d].m)'
             /\ pc'[d] \in Staged /\ Sharing(mem[d].m)' => mem'[d].m.gen \in missed'
  <2>1. pc'[d] \in Relying => OwnReport(d)' /\ report'.rows = mem'[d].found
    BY <1>1, <1>4 DEF CommandInv, OwnReport
  <2>2. Sharing(mem[d].m)' => Sharing(mem[d].m)
    BY <1>1 DEF Sharing
  <2>3. Written(mem[d].m)'
    <3>1. SUFFICES ASSUME Sharing(mem[d].m)'
                   PROVE  mem[d].m.gen \in Redacts /\ pc'[mem[d].m.gen] \in Wrote
      BY <1>1 DEF Written
    <3>2. mem[d].m.gen \in Redacts /\ pc[mem[d].m.gen] \in Wrote
      BY <1>1, <1>4, <2>2, <3>1 DEF CommandInv, Written
    <3> QED
      BY <3>2, Kinds DEF Keepers
  <2>4. pc'[d] \in Staged /\ Sharing(mem[d].m)' => mem'[d].m.gen \in missed'
    BY <1>1, <1>4, <2>2 DEF CommandInv
  <2> QED
    BY <2>1, <2>3, <2>4
<1> QED
  BY <1>2, <1>3, <1>4 DEF CommandInv

(* ... of the manifests, if it moves none ...                               *)
LEMMA DocStep ==
    ASSUME NEW c \in Commands, NEW d, DocInv(d),
           \A x \in Commands : x # c => pc'[x] = pc[x],
           report # None => report' = report,
           missed \subseteq missed',
           pc[c] \in Wrote => pc'[c] \in Wrote
    PROVE  Written(d)' /\ (Sharing(d) /\ d.gen \notin missed' => Covered(d)')
<1>1. Written(d)'
  BY Kinds DEF DocInv, Written, Sharing, Keepers
<1>2. ASSUME Sharing(d), d.gen \notin missed'
      PROVE  Covered(d)'
  <2>1. Covered(d) /\ report' = report
    BY <1>2 DEF DocInv, Covered, OwnReport
  <2> QED
    BY <2>1 DEF Covered, OwnReport
<1> QED
  BY <1>1, <1>2

(* ... and of the manifests at the name and in pending names.               *)
LEMMA NameStep ==
    ASSUME NEW c \in Commands, FlowInv,
           \A d \in Commands : d # c => pc'[d] = pc[d],
           docs'.manifest = docs.manifest,
           \A d \in Keepers : pend'[d] = pend[d],
           report # None => report' = report,
           missed \subseteq missed',
           pc[c] \in Wrote => pc'[c] \in Wrote,
           c \in Redacts /\ pc'[c] \in Gone
              => pc[c] \in Gone \/ pc[c] \notin Wrote \/ c \in missed' \/ Nowhere(c)'
    PROVE  NameInv'
<1>1. DocInv(docs.manifest)'
  <2>1. DocInv(docs.manifest)
    BY DEF FlowInv, NameInv
  <2> QED
    BY <2>1, DocStep DEF DocInv, Written, Sharing, Covered, OwnReport
<1>2. ASSUME NEW k \in Keepers
      PROVE  DocInv(pend[k])'
  <2>1. DocInv(pend[k]) /\ pend'[k] = pend[k]
    BY DEF FlowInv, NameInv
  <2> QED
    BY <2>1, DocStep DEF DocInv, Written, Sharing, Covered, OwnReport
<1>3. ASSUME NEW r \in Redacts \ missed'
      PROVE  Sole(r)' /\ (pc'[r] \in Gone => Nowhere(r)')
  <2>1. Sole(r) /\ (pc[r] \in Gone => Nowhere(r))
    BY DEF FlowInv, NameInv
  <2>2. Sole(r)'
    BY <2>1 DEF Sole, Of, Sharing
  <2>3. pc[r] \notin Wrote => Nowhere(r)
    BY Kinds DEF FlowInv, NameInv, DocInv, Written, Nowhere, Of, Sharing
  <2>5. Nowhere(r) => Nowhere(r)'
    BY DEF Nowhere, Of, Sharing
  <2>4. ASSUME pc'[r] \in Gone
        PROVE  Nowhere(r)'
    BY <2>1, <2>3, <2>4, <2>5, Kinds DEF Keepers
  <2> QED
    BY <2>2, <2>4, <2>5
<1> QED
  BY <1>1, <1>2, <1>3 DEF NameInv

(* A report that is not taken back stays, and so does what a transition     *)
(* made of it.                                                              *)
LEMMA VerifyStep ==
    ASSUME NEW c \in Commands, FlowInv,
           \A d \in Commands : d # c => pc'[d] = pc[d] /\ mem'[d] = mem[d],
           withdrawn \subseteq withdrawn',
           withdrawn' = {} /\ report # None => report' = report,
           c \in Moves => VerifyInv(c)'
    PROVE  \A t \in Moves : VerifyInv(t)'
<1> SUFFICES ASSUME NEW t \in Moves, t # c, withdrawn' = {}
             PROVE  /\ pc'[t] = "verify" => report' # None
                    /\ pc'[t] \in {"artifacts", "done"} \cup Relying => Sound(mem[t].m)'
  BY DEF VerifyInv
<1>1. VerifyInv(t) /\ withdrawn = {} /\ pc'[t] = pc[t] /\ mem'[t] = mem[t]
  BY Kinds DEF FlowInv, Writers, Commands
<1>2. pc'[t] = "verify" => report' # None
  BY <1>1 DEF VerifyInv
<1>3. ASSUME pc'[t] \in {"artifacts", "done"} \cup Relying
      PROVE  Sound(mem[t].m)'
  <2>1. Sound(mem[t].m) /\ report' = report
    BY <1>1, <1>3 DEF VerifyInv, Sound
  <2> QED
    BY <1>1, <2>1 DEF Sound, Associated
<1> QED
  BY <1>2, <1>3

(* The three together, for a step that leaves names and report alone.       *)
LEMMA QuietStep ==
    ASSUME NEW c \in Commands, FlowInv, FlowType',
           \A d \in Commands : d # c => pc'[d] = pc[d] /\ mem'[d] = mem[d],
           \A d \in Keepers : d # c => old'[d] = old[d],
           docs'.manifest = docs.manifest,
           \A d \in Keepers : pend'[d] = pend[d],
           report' = report, missed \subseteq missed', withdrawn' = withdrawn,
           pc[c] \in Wrote => pc'[c] \in Wrote,
           c \in Redacts /\ pc'[c] \in Gone
              => pc[c] \in Gone \/ pc[c] \notin Wrote \/ c \in missed' \/ Nowhere(c)',
           c \in Keepers => CommandInv(c)',
           c \in Moves => VerifyInv(c)'
    PROVE  FlowInv'
<1>1. \A d \in Keepers : CommandInv(d)'
  BY CommandStep
<1>2. NameInv'
  BY NameStep
<1>3. \A t \in Moves : VerifyInv(t)'
  BY VerifyStep
<1> QED
  BY <1>1, <1>2, <1>3 DEF FlowInv

-----------------------------------------------------------------------------
(* The steps of a transition between its read of the summary and its end.   *)
Moving ==
    {"list", "summary", "controls", "required", "verify", "artifacts"} \cup Relying

(* From where c may go to l by itself: what the invariant says of l is true *)
(* of where it is.                                                          *)
MayGo(c, l) ==
    /\ pc[c] \in Wrote => l \in Wrote
    /\ c \in Redacts /\ l \in Gone =>
         pc[c] \in Gone \/ pc[c] \notin Wrote \/ c \in missed' \/ Nowhere(c)'
    /\ c \in Redacts /\ l \in Relying => pc[c] \in Relying
    /\ c \in Redacts /\ l \in Staged =>
         pc[c] \in Staged \/ (Sharing(mem[c].m) => mem[c].m.gen \in missed)
    /\ c \in Keepers /\ l \in Based => pc[c] \in Based \/ old[c] = mem[c].m
    /\ c \in Collects /\ l \in {"raw", "clean"} \cup Relying
         => pc[c] \in {"raw", "clean"} \cup Relying
    /\ c \in Moves /\ l \in Moving => pc[c] \in Moving
    /\ c \in Moves /\ l = "verify" => pc[c] = "verify"
    /\ c \in Moves /\ l \in {"artifacts", "done"} \cup Relying
         => pc[c] \in {"artifacts", "done"} \cup Relying
    /\ c \in Writers => l \notin {"settle", "resettle"}

(* The command's own part after such a step.                                *)
LEMMA GotoOwn ==
    ASSUME NEW c \in Commands, NEW l \in Labels, FlowInv, Goto(c, l), MayGo(c, l),
           RestType',
           c \in Writers => pend'[c] \in Maybe(Kind(c)) /\ old'[c] \in Maybe(Kind(c)),
           \A d \in Writers : d # c => old'[d] = old[d] /\ pend'[d] = pend[d],
           c \in Keepers /\ l \in Based => old'[c] = old[c],
           report' = report, missed \subseteq missed', withdrawn' = withdrawn
    PROVE  /\ FlowType'
           /\ c \in Keepers => CommandInv(c)'
           /\ c \in Moves => VerifyInv(c)'
           /\ pc'[c] = l
           /\ \A d \in Commands : d # c => pc'[d] = pc[d] /\ mem'[d] = mem[d]
<1>1. /\ pc' \in [Commands -> Labels] /\ mem' \in [Commands -> Memory] /\ pc'[c] = l
      /\ mem'[c] = mem[c] \/ (mem'[c] = Blank /\ l \in {"failed", "done"})
      /\ l # "failed" /\ (l = "done" => c \in Moves) => mem'[c] = mem[c]
      /\ \A d \in Commands : d # c => pc'[d] = pc[d] /\ mem'[d] = mem[d]
  BY GotoEffect DEF FlowInv, FlowType, TypeOK, TurnType
<1>2. PlaceType(c)'
  <2>1. PlaceType(c)
    BY FlowTypeParts DEF FlowInv
  <2>2. c \in Collects => (l \in {"raw", "clean"} \cup Relying => mem'[c].name \in Names)
    BY <1>1, <2>1, Kinds DEF MayGo, PlaceType, Relying, Staged
  <2>3. c \in Moves => (l \in Moving => mem'[c].s.phase < LastPhase)
    BY <1>1, <2>1, Kinds DEF MayGo, PlaceType, Relying, Staged, Moving
  <2> QED
    BY <1>1, <2>2, <2>3 DEF PlaceType, MayGo, Moving
<1>3. FlowType'
  BY <1>1, <1>2, TypeStep DEF FlowInv
<1>4. ASSUME c \in Keepers
      PROVE  CommandInv(c)'
  <2>1. CommandInv(c)
    BY <1>4 DEF FlowInv
  <2>2. c \in Collects => mem'[c].m.share = {}
    BY <1>1, <2>1 DEF CommandInv, Blank, NewManifest
  <2>3. l \in Based => old'[c] = mem'[c].m
    BY <1>1, <1>4, <2>1 DEF CommandInv, MayGo, Based
  <2>4. ASSUME c \in Redacts
        PROVE  /\ l \in Relying => OwnReport(c)' /\ report'.rows = mem'[c].found
               /\ Written(mem[c].m)'
               /\ l \in Staged /\ Sharing(mem[c].m)' => mem'[c].m.gen \in missed'
    <3>1. l \in Relying => OwnReport(c)' /\ report'.rows = mem'[c].found
      BY <1>1, <2>1, <2>4 DEF CommandInv, MayGo, OwnReport, Relying, Staged
    <3>2. Sharing(mem[c].m)' => Sharing(mem[c].m) /\ mem'[c] = mem[c]
      BY <1>1 DEF Sharing, Blank, NewManifest
    <3>3. Written(mem[c].m)'
      <4> SUFFICES ASSUME Sharing(mem[c].m)'
                   PROVE  mem'[c].m.gen \in Redacts /\ pc'[mem'[c].m.gen] \in Wrote
        BY DEF Written
      <4>1. mem'[c].m.gen \in Redacts /\ pc[mem'[c].m.gen] \in Wrote
        BY <2>1, <2>4, <3>2 DEF CommandInv, Written
      <4> QED
        BY <1>1, <4>1, Kinds DEF MayGo, Keepers
    <3>4. l \in Staged /\ Sharing(mem[c].m)' => mem'[c].m.gen \in missed'
      BY <2>1, <2>4, <3>2 DEF CommandInv, MayGo
    <3> QED
      BY <3>1, <3>3, <3>4
  <2> QED
    BY <1>1, <2>2, <2>3, <2>4 DEF CommandInv
<1>5. ASSUME c \in Moves
      PROVE  VerifyInv(c)'
  <2>1. VerifyInv(c)
    BY <1>5 DEF FlowInv
  <2>2. l = "verify" /\ withdrawn = {} => report' # None
    BY <1>5, <2>1 DEF VerifyInv, MayGo
  <2>3. ASSUME l \in {"artifacts", "done"} \cup Relying, withdrawn = {}
        PROVE  Sound(mem[c].m)'
    <3>1. Sound(mem[c].m)
      BY <1>5, <2>1, <2>3 DEF VerifyInv, MayGo
    <3>2. mem'[c] = mem[c]
      BY <1>1, <1>5, <2>3 DEF Relying, Staged
    <3> QED
      BY <3>1, <3>2 DEF Sound, Associated
  <2> QED
    BY <1>1, <2>2, <2>3 DEF VerifyInv
<1> QED
  BY <1>1, <1>3, <1>4, <1>5

(* Such a step that leaves names and report alone.                          *)
LEMMA GotoKeeps ==
    ASSUME NEW c \in Commands, NEW l \in Labels, FlowInv, Goto(c, l), MayGo(c, l),
           RestType', UNCHANGED <<docs, old, pend, report, missed, withdrawn>>
    PROVE  FlowInv'
<1>1. c \in Writers => pend'[c] \in Maybe(Kind(c)) /\ old'[c] \in Maybe(Kind(c))
  BY DEF FlowInv, FlowType, TurnType
<1>2. /\ FlowType'
      /\ c \in Keepers => CommandInv(c)'
      /\ c \in Moves => VerifyInv(c)'
      /\ pc'[c] = l
      /\ \A d \in Commands : d # c => pc'[d] = pc[d] /\ mem'[d] = mem[d]
  BY <1>1, GotoOwn
<1>3. pc[c] \in Wrote => pc'[c] \in Wrote
  BY <1>2 DEF MayGo
<1>4. c \in Redacts /\ pc'[c] \in Gone
        => pc[c] \in Gone \/ pc[c] \notin Wrote \/ c \in missed' \/ Nowhere(c)'
  BY <1>2 DEF MayGo
<1> QED
  BY <1>2, <1>3, <1>4, QuietStep

(* A step that only goes on.                                                *)
LEMMA GotoOnly ==
    ASSUME NEW c \in Commands, NEW l \in Labels, FlowInv, Goto(c, l), MayGo(c, l),
           UNCHANGED <<names, zones, history>>
    PROVE  FlowInv'
<1>1. RestType'
  <2>1. RestType
    BY FlowTypeParts DEF FlowInv
  <2>2. UNCHANGED <<docs, report, rawDir, shareDir, old, pend, kept, trouble, residue,
                    undone, missed, withdrawn>>
    BY DEF names, zones, history
  <2> QED
    BY <2>1, <2>2 DEF RestType
<1> QED
  BY <1>1, GotoKeeps DEF names, zones, history

(* A step of a transition or an attachment that reads something.            *)
LEMMA ReaderKeeps ==
    ASSUME NEW v \in Verifiers, NEW l \in Labels, NEW k \in Memory,
           FlowInv, Learn(v, l, k), UNCHANGED <<names, zones, history>>,
           v \in Moves => k.s.phase < LastPhase,
           l \notin {"verify", "artifacts", "done"} \cup Relying
    PROVE  FlowInv'
<1>1. /\ pc' \in [Commands -> Labels] /\ mem' \in [Commands -> Memory]
      /\ pc'[v] = l /\ mem'[v] = k
      /\ \A d \in Commands : d # v => pc'[d] = pc[d] /\ mem'[d] = mem[d]
  BY LearnEffect DEF FlowInv, FlowType, TypeOK, TurnType, Verifiers, Commands, Writers
<1>2. v \in Commands /\ v \notin Keepers /\ v \notin Redacts /\ v \notin Collects
  BY Kinds, FlowAssumption DEF Verifiers, Commands, Writers, Keepers
<1>3. FlowType'
  <2>1. RestType'
    BY FlowTypeParts DEF FlowInv, RestType, names, zones, history
  <2>2. PlaceType(v)'
    <3>1. v \in Writers => old'[v] \in Maybe(Kind(v)) /\ pend'[v] \in Maybe(Kind(v))
      BY DEF FlowInv, FlowType, TurnType, names
    <3>2. l \notin {"settle", "resettle"}
      BY DEF Relying, Staged
    <3> QED
      BY <1>1, <1>2, <3>1, <3>2 DEF PlaceType
  <2>3. \A d \in Writers : d # v => old'[d] = old[d] /\ pend'[d] = pend[d]
    BY DEF names
  <2> QED
    BY <1>1, <1>2, <2>1, <2>2, <2>3, TypeStep DEF FlowInv
<1>4. v \in Moves => VerifyInv(v)'
  BY <1>1 DEF VerifyInv
<1>5. pc[v] \in Wrote => pc'[v] \in Wrote \/ v \notin Keepers
  BY <1>2
<1>6. \A d \in Keepers : CommandInv(d)'
  <2>1. \A d \in Keepers : CommandInv(d) /\ d \in Commands /\ d # v
    BY <1>2, Kinds DEF FlowInv
  <2>2. \A r \in Redacts : pc'[r] = pc[r]
    BY <1>1, <2>1 DEF Keepers
  <2>3. old' = old /\ report' = report /\ missed' = missed
    BY DEF names, zones, history
  <2> SUFFICES ASSUME NEW d \in Keepers
               PROVE  CommandInv(d)'
    OBVIOUS
  <2>4. CommandInv(d) /\ pc'[d] = pc[d] /\ mem'[d] = mem[d]
    BY <1>1, <2>1
  <2> QED
    BY <2>2, <2>3, <2>4 DEF CommandInv, OwnReport, Written, Sharing
<1>7. NameInv'
  <2>1. \A r \in Redacts : pc'[r] = pc[r]
    BY <1>1, <1>2, Kinds DEF Keepers
  <2>2. docs' = docs /\ pend' = pend /\ report' = report /\ missed' = missed
    BY DEF names, zones, history
  <2>3. NameInv
    BY DEF FlowInv
  <2>4. DocInv(docs.manifest)'
    BY <2>1, <2>2, <2>3 DEF NameInv, DocInv, Written, Sharing, Covered, OwnReport
  <2>5. \A c \in Keepers : DocInv(pend[c])'
    BY <2>1, <2>2, <2>3 DEF NameInv, DocInv, Written, Sharing, Covered, OwnReport
  <2>6. \A r \in Redacts \ missed' : Sole(r)' /\ (pc'[r] \in Gone => Nowhere(r)')
    BY <2>1, <2>2, <2>3 DEF NameInv, Sole, Nowhere, Of, Sharing
  <2> QED
    BY <2>4, <2>5, <2>6 DEF NameInv
<1>8. \A t \in Moves : VerifyInv(t)'
  BY <1>1, <1>2, <1>4, VerifyStep DEF zones, history
<1> QED
  BY <1>3, <1>6, <1>7, <1>8 DEF FlowInv

-----------------------------------------------------------------------------
(* A transition reads the summary.                                          *)
LEMMA MoveReadKeeps ==
    ASSUME FlowInv, NEW t \in Moves, MoveRead(t)
    PROVE  FlowInv'
<1>1. t \in Commands /\ t \in Verifiers /\ t \notin Keepers /\ mem[t] \in Memory
  BY Kinds DEF FlowInv, FlowType, TypeOK, Verifiers, Commands, Writers
<1>2. CASE Goto(t, "failed")
  <2>1. MayGo(t, "failed")
    BY Kinds, <1>1 DEF MoveRead, At, MayGo, Wrote, Gone, Relying, Staged, Based, Moving
  <2>2. UNCHANGED <<names, zones, history>>
    BY DEF MoveRead
  <2>3. "failed" \in Labels
    BY DEF Labels
  <2> QED
    BY <1>1, <1>2, <2>1, <2>2, <2>3, GotoOnly
<1>3. CASE /\ Readable(docs.summary) /\ docs.summary.phase < LastPhase
           /\ Learn(t, "list", [mem[t] EXCEPT !.s = docs.summary])
  <2> DEFINE k == [mem[t] EXCEPT !.s = docs.summary]
  <2>1. docs.summary \in Summary
    BY <1>3 DEF Readable, FlowInv, FlowType, TypeOK, Maybe
  <2>2. k \in Memory /\ k.s = docs.summary
    BY <1>1, <2>1 DEF Memory
  <2>3. "list" \notin {"verify", "artifacts", "done"} \cup Relying
    BY DEF Relying, Staged
  <2>4. UNCHANGED <<names, zones, history>>
    BY DEF MoveRead
  <2> HIDE DEF k
  <2>6. "list" \in Labels
    BY DEF Labels
  <2>5. Learn(t, "list", k)
    BY <1>3 DEF k
  <2> QED
    BY <1>1, <1>3, <2>2, <2>3, <2>4, <2>5, <2>6, ReaderKeeps
<1> QED
  BY <1>2, <1>3 DEF MoveRead

(* _verify_open up to the documents that the phase requires.                *)
LEMMA VerifyBeginKeeps ==
    ASSUME FlowInv, NEW v \in Verifiers,
           VerifyList(v) \/ VerifySummary(v) \/ VerifyManifest(v)
    PROVE  FlowInv'
<1>1. v \in Commands /\ v \notin Keepers /\ mem[v] \in Memory
  BY Kinds DEF FlowInv, FlowType, TypeOK, Verifiers, Commands, Writers, Keepers
<1>2. CASE VerifyList(v)
  <2>1. MayGo(v, "summary")
    BY <1>1, <1>2, Kinds DEF VerifyList, At, MayGo, Wrote, Gone, Relying, Staged, Based, Moving,
       Keepers
  <2>2. UNCHANGED <<names, zones, history>> /\ Goto(v, "summary")
    BY <1>2 DEF VerifyList
  <2>3. "summary" \in Labels
    BY DEF Labels
  <2> QED
    BY <1>1, <2>1, <2>2, <2>3, GotoOnly
<1>3. CASE VerifySummary(v)
  <2> DEFINE k == IF v \in Moves THEN mem[v] ELSE [mem[v] EXCEPT !.s = docs.summary]
  <2>1. docs.summary \in Summary
    BY <1>3 DEF VerifySummary, Readable, FlowInv, FlowType, TypeOK, Maybe
  <2>2. k \in Memory
    BY <1>1, <2>1 DEF Memory
  <2>3. v \in Moves => k.s.phase < LastPhase
    BY <1>3 DEF VerifySummary, At, FlowInv, FlowType, TurnType
  <2>4. "controls" \notin {"verify", "artifacts", "done"} \cup Relying /\ "controls" \in Labels
    BY DEF Relying, Staged, Labels
  <2>5. UNCHANGED <<names, zones, history>> /\ Learn(v, "controls", k)
    BY <1>3 DEF VerifySummary
  <2> HIDE DEF k
  <2> QED
    BY <1>1, <2>2, <2>3, <2>4, <2>5, ReaderKeeps
<1>4. CASE VerifyManifest(v)
  <2> DEFINE k == [mem[v] EXCEPT !.m = docs.manifest]
  <2>1. docs.manifest \in Manifest
    BY <1>4 DEF VerifyManifest, Readable, FlowInv, FlowType, TypeOK, Maybe
  <2>2. k \in Memory /\ k.s = mem[v].s
    BY <1>1, <2>1 DEF Memory
  <2>3. v \in Moves => k.s.phase < LastPhase
    BY <1>4, <2>2 DEF VerifyManifest, At, FlowInv, FlowType, TurnType
  <2>4. "required" \notin {"verify", "artifacts", "done"} \cup Relying /\ "required" \in Labels
    BY DEF Relying, Staged, Labels
  <2>5. UNCHANGED <<names, zones, history>> /\ Learn(v, "required", k)
    BY <1>4 DEF VerifyManifest
  <2> HIDE DEF k
  <2> QED
    BY <1>1, <2>2, <2>3, <2>4, <2>5, ReaderKeeps
<1> QED
  BY <1>2, <1>3, <1>4

(* The two reads of the report: what the second one finds is what the first *)
(* one found, unless a redaction took its report back.                      *)
LEMMA VerifyReportKeeps ==
    ASSUME FlowInv, NEW v \in Verifiers, VerifyRequired(v) \/ VerifyReport(v)
    PROVE  FlowInv'
<1> DEFINE l == IF VerifyRequired(v) THEN "verify" ELSE "artifacts"
<1>1. /\ v \in Commands /\ v \notin Keepers /\ v \notin Redacts /\ v \notin Collects
      /\ mem[v] \in Memory
  BY Kinds DEF FlowInv, FlowType, TypeOK, Verifiers, Commands, Writers, Keepers
<1>2. Goto(v, l) /\ UNCHANGED <<names, zones, history>> /\ l \in Labels
  BY DEF VerifyRequired, VerifyReport, Labels
<1>3. l \in {"verify", "artifacts"} /\ pc[v] \in {"required", "verify"}
  BY DEF VerifyRequired, VerifyReport, At
<1>4. l = "verify" => report # None
  BY DEF VerifyRequired
<1>5. l = "artifacts" /\ report # None /\ withdrawn = {} => pc[v] = "verify" /\ Sound(mem[v].m)
  BY DEF VerifyReport, At, Sound
<1> HIDE DEF l
<1>6. /\ pc' \in [Commands -> Labels] /\ mem' \in [Commands -> Memory]
      /\ pc'[v] = l /\ mem'[v] = mem[v]
      /\ \A d \in Commands : d # v => pc'[d] = pc[d] /\ mem'[d] = mem[d]
  BY <1>1, <1>2, <1>3, GotoEffect DEF FlowInv, FlowType, TypeOK, TurnType
<1>7. FlowType'
  <2>1. RestType'
    BY <1>2, FlowTypeParts DEF FlowInv, RestType, names, zones, history
  <2>2. PlaceType(v)'
    <3>1. v \in Writers => old'[v] \in Maybe(Kind(v)) /\ pend'[v] \in Maybe(Kind(v))
      BY <1>2 DEF FlowInv, FlowType, TurnType, names
    <3>2. v \in Moves => mem[v].s.phase < LastPhase
      BY <1>3 DEF FlowInv, FlowType, TurnType
    <3>3. l \notin {"settle", "resettle"}
      BY <1>3
    <3> QED
      BY <1>1, <1>6, <3>1, <3>2, <3>3 DEF PlaceType
  <2>3. \A d \in Writers : d # v => old'[d] = old[d] /\ pend'[d] = pend[d]
    BY <1>2 DEF names
  <2> QED
    BY <1>1, <1>6, <2>1, <2>2, <2>3, TypeStep DEF FlowInv
<1>8. v \in Moves => VerifyInv(v)'
  <2> SUFFICES ASSUME v \in Moves, withdrawn' = {}
               PROVE  /\ pc'[v] = "verify" => report' # None
                      /\ pc'[v] \in {"artifacts", "done"} \cup Relying => Sound(mem[v].m)'
    BY DEF VerifyInv
  <2>1. report' = report /\ withdrawn = {}
    BY <1>2 DEF zones, history
  <2>2. l = "artifacts" => report # None
    <3>1. l = "artifacts" => pc[v] = "verify"
      BY <1>2, <1>3, <1>4 DEF VerifyReport, At, l
    <3> QED
      BY <2>1, <3>1 DEF FlowInv, VerifyInv
  <2>3. l \in {"artifacts", "done"} \cup Relying => Sound(mem[v].m)
    BY <1>3, <1>5, <2>1, <2>2 DEF Relying, Staged
  <2>4. Sound(mem[v].m) => Sound(mem[v].m)'
    BY <1>6, <2>1 DEF Sound, Associated
  <2> QED
    BY <1>4, <1>6, <2>1, <2>3, <2>4
<1>9. UNCHANGED <<docs, old, pend, report, missed, withdrawn>>
  BY <1>2 DEF names, zones, history
<1>10. pc[v] \notin Wrote
  BY <1>3 DEF Wrote
<1> QED
  BY <1>1, <1>6, <1>7, <1>8, <1>9, <1>10, QuietStep

(* The rest of _verify_open, and attach.                                    *)
LEMMA VerifyEndKeeps ==
    ASSUME FlowInv, NEW v \in Verifiers, VerifyArtifacts(v) \/ VerifyRefuses(v)
    PROVE  FlowInv'
<1> DEFINE l == IF VerifyRefuses(v) THEN "failed" ELSE IF v \in Moves THEN "save" ELSE "link"
<1>1. v \in Commands /\ v \notin Keepers /\ (v \in Writers => v \in Moves)
  BY Kinds DEF Verifiers, Commands, Writers, Keepers
<1>2. Goto(v, l) /\ UNCHANGED <<names, zones, history>> /\ l \in Labels
  BY DEF VerifyArtifacts, VerifyRefuses, Labels
<1>3. /\ pc[v] \in {"list", "summary", "controls", "required", "verify", "artifacts", "idle"}
      /\ l \in {"failed", "save", "link"} /\ (l # "failed" => pc[v] = "artifacts")
      /\ l = "link" => v \notin Moves
  BY DEF VerifyArtifacts, VerifyRefuses, At
<1> HIDE DEF l
<1>4. MayGo(v, l)
  BY <1>1, <1>3 DEF MayGo, Wrote, Gone, Relying, Staged, Based, Moving, Keepers
<1> QED
  BY <1>1, <1>2, <1>4, GotoOnly

(* attach links and confirms.                                               *)
LEMMA AttachKeeps ==
    ASSUME FlowInv, NEW a \in Attaches, AttachLink(a) \/ AttachConfirm(a)
    PROVE  FlowInv'
<1>1. a \in Commands /\ a \notin Writers /\ a \notin Keepers
  BY Kinds, FlowAssumption DEF Commands, Writers, Keepers
<1>2. PICK l \in {"linked", "attached", "failed"} : Goto(a, l)
  BY DEF AttachLink, AttachConfirm
<1>3. UNCHANGED <<names, zones, history>> /\ l \in Labels
  BY DEF AttachLink, AttachConfirm, Labels
<1>4. pc[a] \in {"link", "linked"}
  BY DEF AttachLink, AttachConfirm, At
<1>5. MayGo(a, l)
  BY <1>1, <1>4 DEF MayGo, Wrote, Writers, Keepers
<1> QED
  BY <1>1, <1>2, <1>3, <1>5, GotoOnly

-----------------------------------------------------------------------------
(* Collect and redact before they publish.  A command that reads something  *)
(* and relies on nothing yet.                                               *)
LEMMA LearnKeeps ==
    ASSUME NEW c \in Keepers, NEW l \in Labels, NEW k \in Memory,
           FlowInv, Learn(c, l, k), RestType',
           UNCHANGED <<docs, old, pend, report, missed, withdrawn>>,
           c \in Collects => k.m.share = {} /\ (l = "raw" => k.name \in Names),
           c \in Redacts => Written(k.m),
           pc[c] \notin Wrote, l \notin {"clean"} \cup Relying \cup Gone
    PROVE  FlowInv'
<1>1. c \in Commands /\ c \in Writers /\ c \notin Moves
  BY Kinds
<1>2. /\ pc' \in [Commands -> Labels] /\ mem' \in [Commands -> Memory]
      /\ pc'[c] = l /\ mem'[c] = k
      /\ \A d \in Commands : d # c => pc'[d] = pc[d] /\ mem'[d] = mem[d]
  BY <1>1, LearnEffect DEF FlowInv, FlowType, TypeOK, TurnType
<1>3. l \notin {"settle", "resettle"} \cup Based \cup Staged
  BY DEF Relying, Staged, Based
<1>4. FlowType'
  <2>1. PlaceType(c)'
    <3>1. old'[c] \in Maybe(Kind(c)) /\ pend'[c] \in Maybe(Kind(c))
      BY <1>1 DEF FlowInv, FlowType, TurnType
    <3> QED
      BY <1>1, <1>2, <1>3, <3>1 DEF PlaceType
  <2> QED
    BY <1>1, <1>2, <2>1, TypeStep DEF FlowInv
<1>5. CommandInv(c)'
  <2>1. Written(k.m) => Written(mem[c].m)'
    <3> SUFFICES ASSUME Written(k.m), Sharing(mem[c].m)'
                 PROVE  mem'[c].m.gen \in Redacts /\ pc'[mem'[c].m.gen] \in Wrote
      BY DEF Written
    <3>1. k.m.gen \in Redacts /\ pc[k.m.gen] \in Wrote
      BY <1>2 DEF Written, Sharing
    <3> QED
      BY <1>2, <3>1, Kinds DEF Keepers
  <2>2. c \in Collects => mem'[c].m.share = {}
    BY <1>2
  <2> QED
    BY <1>2, <1>3, <2>1, <2>2 DEF CommandInv
<1>6. c \in Moves => VerifyInv(c)'
  BY <1>1
<1>7. pc[c] \notin Wrote /\ pc'[c] \notin Gone
  BY <1>2
<1> QED
  BY <1>1, <1>2, <1>4, <1>5, <1>6, <1>7, QuietStep

(* The steps of collect before it publishes its row.                        *)
LEMMA CollectKeeps ==
    ASSUME FlowInv, NEW c \in Collects, CollectReadReport(c) \/ CollectReadManifest(c)
    PROVE  FlowInv'
<1>1. /\ c \in Commands /\ c \in Keepers /\ c \notin Redacts /\ c \notin Moves
      /\ mem[c] \in Memory
  BY Kinds DEF FlowInv, FlowType, TypeOK, Commands, Writers, Keepers
<1>2. UNCHANGED <<names, zones, history>> /\ pc[c] \in {"idle", "manifest"}
  BY DEF CollectReadReport, CollectReadManifest, At
<1>3. ASSUME NEW l \in {"manifest", "failed"}, Goto(c, l)
      PROVE  FlowInv'
  <2>1. MayGo(c, l)
    BY <1>1, <1>2 DEF MayGo, Wrote, Gone, Relying, Staged, Based
  <2>2. l \in Labels
    BY DEF Labels
  <2> QED
    BY <1>1, <1>2, <1>3, <2>1, <2>2, GotoOnly
<1>4. ASSUME docs.manifest # None, docs.manifest.share = {}, NEW n \in Names,
             Learn(c, "raw", [mem[c] EXCEPT !.m = docs.manifest, !.name = n])
      PROVE  FlowInv'
  <2> DEFINE k == [mem[c] EXCEPT !.m = docs.manifest, !.name = n]
  <2>1. docs.manifest \in Manifest
    BY <1>4 DEF FlowInv, FlowType, TypeOK, Maybe
  <2>2. k \in Memory /\ k.m.share = {} /\ k.name \in Names
    BY <1>1, <1>4, <2>1 DEF Memory
  <2>3. Learn(c, "raw", k) /\ "raw" \in Labels
    BY <1>4 DEF Labels
  <2>4. "raw" \notin {"clean"} \cup Relying \cup Gone /\ pc[c] \notin Wrote
    BY <1>2 DEF Relying, Staged, Gone, Wrote
  <2>5. RestType' /\ UNCHANGED <<docs, old, pend, report, missed, withdrawn>>
    BY <1>2, FlowTypeParts DEF FlowInv, RestType, names, zones, history
  <2> HIDE DEF k
  <2> QED
    BY <1>1, <2>2, <2>3, <2>4, <2>5, LearnKeeps
<1>5. CASE CollectReadReport(c)
  BY <1>3, <1>5 DEF CollectReadReport
<1>6. CASE CollectReadManifest(c)
  BY <1>3, <1>4, <1>6 DEF CollectReadManifest, Readable
<1> QED
  BY <1>5, <1>6

(* collect's raw artifact comes and goes.                                   *)
LEMMA CollectFileKeeps ==
    ASSUME FlowInv, NEW c \in Collects, CollectWriteRaw(c) \/ CollectCleanup(c)
    PROVE  FlowInv'
<1>1. /\ c \in Commands /\ c \in Keepers /\ c \notin Redacts /\ c \notin Moves
      /\ mem[c] \in Memory
  BY Kinds DEF FlowInv, FlowType, TypeOK, Commands, Writers, Keepers
<1>2. mem[c].name \in Names /\ pc[c] \in {"raw", "clean"}
  BY DEF CollectWriteRaw, CollectCleanup, At, FlowInv, FlowType, TurnType
<1>3. PICK l \in {"save", "failed"} : Goto(c, l)
  BY DEF CollectWriteRaw, CollectCleanup
<1>4. l \in Labels /\ (l = "save" => pc[c] = "raw")
  <2>1. CASE CollectWriteRaw(c)
    BY <2>1 DEF CollectWriteRaw, At, Labels
  <2>2. CASE CollectCleanup(c)
    <3>1. Goto(c, "failed") /\ pc \in [Commands -> Labels] /\ mem \in [Commands -> Memory]
      BY <2>2 DEF CollectCleanup, FlowInv, FlowType, TypeOK, TurnType
    <3>2. pc'[c] = "failed" /\ pc'[c] = l
      BY <1>1, <1>3, <3>1, GotoEffect DEF Labels
    <3> QED
      BY <3>2 DEF Labels
  <2> QED
    BY <2>1, <2>2
<1>5. MayGo(c, l)
  BY <1>1, <1>2, <1>4 DEF MayGo, Wrote, Gone, Relying, Staged, Based
<1>6. UNCHANGED <<docs, old, pend, kept, report, shareDir, trouble, residue, undone, missed,
                  withdrawn>>
  BY DEF CollectWriteRaw, CollectCleanup, names, history
<1>7. rawDir' \in [Names -> Maybe(Collects)]
  <2>1. rawDir \in [Names -> Maybe(Collects)]
    BY DEF FlowInv, FlowType, TypeOK
  <2> QED
    BY <1>2, <2>1 DEF CollectWriteRaw, CollectCleanup, Maybe
<1>8. RestType'
  BY <1>6, <1>7, FlowTypeParts DEF FlowInv, RestType
<1> QED
  BY <1>1, <1>3, <1>4, <1>5, <1>6, <1>8, GotoKeeps

(* redact reads the manifest, the report and the zones.                     *)
LEMMA RedactReadKeeps ==
    ASSUME FlowInv, NEW r \in Redacts,
           RedactReadManifest(r) \/ RedactReadReport(r) \/ RedactList(r)
    PROVE  FlowInv'
<1>1. /\ r \in Commands /\ r \in Keepers /\ r \notin Collects /\ r \notin Moves
      /\ mem[r] \in Memory
  BY Kinds DEF FlowInv, FlowType, TypeOK, Commands, Writers, Keepers
<1>2. UNCHANGED <<names, zones, history>> /\ pc[r] \in {"idle", "report", "zone"}
  BY DEF RedactReadManifest, RedactReadReport, RedactList, At
<1>3. ASSUME NEW l \in {"zone", "failed"}, Goto(r, l)
      PROVE  FlowInv'
  <2>1. MayGo(r, l)
    BY <1>1, <1>2 DEF MayGo, Wrote, Gone, Relying, Staged, Based
  <2>2. l \in Labels
    BY DEF Labels
  <2> QED
    BY <1>1, <1>2, <1>3, <2>1, <2>2, GotoOnly
<1>4. ASSUME NEW l \in {"report", "files"}, NEW k \in Memory, Learn(r, l, k), Written(k.m)
      PROVE  FlowInv'
  <2>1. l \in Labels /\ l \notin {"clean"} \cup Relying \cup Gone /\ pc[r] \notin Wrote
    BY <1>2 DEF Relying, Staged, Gone, Wrote, Labels
  <2>2. RestType' /\ UNCHANGED <<docs, old, pend, report, missed, withdrawn>>
    BY <1>2, FlowTypeParts DEF FlowInv, RestType, names, zones, history
  <2> QED
    BY <1>1, <1>4, <2>1, <2>2, LearnKeeps
<1>5. CASE RedactReadManifest(r)
  <2>1. CASE Goto(r, "failed")
    BY <1>3, <2>1
  <2>2. CASE Readable(docs.manifest) /\ Learn(r, "report", [mem[r] EXCEPT !.m = docs.manifest])
    <3> DEFINE k == [mem[r] EXCEPT !.m = docs.manifest]
    <3>1. docs.manifest \in Manifest
      BY <2>2 DEF Readable, FlowInv, FlowType, TypeOK, Maybe
    <3>2. k \in Memory /\ k.m = docs.manifest
      BY <1>1, <3>1 DEF Memory
    <3>3. Written(k.m)
      BY <3>2 DEF FlowInv, NameInv, DocInv
    <3>4. Learn(r, "report", k)
      BY <2>2
    <3> HIDE DEF k
    <3> QED
      BY <1>4, <3>2, <3>3, <3>4
  <2> QED
    BY <1>5, <2>1, <2>2 DEF RedactReadManifest
<1>6. CASE RedactReadReport(r)
  BY <1>3, <1>6 DEF RedactReadReport
<1>7. CASE RedactList(r)
  <2>1. CASE Goto(r, "failed")
    BY <1>3, <2>1
  <2>2. CASE Learn(r, "files", [mem[r] EXCEPT !.todo = Files(rawDir)])
    <3> DEFINE k == [mem[r] EXCEPT !.todo = Files(rawDir)]
    <3>1. k \in Memory /\ k.m = mem[r].m
      BY <1>1 DEF Memory, Files
    <3>2. Written(k.m)
      BY <1>1, <3>1 DEF FlowInv, CommandInv
    <3>3. Learn(r, "files", k)
      BY <2>2
    <3> HIDE DEF k
    <3> QED
      BY <1>4, <3>1, <3>2, <3>3
  <2> QED
    BY <1>7, <2>1, <2>2 DEF RedactList
<1> QED
  BY <1>5, <1>6, <1>7

(* redact writes its outputs ...                                            *)
LEMMA RedactFileKeeps ==
    ASSUME FlowInv, NEW r \in Redacts, RedactFile(r)
    PROVE  FlowInv'
<1>1. /\ r \in Commands /\ r \in Keepers /\ r \notin Collects /\ r \notin Moves
      /\ mem[r] \in Memory
  BY Kinds DEF FlowInv, FlowType, TypeOK, Commands, Writers, Keepers
<1>2. /\ UNCHANGED <<docs, old, pend, kept, report, rawDir, trouble, residue, undone, missed,
                     withdrawn>>
      /\ pc[r] = "files"
  BY DEF RedactFile, At, names, history
<1>3. /\ rawDir \in [Names -> Maybe(Collects)] /\ shareDir \in [Names -> Maybe(Output)]
      /\ mem[r].todo \subseteq Names /\ mem[r].found \subseteq Row /\ mem[r].m \in Manifest
  BY <1>1 DEF FlowInv, FlowType, TypeOK, Memory
<1>4. PICK n \in mem[r].todo :
         \/ /\ rawDir[n] # None
            /\ n \in Opaque \/ shareDir[n] = None
            /\ shareDir' = IF n \in Opaque THEN shareDir
                           ELSE [shareDir EXCEPT ![n] = [by |-> rawDir[n], via |-> r]]
            /\ Learn(r, "files",
                     [mem[r] EXCEPT !.todo = @ \ {n},
                                    !.found = @ \cup {[name |-> n, by |-> rawDir[n]]}])
         \/ Goto(r, "outputs") /\ UNCHANGED shareDir
  BY DEF RedactFile
<1>5. CASE Goto(r, "outputs") /\ UNCHANGED shareDir
  <2>1. MayGo(r, "outputs")
    BY <1>1, <1>2 DEF MayGo, Wrote, Gone, Relying, Staged, Based
  <2>2. "outputs" \in Labels /\ RestType'
    BY <1>2, <1>5, FlowTypeParts DEF FlowInv, RestType, Labels
  <2> QED
    BY <1>1, <1>2, <1>5, <2>1, <2>2, GotoKeeps
<1>6. CASE /\ rawDir[n] # None
           /\ shareDir' = IF n \in Opaque THEN shareDir
                          ELSE [shareDir EXCEPT ![n] = [by |-> rawDir[n], via |-> r]]
           /\ Learn(r, "files",
                    [mem[r] EXCEPT !.todo = @ \ {n},
                                   !.found = @ \cup {[name |-> n, by |-> rawDir[n]]}])
  <2> DEFINE row == [name |-> n, by |-> rawDir[n]]
  <2> DEFINE k == [mem[r] EXCEPT !.todo = @ \ {n}, !.found = @ \cup {row}]
  <2>1. n \in Names /\ rawDir[n] \in Collects
    BY <1>3, <1>6 DEF Maybe
  <2>2. row \in Row /\ [by |-> rawDir[n], via |-> r] \in Output
    BY <2>1 DEF Row, Output
  <2>3. mem[r].todo \ {n} \subseteq Names /\ mem[r].found \cup {row} \subseteq Row
    <3> HIDE DEF row
    <3> QED
      BY <1>3, <2>2
  <2>4. k \in Memory /\ k.m = mem[r].m
    <3> HIDE DEF row
    <3> QED
      BY <1>1, <2>3 DEF Memory
  <2>5. shareDir' \in [Names -> Maybe(Output)]
    BY <1>3, <1>6, <2>1, <2>2 DEF Maybe
  <2>6. RestType'
    BY <1>2, <2>5, FlowTypeParts DEF FlowInv, RestType
  <2>7. Learn(r, "files", k)
    BY <1>6
  <2>8. Written(mem[r].m)
    BY <1>1 DEF FlowInv, CommandInv
  <2>9. Written(k.m)
    BY <2>4, <2>8
  <2>10. /\ "files" \in Labels /\ "files" \notin {"clean"} \cup Relying \cup Gone
         /\ pc[r] \notin Wrote
    BY <1>2 DEF Relying, Staged, Gone, Wrote, Labels
  <2> HIDE DEF k, row
  <2> QED
    BY <1>1, <1>2, <2>4, <2>6, <2>7, <2>9, <2>10, LearnKeeps
<1> QED
  BY <1>4, <1>5, <1>6

(* ... and removes them.                                                    *)
LEMMA RedactCleanupKeeps ==
    ASSUME FlowInv, NEW r \in Redacts, RedactCleanup(r) \/ RedactRollbackOutputs(r)
    PROVE  FlowInv'
<1>1. /\ r \in Commands /\ r \in Keepers /\ r \notin Collects /\ r \notin Moves
  BY Kinds DEF Keepers
<1>2. PICK l \in {"clean", "failed"} : Goto(r, l) /\ (l = "clean" => pc[r] = "outputs")
  BY DEF RedactCleanup, RedactRollbackOutputs, At
<1>3. pc[r] \in {"outputs", "last"} /\ l \in Labels
  BY DEF RedactCleanup, RedactRollbackOutputs, At, Labels
<1>4. /\ UNCHANGED <<docs, old, pend, kept, report, rawDir, trouble, residue, undone, missed,
                     withdrawn>>
      /\ shareDir' = OwnOutputsRemoved(r)
  BY DEF RedactCleanup, RedactRollbackOutputs, names, history
<1>5. MayGo(r, l)
  BY <1>1, <1>2, <1>3 DEF MayGo, Wrote, Gone, Relying, Staged, Based
<1>6. shareDir' \in [Names -> Maybe(Output)]
  BY <1>4 DEF OwnOutputsRemoved, Maybe, FlowInv, FlowType, TypeOK
<1>7. RestType'
  BY <1>4, <1>6, FlowTypeParts DEF FlowInv, RestType
<1> QED
  BY <1>1, <1>2, <1>3, <1>4, <1>5, <1>7, GotoKeeps

(* redact publishes its report: there was none.                             *)
LEMMA RedactSaveReportKeeps ==
    ASSUME FlowInv, NEW r \in Redacts, RedactSaveReport(r)
    PROVE  FlowInv'
<1>1. /\ r \in Commands /\ r \in Keepers /\ r \in Writers /\ r \notin Collects
      /\ r \notin Moves /\ mem[r] \in Memory
  BY Kinds DEF FlowInv, FlowType, TypeOK, Commands, Writers, Keepers
<1>2. /\ UNCHANGED <<docs, old, pend, kept, rawDir, shareDir, trouble, residue, undone, missed,
                     withdrawn>>
      /\ pc[r] = "files"
  BY DEF RedactSaveReport, At, names, history
<1>3. CASE Goto(r, "outputs") /\ UNCHANGED report
  <2>1. MayGo(r, "outputs")
    BY <1>1, <1>2 DEF MayGo, Wrote, Gone, Relying, Staged, Based
  <2>2. "outputs" \in Labels /\ RestType'
    BY <1>2, <1>3, FlowTypeParts DEF FlowInv, RestType, Labels
  <2> QED
    BY <1>1, <1>2, <1>3, <2>1, <2>2, GotoKeeps
<1>4. CASE report = None /\ report' = [gen |-> r, rows |-> mem[r].found] /\ Goto(r, "save")
  <2>1. /\ pc' \in [Commands -> Labels] /\ mem' \in [Commands -> Memory]
        /\ pc'[r] = "save" /\ mem'[r] = mem[r]
        /\ \A d \in Commands : d # r => pc'[d] = pc[d] /\ mem'[d] = mem[d]
    <3>1. "save" \in Labels
      BY DEF Labels
    <3>2. pc \in [Commands -> Labels] /\ mem \in [Commands -> Memory]
      BY DEF FlowInv, FlowType, TypeOK, TurnType
    <3> QED
      BY <1>1, <1>4, <3>1, <3>2, GotoEffect
  <2>2. report' \in Report /\ report'.gen = r /\ report'.rows = mem[r].found /\ report' # None
    <3>1. report' \in Report
      BY <1>1, <1>4 DEF Report, Memory
    <3> QED
      BY <1>4, <3>1, NoneAssumption
  <2>3. FlowType'
    <3>1. RestType'
      BY <1>2, <2>2, FlowTypeParts DEF FlowInv, RestType, Maybe
    <3>2. PlaceType(r)'
      <4>1. old'[r] \in Maybe(Kind(r)) /\ pend'[r] \in Maybe(Kind(r))
        BY <1>1, <1>2 DEF FlowInv, FlowType, TurnType
      <4> QED
        BY <1>1, <2>1, <4>1 DEF PlaceType
    <3> QED
      BY <1>1, <1>2, <2>1, <3>1, <3>2, TypeStep DEF FlowInv
  <2>4. pc[r] \notin Wrote /\ pc'[r] \notin Gone \cup Staged \cup Based
    BY <1>2, <2>1 DEF Wrote, Gone, Staged, Based
  <2>5. CommandInv(r)'
    <3>1. Written(mem[r].m)
      BY <1>1 DEF FlowInv, CommandInv
    <3>2. Written(mem[r].m)'
      <4> SUFFICES ASSUME Sharing(mem[r].m)'
                   PROVE  mem'[r].m.gen \in Redacts /\ pc'[mem'[r].m.gen] \in Wrote
        BY DEF Written
      <4>1. mem[r].m.gen \in Redacts /\ pc[mem[r].m.gen] \in Wrote
        BY <2>1, <3>1 DEF Written, Sharing
      <4> QED
        BY <2>1, <2>4, <4>1, Kinds DEF Keepers
    <3> QED
      BY <1>1, <2>1, <2>2, <2>4, <3>2 DEF CommandInv, OwnReport
  <2>6. \A d \in Keepers : CommandInv(d)'
    BY <1>1, <1>2, <1>4, <2>1, <2>4, <2>5, CommandStep DEF OwnReport
  <2>7. NameInv'
    BY <1>1, <1>2, <1>4, <2>1, <2>4, NameStep
  <2>8. \A t \in Moves : VerifyInv(t)'
    BY <1>1, <1>2, <1>4, <2>1, VerifyStep
  <2> QED
    BY <2>3, <2>6, <2>7, <2>8 DEF FlowInv
<1> QED
  BY <1>3, <1>4 DEF RedactSaveReport

(* redact takes its report back.  Its manifest is gone, unless missed.      *)
LEMMA RedactRollbackReportKeeps ==
    ASSUME FlowInv, NEW r \in Redacts, RedactRollbackReport(r)
    PROVE  FlowInv'
<1>1. /\ r \in Commands /\ r \in Keepers /\ r \in Writers /\ r \notin Collects
      /\ r \notin Moves
  BY Kinds DEF Keepers
<1>2. /\ UNCHANGED <<docs, old, pend, kept, rawDir, shareDir, trouble, residue, undone, missed>>
      /\ pc[r] = "clean" /\ Goto(r, "last")
  BY DEF RedactRollbackReport, At, names
<1>3. CASE ~OwnReport(r)
  <2>1. MayGo(r, "last")
    BY <1>1, <1>2 DEF MayGo, Wrote, Gone, Relying, Staged, Based
  <2>2. UNCHANGED <<report, withdrawn>>
    BY <1>3 DEF RedactRollbackReport
  <2>3. "last" \in Labels /\ RestType'
    BY <1>2, <2>2, FlowTypeParts DEF FlowInv, RestType, Labels
  <2> QED
    BY <1>1, <1>2, <2>1, <2>2, <2>3, GotoKeeps
<1>4. CASE OwnReport(r)
  <2>1. report' = None /\ withdrawn' = withdrawn \cup {r}
    BY <1>4 DEF RedactRollbackReport
  <2>2. /\ pc' \in [Commands -> Labels] /\ mem' \in [Commands -> Memory]
        /\ pc'[r] = "last" /\ mem'[r] = mem[r]
        /\ \A d \in Commands : d # r => pc'[d] = pc[d] /\ mem'[d] = mem[d]
    <3>1. "last" \in Labels
      BY DEF Labels
    <3>2. pc \in [Commands -> Labels] /\ mem \in [Commands -> Memory]
      BY DEF FlowInv, FlowType, TypeOK, TurnType
    <3> QED
      BY <1>1, <1>2, <3>1, <3>2, GotoEffect
  <2>3. FlowType'
    <3>1. RestType'
      BY <1>2, <2>1, FlowTypeParts DEF FlowInv, RestType, Maybe
    <3>2. PlaceType(r)'
      <4>1. old'[r] \in Maybe(Kind(r)) /\ pend'[r] \in Maybe(Kind(r))
        BY <1>1, <1>2 DEF FlowInv, FlowType, TurnType
      <4> QED
        BY <1>1, <2>2, <4>1 DEF PlaceType
    <3> QED
      BY <1>1, <1>2, <2>2, <3>1, <3>2, TypeStep DEF FlowInv
  <2>4. /\ pc[r] \in Gone \cap Wrote /\ pc'[r] \in Wrote
        /\ pc'[r] \notin Gone \cup Relying \cup Staged \cup Based
    BY <1>2, <2>2 DEF Wrote, Gone, Relying, Staged, Based
  <2>5. \A x \in Commands : pc[x] \in Wrote => pc'[x] \in Wrote
    BY <2>2, <2>4
  <2>6. CommandInv(r)'
    <3>1. Written(mem[r].m)
      BY <1>1 DEF FlowInv, CommandInv
    <3>2. Written(mem[r].m)'
      <4> SUFFICES ASSUME Sharing(mem[r].m)'
                   PROVE  mem'[r].m.gen \in Redacts /\ pc'[mem'[r].m.gen] \in Wrote
        BY DEF Written
      <4>1. mem[r].m.gen \in Redacts /\ pc[mem[r].m.gen] \in Wrote
        BY <2>2, <3>1 DEF Written, Sharing
      <4> QED
        BY <2>2, <2>5, <4>1, Kinds DEF Keepers
    <3> QED
      BY <1>1, <2>4, <3>2 DEF CommandInv
  <2>7. \A d \in Keepers : CommandInv(d)'
    <3>1. \A d \in Redacts : d # r => ~OwnReport(d)
      BY <1>4 DEF OwnReport
    <3> QED
      BY <1>1, <1>2, <2>2, <2>4, <2>6, <3>1, CommandStep
  <2>8. \A d : DocInv(d) /\ (r \notin missed => ~Of(d, r))
                 => Written(d)' /\ (Sharing(d) => d.gen \in missed)
    <3> SUFFICES ASSUME NEW d, DocInv(d), r \notin missed => ~Of(d, r)
                 PROVE  Written(d)' /\ (Sharing(d) => d.gen \in missed)
      OBVIOUS
    <3>1. Sharing(d) => d.gen \in Redacts /\ pc[d.gen] \in Wrote
      BY DEF DocInv, Written
    <3>2. Written(d)'
      BY <2>5, <3>1, Kinds DEF Written, Sharing, Keepers
    <3>3. Sharing(d) /\ d.gen \notin missed => d.gen = r
      BY <1>4 DEF DocInv, Covered, OwnReport
    <3> QED
      BY <3>2, <3>3 DEF Of
  <2>9. r \notin missed => Nowhere(r)
    BY <2>4 DEF FlowInv, NameInv
  <2>10. NameInv'
    <3>1. DocInv(docs.manifest)'
      <4>1. DocInv(docs.manifest) /\ (r \notin missed => ~Of(docs.manifest, r))
        BY <2>9 DEF FlowInv, NameInv, Nowhere
      <4> QED
        BY <1>2, <2>8, <4>1 DEF DocInv, Written, Sharing
    <3>2. ASSUME NEW k \in Keepers
          PROVE  DocInv(pend[k])'
      <4>1. DocInv(pend[k]) /\ (r \notin missed => ~Of(pend[k], r))
        BY <2>9 DEF FlowInv, NameInv, Nowhere
      <4> QED
        BY <1>2, <2>8, <4>1 DEF DocInv, Written, Sharing
    <3>3. ASSUME NEW x \in Redacts \ missed'
          PROVE  Sole(x)' /\ (pc'[x] \in Gone => Nowhere(x)')
      <4>1. Sole(x) /\ (pc[x] \in Gone => Nowhere(x))
        BY <1>2 DEF FlowInv, NameInv
      <4>2. pc'[x] \in Gone => pc[x] \in Gone
        BY <2>2, <2>4, Kinds DEF Keepers
      <4> QED
        BY <1>2, <4>1, <4>2 DEF Sole, Nowhere, Of, Sharing
    <3> QED
      BY <3>1, <3>2, <3>3 DEF NameInv
  <2>11. \A t \in Moves : VerifyInv(t)'
    <3>1. withdrawn' # {}
      BY <2>1
    <3> QED
      BY <3>1 DEF VerifyInv
  <2> QED
    BY <2>3, <2>7, <2>10, <2>11 DEF FlowInv
<1> QED
  BY <1>3, <1>4

-----------------------------------------------------------------------------
(* The steps of _write_bytes_at and of its rollback.  What a command        *)
(* publishes is of its kind, and of its own generation.                     *)
LEMMA OwnType ==
    ASSUME FlowInv, NEW c \in Writers, pc[c] \in Relying
    PROVE  /\ Own(c) \in Kind(c) /\ Own(c) # None /\ Own(c).gen = c
           /\ c \in Collects => Own(c).share = {}
           /\ c \in Redacts => /\ Own(c).share = Clear(mem[c].found)
                               /\ Own(c).raw \subseteq mem[c].found
<1>1. mem[c] \in Memory /\ c \in Commands
  BY Kinds DEF FlowInv, FlowType, TypeOK
<1>2. CASE c \in Collects
  <2> DEFINE row == [name |-> mem[c].name, by |-> c]
  <2>1. mem[c].name \in Names /\ mem[c].m \in Manifest /\ mem[c].m.share = {}
    BY <1>1, <1>2, Kinds DEF FlowInv, FlowType, TurnType, Memory, CommandInv, Keepers
  <2>2. row \in Row
    BY <1>2, <2>1 DEF Row
  <2>3. Own(c) = [gen |-> c, raw |-> mem[c].m.raw \cup {row}, share |-> mem[c].m.share]
    BY <1>2, Kinds DEF Own
  <2> HIDE DEF row
  <2>7. mem[c].m.raw \cup {row} \subseteq Row /\ mem[c].m.share \subseteq Row
    BY <2>1, <2>2 DEF Manifest
  <2>4. Own(c) \in Manifest /\ Own(c).gen = c /\ Own(c).share = {}
    BY <1>1, <2>1, <2>3, <2>7 DEF Manifest
  <2>5. Kind(c) = Manifest /\ c \notin Redacts
    BY <1>2, Kinds DEF Keepers
  <2> QED
    BY <2>4, <2>5, NoneAssumption
<1>3. CASE c \in Redacts
  <2>1. mem[c].found \subseteq Row
    BY <1>1 DEF Memory
  <2>2. Own(c) = [gen |-> c,
                  raw |-> {row \in mem[c].found : row.name \in NamesOf(mem[c].m.raw)},
                  share |-> Clear(mem[c].found)]
    BY <1>3, Kinds DEF Own
  <2>3. Own(c) \in Manifest
    BY <1>1, <2>1, <2>2 DEF Manifest, Clear
  <2>4. Kind(c) = Manifest /\ c \notin Collects
    BY <1>3, Kinds DEF Keepers
  <2>5. Own(c).gen = c /\ Own(c).share = Clear(mem[c].found) /\ Own(c).raw \subseteq mem[c].found
    BY <2>2
  <2> QED
    BY <2>3, <2>4, <2>5, NoneAssumption, <1>3
<1>4. CASE c \in Moves
  <2>1. mem[c].s \in Summary /\ mem[c].s.phase < LastPhase
    BY <1>1, <1>4 DEF FlowInv, FlowType, TurnType, Memory
  <2>2. Own(c) = [gen |-> c, phase |-> mem[c].s.phase + 1]
    BY <1>4, Kinds DEF Own
  <2>3. mem[c].s.phase + 1 \in 0 .. LastPhase
    BY <2>1, FlowAssumption DEF Summary
  <2>4. Own(c) \in Summary /\ Own(c).gen = c
    BY <1>4, <2>2, <2>3 DEF Summary
  <2>5. Kind(c) = Summary /\ c \notin Collects /\ c \notin Redacts
    BY <1>4, Kinds DEF Keepers
  <2> QED
    BY <2>4, <2>5, NoneAssumption
<1> QED
  BY <1>2, <1>3, <1>4 DEF Writers

WriterStep(c) ==
    \/ Check(c) \/ ClaimOld(c) \/ Take(c) \/ TakeNothing(c)
    \/ SettleOwned(c) \/ SettleForeign(c)
    \/ Identify(c) \/ Publish(c) \/ Commit(c) \/ Finalize(c) \/ LeaseLost(c)
    \/ Restore(c) \/ DiscardOld(c)

(* A step of a publication changes what is at the command's own names.      *)
LEMMA WriterNames ==
    ASSUME FlowInv, NEW c \in Writers, WriterStep(c)
    PROVE  /\ old'[c] \in Maybe(Kind(c)) /\ pend'[c] \in Maybe(Kind(c))
           /\ \A name \in {old', pend'} : name \in [Writers -> Maybe(Manifest \cup Summary)]
           /\ \A d \in Writers : d # c => old'[d] = old[d] /\ pend'[d] = pend[d]
<1>1. /\ \A name \in {old, pend} : name \in [Writers -> Maybe(Manifest \cup Summary)]
      /\ old[c] \in Maybe(Kind(c)) /\ pend[c] \in Maybe(Kind(c))
      /\ docs \in [manifest : Maybe(Manifest), summary : Maybe(Summary)]
  BY DEF FlowInv, FlowType, TypeOK, TurnType
<1>2. There(c) \in Maybe(Kind(c)) /\ None \in Maybe(Kind(c))
  BY <1>1, ThereType DEF Maybe
<1>3. Maybe(Kind(c)) \subseteq Maybe(Manifest \cup Summary)
  BY DEF Kind, Maybe
<1>4. old' = old \/ \E d \in Maybe(Kind(c)) : old' = [old EXCEPT ![c] = d]
  BY <1>2 DEF WriterStep, Check, ClaimOld, Take, TakeNothing, SettleOwned, SettleForeign,
     Identify, Publish, Commit, Finalize, LeaseLost, Restore, DiscardOld, names
<1>5. pend' = pend \/ \E d \in Maybe(Kind(c)) : pend' = [pend EXCEPT ![c] = d]
  BY <1>2 DEF WriterStep, Check, ClaimOld, Take, TakeNothing, SettleOwned, SettleForeign,
     Identify, Publish, Commit, Finalize, LeaseLost, Restore, DiscardOld, names
<1>6. /\ old'[c] \in Maybe(Kind(c)) /\ old' \in [Writers -> Maybe(Manifest \cup Summary)]
      /\ \A d \in Writers : d # c => old'[d] = old[d]
  <2>1. CASE old' = old
    BY <1>1, <2>1
  <2>2. ASSUME NEW d \in Maybe(Kind(c)), old' = [old EXCEPT ![c] = d]
        PROVE  /\ old'[c] \in Maybe(Kind(c)) /\ old' \in [Writers -> Maybe(Manifest \cup Summary)]
               /\ \A e \in Writers : e # c => old'[e] = old[e]
    BY <1>1, <1>3, <2>2
  <2> QED
    BY <1>4, <2>1, <2>2
<1>7. /\ pend'[c] \in Maybe(Kind(c)) /\ pend' \in [Writers -> Maybe(Manifest \cup Summary)]
      /\ \A d \in Writers : d # c => pend'[d] = pend[d]
  <2>1. CASE pend' = pend
    BY <1>1, <2>1
  <2>2. ASSUME NEW d \in Maybe(Kind(c)), pend' = [pend EXCEPT ![c] = d]
        PROVE  /\ pend'[c] \in Maybe(Kind(c)) /\ pend' \in [Writers -> Maybe(Manifest \cup Summary)]
               /\ \A e \in Writers : e # c => pend'[e] = pend[e]
    BY <1>1, <1>3, <2>2
  <2> QED
    BY <1>5, <2>1, <2>2
<1> QED
  BY <1>6, <1>7

(* ... puts there, if anything, a document of its kind ...                  *)
LEMMA WriterDocs ==
    ASSUME FlowInv, NEW c \in Writers, WriterStep(c)
    PROVE  /\ docs' \in [manifest : Maybe(Manifest), summary : Maybe(Summary)]
           /\ kept' \subseteq Manifest \cup Summary
           /\ c \in Moves => docs'.manifest = docs.manifest
<1>1. /\ old[c] \in Maybe(Kind(c)) /\ pend[c] \in Maybe(Kind(c))
      /\ docs \in [manifest : Maybe(Manifest), summary : Maybe(Summary)]
      /\ kept \subseteq Manifest \cup Summary
      /\ pc[c] \in {"settle", "resettle"} => pend[c] # None
  BY DEF FlowInv, FlowType, TypeOK, TurnType
<1>2. None \in Maybe(Kind(c))
  BY DEF Maybe
<1>3. Publish(c) => Own(c) \in Maybe(Kind(c))
  BY OwnType DEF Publish, At, Relying, Staged, Maybe
<1>4. docs' = docs \/ \E d \in Maybe(Kind(c)) : Put(c, d)
  BY <1>1, <1>2, <1>3 DEF WriterStep, Check, ClaimOld, Take, TakeNothing, SettleOwned,
     SettleForeign, Identify, Publish, Commit, Finalize, LeaseLost, Restore, DiscardOld, names
<1>5. kept' = kept \/ (kept' = kept \cup {pend[c]} /\ pc[c] \in {"settle", "resettle"})
  BY DEF WriterStep, Check, ClaimOld, Take, TakeNothing, SettleOwned,
     SettleForeign, Identify, Publish, Commit, Finalize, LeaseLost, Restore, DiscardOld, names
<1>6. kept' \subseteq Manifest \cup Summary
  BY <1>1, <1>5 DEF Kind, Maybe
<1>7. CASE docs' = docs
  BY <1>1, <1>6, <1>7
<1>8. ASSUME NEW d \in Maybe(Kind(c)), Put(c, d)
      PROVE  /\ docs' \in [manifest : Maybe(Manifest), summary : Maybe(Summary)]
             /\ c \in Moves => docs'.manifest = docs.manifest
  BY <1>1, <1>8, PutEffect
<1> QED
  BY <1>4, <1>6, <1>7, <1>8

(* ... and leaves the zones alone.                                          *)
LEMMA WriterTypes ==
    ASSUME FlowInv, NEW c \in Writers, WriterStep(c)
    PROVE  /\ RestType' /\ report' = report /\ withdrawn' = withdrawn
           /\ missed \subseteq missed'
<1>1. UNCHANGED <<report, rawDir, shareDir, residue, withdrawn>>
  BY DEF WriterStep, Check, ClaimOld, Take, TakeNothing, SettleOwned,
     SettleForeign, Identify, Publish, Commit, Finalize, LeaseLost, Restore, DiscardOld,
     zones, history
<1>2. trouble' = trouble \/ (trouble < MaxTrouble /\ trouble' = trouble + 1)
  BY DEF WriterStep, Check, ClaimOld, Take, TakeNothing, SettleOwned,
     SettleForeign, Identify, Publish, Commit, Finalize, LeaseLost, Restore, DiscardOld,
     history
<1>3. undone' \in {undone, undone \cup {c}} /\ missed' \in {missed, missed \cup {c}}
  BY DEF WriterStep, Check, ClaimOld, Take, TakeNothing, SettleOwned,
     SettleForeign, Identify, Publish, Commit, Finalize, LeaseLost, Restore, DiscardOld,
     history
<1>4. RestType /\ c \in Commands
  BY FlowTypeParts, Kinds DEF FlowInv
<1>5. trouble' \in 0 .. MaxTrouble
  BY <1>2, <1>4, FlowAssumption DEF RestType
<1>6. residue' \cup undone' \cup missed' \subseteq Commands
  BY <1>1, <1>3, <1>4 DEF RestType
<1>7. /\ \A name \in {old', pend'} : name \in [Writers -> Maybe(Manifest \cup Summary)]
      /\ docs' \in [manifest : Maybe(Manifest), summary : Maybe(Summary)]
      /\ kept' \subseteq Manifest \cup Summary
  BY WriterNames, WriterDocs
<1>8. RestType'
  BY <1>1, <1>4, <1>5, <1>6, <1>7 DEF RestType
<1> QED
  BY <1>1, <1>3, <1>8

(* A publication may fail at any step before its document is at the name,   *)
(* and after the rollback has removed it.                                   *)
LEMMA EndTurn ==
    ASSUME NEW c \in Writers, NEW l \in {"clean", "outputs", "failed"}, pc[c] \in Relying,
           pc[c] \in Gone \/ pc[c] \notin Wrote \/ c \in missed'
    PROVE  l \in Labels /\ l \notin Based /\ MayGo(c, l)
BY DEF Labels, MayGo, Wrote, Gone, Relying, Staged, Based, Moving

(* The manifest that a redaction found with shareable rows is that of a     *)
(* redaction which missed it: the report it would need is the new one.      *)
LEMMA StaleManifest ==
    ASSUME FlowInv, NEW r \in Redacts, pc[r] = "save", OwnReport(r),
           docs.manifest = mem[r].m, Sharing(mem[r].m)
    PROVE  mem[r].m.gen \in missed
<1> SUFFICES ASSUME mem[r].m.gen \notin missed
             PROVE  FALSE
  OBVIOUS
<1>1. DocInv(docs.manifest)
  BY DEF FlowInv, NameInv
<1>2. OwnReport(mem[r].m.gen) /\ pc[mem[r].m.gen] \in Wrote
  BY <1>1 DEF DocInv, Written, Covered
<1>3. mem[r].m.gen = r
  BY <1>2 DEF OwnReport
<1> QED
  BY <1>2, <1>3 DEF Wrote

(* A redaction that has taken its own manifest from its name has no other.  *)
LEMMA SettleOwnedGone ==
    ASSUME FlowInv, NEW r \in Redacts, At(r, "resettle"), SettleOwned(r)
    PROVE  r \in missed' \/ Nowhere(r)'
<1> SUFFICES ASSUME r \notin missed
             PROVE  Nowhere(r)'
  BY DEF SettleOwned, history
<1>1. /\ r \in Keepers /\ r \in Writers /\ pc[r] \in Relying
      /\ pend \in [Writers -> Maybe(Manifest \cup Summary)]
  BY Kinds DEF At, Relying, Staged, FlowInv, FlowType, TypeOK, Keepers
<1>2. pend[r] = Own(r) /\ pend' = [pend EXCEPT ![r] = None] /\ docs' = docs
  BY DEF SettleOwned, Owned, At
<1>3. \A k \in Keepers : pend'[k] = IF k = r THEN None ELSE pend[k]
  BY <1>1, <1>2, Kinds
<1>4. /\ Own(r) # None /\ Own(r).gen = r /\ Own(r).share = Clear(mem[r].found)
      /\ report.rows = mem[r].found
  BY <1>1, OwnType, Kinds DEF FlowInv, CommandInv
<1>5. ASSUME NEW d, DocInv(d), Of(d, r)
      PROVE  Sharing(Own(r))
  BY <1>4, <1>5 DEF DocInv, Covered, Of, Sharing
<1>6. Sharing(Own(r)) => Of(pend[r], r)
  BY <1>2, <1>4 DEF Of
<1>7. Sole(r) /\ DocInv(docs.manifest) /\ \A k \in Keepers : DocInv(pend[k])
  BY DEF FlowInv, NameInv
<1>8. ~Of(docs.manifest, r)
  BY <1>1, <1>5, <1>6, <1>7 DEF Sole
<1>9. \A k \in Keepers : k # r => ~Of(pend[k], r)
  BY <1>1, <1>5, <1>6, <1>7 DEF Sole
<1>10. ~Of(None, r)
  BY DEF Of, Sharing
<1>11. Nowhere(r)'
  <2>1. ~Of(docs.manifest, r)'
    BY <1>2, <1>8 DEF Of, Sharing
  <2>2. \A k \in Keepers : ~Of(pend[k], r)'
    BY <1>3, <1>9, <1>10 DEF Of, Sharing
  <2> QED
    BY <2>1, <2>2 DEF Nowhere
<1> QED
  BY <1>11

(* Where a publication goes, but for Take.                                  *)
LEMMA WriterTurn ==
    ASSUME FlowInv, NEW c \in Writers, WriterStep(c), ~Take(c)
    PROVE  \E l \in Labels : /\ Goto(c, l) /\ MayGo(c, l)
                             /\ c \in Keepers /\ l \in Based => old'[c] = old[c]
<1> DEFINE Ends == {"clean", "outputs", "failed"}
<1>a. Failing(c) \subseteq Ends /\ Undone(c) \subseteq Ends
  BY FailingSteps
<1>e. ASSUME NEW l \in Ends, Goto(c, l), pc[c] \in Relying,
             pc[c] \in Gone \/ pc[c] \notin Wrote \/ c \in missed'
      PROVE  \E k \in Labels : /\ Goto(c, k) /\ MayGo(c, k)
                               /\ c \in Keepers /\ k \in Based => old'[c] = old[c]
  BY <1>e, EndTurn
<1> HIDE DEF Ends
<1>1. CASE Check(c)
  <2>1. CASE \E l \in Failing(c) : Goto(c, l)
    BY <1>a, <1>e, <1>1, <2>1 DEF Check, At, Relying, Wrote
  <2>2. CASE There(c) = Expected(c) /\ (c \in Redacts => OwnReport(c)) /\ Goto(c, "claim")
    <3>1. c \in Redacts /\ Sharing(mem[c].m) => mem[c].m.gen \in missed
      <4>1. c \in Redacts => There(c) = docs.manifest /\ Expected(c) = mem[c].m
        BY Kinds, ThereType DEF FlowInv, FlowType, TypeOK, Keepers
      <4> QED
        BY <1>1, <2>2, <4>1, StaleManifest DEF Check, At
    <3>2. MayGo(c, "claim")
      BY <1>1, <3>1 DEF Check, At, MayGo, Wrote, Gone, Relying, Staged, Based, Moving
    <3>3. "claim" \in Labels /\ "claim" \notin Based
      BY DEF Labels, Based
    <3> QED
      BY <2>2, <3>2, <3>3
  <2> QED
    BY <1>1, <2>1, <2>2 DEF Check
<1>2. CASE ClaimOld(c)
  <2>1. CASE \E l \in Failing(c) : Goto(c, l)
    BY <1>a, <1>e, <1>2, <2>1 DEF ClaimOld, At, Relying, Staged, Wrote
  <2>2. CASE Goto(c, "take")
    <3>1. MayGo(c, "take")
      BY <1>2 DEF ClaimOld, At, MayGo, Wrote, Gone, Relying, Staged, Based, Moving
    <3>2. "take" \in Labels /\ "take" \notin Based
      BY DEF Labels, Based
    <3> QED
      BY <2>2, <3>1, <3>2
  <2> QED
    BY <1>2, <2>1, <2>2 DEF ClaimOld
<1>3. CASE TakeNothing(c)
  <2>1. CASE At(c, "take")
    <3>1. MayGo(c, "identify")
      BY <2>1 DEF At, MayGo, Wrote, Gone, Relying, Staged, Based, Moving
    <3>2. "identify" \in Labels /\ "identify" \notin Based /\ Goto(c, "identify")
      BY <1>3, <2>1 DEF TakeNothing, Labels, Based
    <3> QED
      BY <3>1, <3>2
  <2>2. CASE At(c, "withdraw")
    <3>1. Goto(c, "restore") /\ c \in missed' /\ old' = old
      BY <1>3, <2>2 DEF TakeNothing, At, names
    <3>2. MayGo(c, "restore")
      BY <2>2, <3>1 DEF At, MayGo, Wrote, Gone, Relying, Staged, Based, Moving
    <3>3. "restore" \in Labels
      BY DEF Labels
    <3> QED
      BY <3>1, <3>2, <3>3
  <2> QED
    BY <1>3, <2>1, <2>2 DEF TakeNothing, At
<1>5. CASE SettleForeign(c)
  <2>1. old' = old /\ (At(c, "resettle") => c \in missed') /\ pc[c] \in {"settle", "resettle"}
    BY <1>5 DEF SettleForeign
  <2>2. CASE \E l \in Ends : Goto(c, l)
    <3>1. pc[c] \in Relying /\ (pc[c] \notin Wrote \/ c \in missed')
      BY <2>1 DEF At, Relying, Staged, Wrote
    <3> QED
      BY <1>e, <2>2, <3>1
  <2>3. CASE At(c, "settle") /\ Goto(c, "identify")
    <3>1. MayGo(c, "identify")
      BY <2>3 DEF At, MayGo, Wrote, Gone, Relying, Staged, Based, Moving
    <3>2. "identify" \in Labels /\ "identify" \notin Based
      BY DEF Labels, Based
    <3> QED
      BY <2>3, <3>1, <3>2
  <2>4. CASE At(c, "resettle") /\ Goto(c, "restore")
    <3>1. MayGo(c, "restore")
      BY <2>1, <2>4 DEF At, MayGo, Wrote, Gone, Relying, Staged, Based, Moving
    <3>2. "restore" \in Labels
      BY DEF Labels
    <3> QED
      BY <2>1, <2>4, <3>1, <3>2
  <2>5. \/ \E l \in Failing(c) \cup Undone(c) : Goto(c, l)
        \/ At(c, "settle") /\ Goto(c, "identify")
        \/ At(c, "resettle") /\ Goto(c, "restore")
    BY <1>5, <2>1 DEF SettleForeign, At
  <2> QED
    BY <1>a, <2>2, <2>3, <2>4, <2>5
<1>7. CASE Identify(c)
  <2>1. CASE \E l \in Failing(c) : Goto(c, l)
    BY <1>a, <1>e, <1>7, <2>1 DEF Identify, At, Relying, Staged, Wrote
  <2>2. CASE old[c] = Expected(c) /\ Goto(c, "publish")
    <3>1. c \in Keepers => old[c] = mem[c].m
      BY <2>2, Kinds
    <3>2. MayGo(c, "publish")
      BY <1>7, <3>1 DEF Identify, At, MayGo, Wrote, Gone, Relying, Staged, Based, Moving
    <3>3. "publish" \in Labels /\ old' = old
      BY <1>7 DEF Labels, Identify, names
    <3> QED
      BY <2>2, <3>2, <3>3
  <2> QED
    BY <1>7, <2>1, <2>2 DEF Identify
<1>8. CASE SettleOwned(c)
  <2>1. old' = old /\ pc[c] \in {"settle", "resettle"}
    BY <1>8 DEF SettleOwned
  <2>2. CASE At(c, "settle") /\ Goto(c, "identify")
    <3>1. MayGo(c, "identify")
      BY <2>2 DEF At, MayGo, Wrote, Gone, Relying, Staged, Based, Moving
    <3>2. "identify" \in Labels /\ "identify" \notin Based
      BY DEF Labels, Based
    <3> QED
      BY <2>2, <3>1, <3>2
  <2>3. CASE At(c, "resettle") /\ Goto(c, "restore")
    <3>1. "restore" \in Labels
      BY DEF Labels
    <3>2. c \in Redacts => c \in missed' \/ Nowhere(c)'
      BY <1>8, <2>3, SettleOwnedGone
    <3>3. MayGo(c, "restore")
      BY <2>3, <3>2 DEF At, MayGo, Wrote, Gone, Relying, Staged, Based, Moving
    <3> QED
      BY <2>1, <2>3, <3>1, <3>3
  <2> QED
    BY <1>8, <2>1, <2>2, <2>3 DEF SettleOwned, At
<1>9. CASE Publish(c)
  <2>1. PICK l \in {"commit", "restore"} : Goto(c, l)
    BY <1>9 DEF Publish
  <2>2. l \in Labels /\ old' = old
    BY <1>9 DEF Publish, Labels
  <2>3. MayGo(c, l)
    BY <1>9 DEF Publish, At, MayGo, Wrote, Gone, Relying, Staged, Based, Moving
  <2> QED
    BY <2>1, <2>2, <2>3
<1>10. CASE Commit(c) \/ LeaseLost(c)
  <2>1. PICK l \in {"finalize", "withdraw"} : Goto(c, l)
    BY <1>10 DEF Commit, LeaseLost
  <2>2. l \in Labels /\ old' = old /\ pc[c] = "commit"
    BY <1>10 DEF Commit, LeaseLost, At, Labels, names
  <2>3. MayGo(c, l)
    BY <2>2 DEF MayGo, Wrote, Gone, Relying, Staged, Based, Moving
  <2> QED
    BY <2>1, <2>2, <2>3
<1>11. CASE Finalize(c)
  <2>1. Goto(c, "done") /\ pc[c] = "finalize"
    BY <1>11 DEF Finalize, At
  <2>2. "done" \in Labels /\ "done" \notin Based
    BY DEF Labels, Based
  <2>3. MayGo(c, "done")
    BY <2>1 DEF MayGo, Wrote, Gone, Relying, Staged, Based, Moving
  <2> QED
    BY <2>1, <2>2, <2>3
<1>12. CASE Restore(c)
  <2>1. CASE \E l \in Undone(c) : Goto(c, l)
    BY <1>a, <1>e, <1>12, <2>1 DEF Restore, At, Relying, Staged, Gone
  <2>2. CASE Goto(c, "discard")
    <3>1. MayGo(c, "discard")
      BY <1>12 DEF Restore, At, MayGo, Wrote, Gone, Relying, Staged, Based, Moving
    <3>2. "discard" \in Labels /\ "discard" \notin Based
      BY DEF Labels, Based
    <3> QED
      BY <2>2, <3>1, <3>2
  <2> QED
    BY <1>12, <2>1, <2>2 DEF Restore
<1>13. CASE DiscardOld(c)
  BY <1>a, <1>e, <1>13 DEF DiscardOld, At, Relying, Staged, Gone
<1> QED
  BY <1>1, <1>2, <1>3, <1>5, <1>7, <1>8, <1>9, <1>10, <1>11, <1>12, <1>13 DEF WriterStep

(* A manifest is what it was when it has moved from one name to another.    *)
LEMMA NamesNext ==
    ASSUME NEW c \in Keepers, FlowInv,
           \A d \in Commands : d # c => pc'[d] = pc[d],
           report' = report, missed \subseteq missed',
           pc[c] \in Wrote => pc'[c] \in Wrote,
           c \in Redacts /\ pc'[c] \in Gone
              => pc[c] \in Gone \/ pc[c] \notin Wrote \/ c \in missed' \/ Nowhere(c)',
           (\E d : DocInv(d) /\ docs'.manifest = d) \/ DocInv(docs.manifest)',
           \A k \in Keepers : \E d : DocInv(d) /\ pend'[k] = d,
           \A r \in Redacts \ missed' :
              Sole(r)' /\ (pc'[r] \in Gone /\ Nowhere(r) => Nowhere(r)')
    PROVE  NameInv'
<1>1. ASSUME NEW d, DocInv(d)
      PROVE  Written(d)' /\ (Sharing(d) /\ d.gen \notin missed' => Covered(d)')
  BY <1>1, Kinds, DocStep
<1>2. DocInv(docs.manifest)'
  <2>1. CASE \E d : DocInv(d) /\ docs'.manifest = d
    <3>1. PICK d : DocInv(d) /\ docs'.manifest = d
      BY <2>1
    <3>2. Written(d)' /\ (Sharing(d) /\ d.gen \notin missed' => Covered(d)')
      BY <1>1, <3>1
    <3> QED
      BY <3>1, <3>2 DEF DocInv, Written, Sharing, Covered, OwnReport
  <2> QED
    BY <2>1
<1>3. ASSUME NEW k \in Keepers
      PROVE  DocInv(pend[k])'
  <2>1. PICK d : DocInv(d) /\ pend'[k] = d
    OBVIOUS
  <2>2. Written(d)' /\ (Sharing(d) /\ d.gen \notin missed' => Covered(d)')
    BY <1>1, <2>1
  <2> QED
    BY <2>1, <2>2 DEF DocInv, Written, Sharing, Covered, OwnReport
<1>4. ASSUME NEW r \in Redacts \ missed', pc'[r] \in Gone
      PROVE  Nowhere(r)'
  <2>1. pc[r] \in Gone => Nowhere(r)
    BY DEF FlowInv, NameInv
  <2>2. pc[r] \notin Wrote => Nowhere(r)
    BY Kinds DEF FlowInv, NameInv, DocInv, Written, Nowhere, Of, Sharing
  <2> QED
    BY <1>4, <2>1, <2>2, Kinds DEF Keepers
<1> QED
  BY <1>2, <1>3, <1>4 DEF NameInv

(* No manifest is no manifest of a redaction.                               *)
LEMMA NoDocument == DocInv(None) /\ \A r : ~Of(None, r)
BY DEF DocInv, Written, Of, Sharing

(* What is taken away ...                                                   *)
LEMMA TakeNames ==
    ASSUME FlowInv, NEW c \in Keepers, Take(c)
    PROVE  NameInv'
<1>1. /\ c \in Writers /\ c \in Commands
      /\ pend \in [Writers -> Maybe(Manifest \cup Summary)]
      /\ docs \in [manifest : Maybe(Manifest), summary : Maybe(Summary)]
  BY Kinds DEF FlowInv, FlowType, TypeOK
<1>2. /\ pend' = [pend EXCEPT ![c] = There(c)] /\ docs'.manifest = None
      /\ There(c) = docs.manifest
  <2>1. Put(c, None) /\ pend' = [pend EXCEPT ![c] = There(c)]
    BY DEF Take
  <2>2. None \in Maybe(Kind(c))
    BY DEF Maybe
  <2> QED
    BY <1>1, <2>1, <2>2, PutEffect, ThereType
<1>3. \A k \in Keepers : pend'[k] = IF k = c THEN docs.manifest ELSE pend[k]
  BY <1>1, <1>2, Kinds
<1>4. /\ pc'[c] \in {"settle", "resettle"} /\ pc[c] \in {"take", "withdraw"}
      /\ (pc[c] = "withdraw" => pc'[c] = "resettle")
      /\ \A d \in Commands : d # c => pc'[d] = pc[d]
  <2>1. pc \in [Commands -> Labels]
    BY DEF FlowInv, FlowType, TurnType
  <2> QED
    BY <1>1, <2>1 DEF Take, Learn, At
<1>5. report' = report /\ missed' = missed
  BY DEF Take, zones
<1>6. DocInv(docs.manifest) /\ \A k \in Keepers : DocInv(pend[k])
  BY DEF FlowInv, NameInv
<1>7. ASSUME NEW r \in Redacts \ missed'
      PROVE  Sole(r)' /\ (Nowhere(r) => Nowhere(r)')
  <2>1. Sole(r)
    BY <1>5 DEF FlowInv, NameInv
  <2>2. ~Of(docs.manifest, r)'
    BY <1>2 DEF Of, Sharing
  <2>3. \A k \in Keepers :
          Of(pend[k], r)' <=> IF k = c THEN Of(docs.manifest, r) ELSE Of(pend[k], r)
    BY <1>3 DEF Of, Sharing
  <2>4. Sole(r)'
    BY <2>1, <2>2, <2>3 DEF Sole
  <2> QED
    BY <2>2, <2>3, <2>4 DEF Nowhere
<1>8. /\ \E d : DocInv(d) /\ docs'.manifest = d
      /\ \A k \in Keepers : \E d : DocInv(d) /\ pend'[k] = d
  BY <1>2, <1>3, <1>6, NoDocument
<1>9. pc[c] \in Wrote => pc'[c] \in Wrote
  BY <1>4 DEF Wrote
<1>10. pc'[c] \notin Gone
  BY <1>4 DEF Gone
<1> QED
  BY <1>4, <1>5, <1>7, <1>8, <1>9, <1>10, NamesNext

(* What a turn does to the program counters, for NamesNext.                 *)
LEMMA TurnFacts ==
    ASSUME FlowInv, NEW c \in Writers, WriterStep(c), ~Take(c)
    PROVE  /\ \A d \in Commands : d # c => pc'[d] = pc[d]
           /\ pc[c] \in Wrote => pc'[c] \in Wrote
           /\ c \in Redacts /\ pc'[c] \in Gone
                => pc[c] \in Gone \/ pc[c] \notin Wrote \/ c \in missed' \/ Nowhere(c)'
           /\ report' = report /\ missed \subseteq missed'
<1>1. PICK l \in Labels : Goto(c, l) /\ MayGo(c, l)
  BY WriterTurn
<1>2. pc \in [Commands -> Labels] /\ mem \in [Commands -> Memory] /\ c \in Commands
  BY Kinds DEF FlowInv, FlowType, TypeOK, TurnType
<1>3. pc'[c] = l /\ \A d \in Commands : d # c => pc'[d] = pc[d]
  BY <1>1, <1>2, GotoEffect
<1> QED
  BY <1>1, <1>3, WriterTypes DEF MayGo

(* ... is unlinked or goes back ...                                         *)
LEMMA SettleNames ==
    ASSUME FlowInv, NEW c \in Keepers, SettleOwned(c) \/ SettleForeign(c), ~Take(c)
    PROVE  NameInv'
<1>1. /\ c \in Writers /\ WriterStep(c)
      /\ pend \in [Writers -> Maybe(Manifest \cup Summary)] /\ pend[c] \in Maybe(Kind(c))
      /\ docs \in [manifest : Maybe(Manifest), summary : Maybe(Summary)]
  BY Kinds DEF FlowInv, FlowType, TypeOK, TurnType, WriterStep
<1>2. pend' = [pend EXCEPT ![c] = None]
  BY DEF SettleOwned, SettleForeign
<1>3. \A k \in Keepers : pend'[k] = IF k = c THEN None ELSE pend[k]
  BY <1>1, <1>2, Kinds
<1>4. docs'.manifest = docs.manifest \/ (docs.manifest = None /\ docs'.manifest = pend[c])
  <2>1. docs' = docs \/ (There(c) = None /\ Put(c, pend[c]))
    BY DEF SettleOwned, SettleForeign
  <2>2. CASE docs' = docs
    BY <2>2
  <2>3. CASE There(c) = None /\ Put(c, pend[c])
    BY <1>1, <2>3, PutEffect, ThereType
  <2> QED
    BY <2>1, <2>2, <2>3
<1>5. DocInv(docs.manifest) /\ \A k \in Keepers : DocInv(pend[k])
  BY DEF FlowInv, NameInv
<1>6. ASSUME NEW r \in Redacts \ missed'
      PROVE  Sole(r)' /\ (Nowhere(r) => Nowhere(r)')
  <2>1. Sole(r)
    BY <1>1, WriterTypes DEF FlowInv, NameInv
  <2>2. \/ Of(docs.manifest, r)' <=> Of(docs.manifest, r)
        \/ ~Of(docs.manifest, r) /\ (Of(docs.manifest, r)' <=> Of(pend[c], r))
    BY <1>4 DEF Of, Sharing
  <2>3. \A k \in Keepers : Of(pend[k], r)' <=> k # c /\ Of(pend[k], r)
    BY <1>3 DEF Of, Sharing
  <2>4. Sole(r)'
    BY <2>1, <2>2, <2>3 DEF Sole
  <2> QED
    BY <2>2, <2>3, <2>4 DEF Nowhere
<1>7. /\ \E d : DocInv(d) /\ docs'.manifest = d
      /\ \A k \in Keepers : \E d : DocInv(d) /\ pend'[k] = d
  BY <1>3, <1>4, <1>5, NoDocument
<1> QED
  BY <1>1, <1>6, <1>7, TurnFacts, NamesNext

(* ... a new manifest is the first of its redaction ...                     *)
LEMMA PublishNames ==
    ASSUME FlowInv, NEW c \in Keepers, Publish(c), ~Take(c)
    PROVE  NameInv'
<1>1. /\ c \in Writers /\ c \in Commands /\ WriterStep(c) /\ pc[c] = "publish"
      /\ docs \in [manifest : Maybe(Manifest), summary : Maybe(Summary)]
      /\ pend' = pend
  BY Kinds DEF FlowInv, FlowType, TypeOK, WriterStep, Publish, At
<1>2. pc[c] \in Relying /\ pc[c] \notin Wrote
  BY <1>1 DEF Relying, Staged, Wrote
<1>3. DocInv(docs.manifest) /\ \A k \in Keepers : DocInv(pend[k])
  BY DEF FlowInv, NameInv
<1>4. CASE docs' = docs
  <2>1. \A r \in Redacts \ missed' : Sole(r)' /\ (Nowhere(r) => Nowhere(r)')
    <3> SUFFICES ASSUME NEW r \in Redacts \ missed'
                 PROVE  Sole(r)' /\ (Nowhere(r) => Nowhere(r)')
      OBVIOUS
    <3>1. Sole(r)
      BY <1>1, WriterTypes DEF FlowInv, NameInv
    <3> QED
      BY <1>1, <1>4, <3>1 DEF Sole, Nowhere, Of, Sharing
  <2>2. (\E d : DocInv(d) /\ docs'.manifest = d)
          /\ \A k \in Keepers : \E d : DocInv(d) /\ pend'[k] = d
    BY <1>1, <1>3, <1>4
  <2> QED
    BY <1>1, <2>1, <2>2, TurnFacts, NamesNext
<1>5. CASE Put(c, Own(c)) /\ Goto(c, "commit")
  <2>1. docs'.manifest = Own(c)
    BY <1>1, <1>2, <1>5, OwnType, PutEffect DEF Maybe
  <2>2. pc'[c] = "commit" /\ pc'[c] \in Wrote /\ pc'[c] \notin Gone
    <3>1. pc \in [Commands -> Labels] /\ mem \in [Commands -> Memory] /\ "commit" \in Labels
      BY DEF FlowInv, FlowType, TypeOK, TurnType, Labels
    <3> QED
      BY <1>1, <1>5, <3>1, GotoEffect DEF Wrote, Gone
  <2>3. /\ Own(c).gen = c
        /\ c \in Redacts => /\ Own(c).share = Clear(report.rows) /\ Own(c).raw \subseteq report.rows
                            /\ OwnReport(c)
        /\ c \notin Redacts => Own(c).share = {}
    BY <1>1, <1>2, OwnType DEF FlowInv, CommandInv, Keepers
  <2>4. DocInv(docs.manifest)'
    <3> DEFINE d == Own(c)
    <3> HIDE DEF d
    <3>1. PICK e : e = Own(c)
      OBVIOUS
    <3>2. /\ docs'.manifest = e /\ e.gen = c
          /\ c \in Redacts => e.share = Clear(report.rows) /\ e.raw \subseteq report.rows
          /\ c \notin Redacts => e.share = {}
      BY <2>1, <2>3, <3>1
    <3>3. report' = report
      BY <1>1, TurnFacts
    <3> QED
      BY <2>2, <2>3, <3>2, <3>3 DEF DocInv, Written, Sharing, Covered, OwnReport
  <2>5. ASSUME NEW r \in Redacts \ missed'
        PROVE  Sole(r)' /\ (pc'[r] \in Gone /\ Nowhere(r) => Nowhere(r)')
    <3>1. Sole(r)
      BY <1>1, WriterTypes DEF FlowInv, NameInv
    <3>2. Of(docs.manifest, r)' => r = c
      BY <2>1, <2>3 DEF Of, Sharing
    <3>3. \A k \in Keepers : Of(pend[k], r)' <=> Of(pend[k], r)
      BY <1>1 DEF Of, Sharing
    <3>4. \A k \in Keepers : ~Of(pend[k], c)
      BY <1>2, <1>3 DEF DocInv, Written, Of
    <3>5. Sole(r)'
      BY <3>1, <3>2, <3>3, <3>4 DEF Sole
    <3> QED
      BY <2>2, <3>2, <3>3, <3>5 DEF Nowhere
  <2>6. \A k \in Keepers : \E d : DocInv(d) /\ pend'[k] = d
    BY <1>1, <1>3
  <2> QED
    BY <1>1, <2>4, <2>5, <2>6, TurnFacts, NamesNext
<1> QED
  BY <1>4, <1>5 DEF Publish

(* ... and a predecessor that goes back is of a redaction that missed it,   *)
(* or has no shareable rows.                                                *)
LEMMA RestoreNames ==
    ASSUME FlowInv, NEW c \in Keepers, Restore(c), ~Take(c)
    PROVE  NameInv'
<1>1. /\ c \in Writers /\ c \in Commands /\ WriterStep(c) /\ pc[c] = "restore"
      /\ docs \in [manifest : Maybe(Manifest), summary : Maybe(Summary)]
      /\ pend' = pend /\ old[c] \in Maybe(Kind(c))
  BY Kinds DEF FlowInv, FlowType, TypeOK, TurnType, WriterStep, Restore, At
<1>2. DocInv(docs.manifest) /\ \A k \in Keepers : DocInv(pend[k])
  BY DEF FlowInv, NameInv
<1>3. old[c] = mem[c].m
  BY <1>1 DEF FlowInv, CommandInv, Based
<1>4. DocInv(old[c]) /\ (Sharing(old[c]) => old[c].gen \in missed)
  <2>1. CASE c \in Collects
    <3>1. ~Sharing(old[c])
      BY <1>3, <2>1 DEF FlowInv, CommandInv, Sharing
    <3> QED
      BY <3>1 DEF DocInv, Written
  <2>2. CASE c \in Redacts
    <3>1. Written(old[c]) /\ (Sharing(old[c]) => old[c].gen \in missed)
      BY <1>1, <1>3, <2>2 DEF FlowInv, CommandInv, Staged
    <3> QED
      BY <3>1 DEF DocInv
  <2> QED
    BY <2>1, <2>2 DEF Keepers
<1>5. docs'.manifest = docs.manifest \/ docs'.manifest = old[c]
  <2>1. docs' = docs \/ Put(c, old[c])
    BY DEF Restore
  <2>2. CASE Put(c, old[c])
    BY <1>1, <2>2, PutEffect
  <2> QED
    BY <2>1, <2>2
<1>6. ASSUME NEW r \in Redacts \ missed'
      PROVE  Sole(r)' /\ (Nowhere(r) => Nowhere(r)')
  <2>1. Sole(r) /\ r \notin missed
    BY <1>1, WriterTypes DEF FlowInv, NameInv
  <2>2. Of(docs.manifest, r)' => Of(docs.manifest, r)
    BY <1>4, <1>5, <2>1 DEF Of, Sharing
  <2>3. \A k \in Keepers : Of(pend[k], r)' <=> Of(pend[k], r)
    BY <1>1 DEF Of, Sharing
  <2> QED
    BY <2>1, <2>2, <2>3 DEF Sole, Nowhere
<1>7. /\ \E d : DocInv(d) /\ docs'.manifest = d
      /\ \A k \in Keepers : \E d : DocInv(d) /\ pend'[k] = d
  BY <1>1, <1>2, <1>4, <1>5
<1> QED
  BY <1>1, <1>6, <1>7, TurnFacts, NamesNext

(* The other steps move no manifest.                                        *)
LEMMA OtherNames ==
    ASSUME FlowInv, NEW c \in Writers, WriterStep(c), ~Take(c),
           c \in Keepers =>
             ~(SettleOwned(c) \/ SettleForeign(c) \/ Publish(c) \/ Restore(c))
    PROVE  NameInv'
<1>1. docs'.manifest = docs.manifest /\ \A d \in Keepers : pend'[d] = pend[d]
  <2>1. CASE c \in Keepers
    BY <2>1 DEF WriterStep, Check, ClaimOld, TakeNothing, Identify, Commit, Finalize, LeaseLost,
       DiscardOld, names
  <2>2. CASE c \in Moves
    <3>1. c \notin Keepers
      BY <2>2, Kinds
    <3>2. \A d \in Writers : d # c => pend'[d] = pend[d]
      BY WriterNames
    <3> QED
      BY <2>2, <3>1, <3>2, WriterDocs, Kinds
  <2> QED
    BY <2>1, <2>2, Kinds
<1>2. c \in Commands
  BY Kinds
<1> QED
  BY <1>1, <1>2, TurnFacts, NameStep

(* Taking the document away keeps the invariant ...                         *)
LEMMA TakeKeeps ==
    ASSUME FlowInv, NEW c \in Writers, Take(c)
    PROVE  FlowInv'
<1>1. c \in Commands /\ mem[c] \in Memory /\ WriterStep(c)
  BY Kinds DEF FlowInv, FlowType, TypeOK, WriterStep
<1> DEFINE l == IF At(c, "take") THEN "settle" ELSE "resettle"
<1> DEFINE k == [mem[c] EXCEPT !.links = Links(There(c))]
<1>2. Learn(c, l, k) /\ l \in Labels /\ l \in {"settle", "resettle"}
  BY DEF Take, Labels
<1>3. k \in Memory /\ k.m = mem[c].m /\ k.s = mem[c].s /\ k.name = mem[c].name
        /\ k.found = mem[c].found
  <2>1. Links(There(c)) \in Nat
    BY LinksType DEF FlowInv, FlowType, TypeOK
  <2> QED
    BY <1>1, <2>1 DEF Memory
<1>4. pc[c] \in {"take", "withdraw"} /\ There(c) # None /\ old' = old
        /\ (l = "resettle" <=> pc[c] = "withdraw")
  BY DEF Take, At
<1> HIDE DEF l, k
<1>5. /\ pc' \in [Commands -> Labels] /\ mem' \in [Commands -> Memory]
      /\ pc'[c] = l /\ mem'[c] = k
      /\ \A d \in Commands : d # c => pc'[d] = pc[d] /\ mem'[d] = mem[d]
  <2>1. pc \in [Commands -> Labels] /\ mem \in [Commands -> Memory]
    BY DEF FlowInv, FlowType, TypeOK, TurnType
  <2> QED
    BY <1>1, <1>2, <1>3, <2>1, LearnEffect
<1>6. FlowType'
  <2>1. pend'[c] # None
    BY <1>4 DEF Take, FlowInv, FlowType, TypeOK
  <2>2. PlaceType(c)
    BY <1>1, FlowTypeParts DEF FlowInv
  <2>3. PlaceType(c)'
    <3>1. old'[c] \in Maybe(Kind(c)) /\ pend'[c] \in Maybe(Kind(c))
      BY <1>1, WriterNames
    <3>2. c \in Collects => mem'[c].name \in Names
      BY <1>3, <1>4, <1>5, <2>2 DEF PlaceType, Relying, Staged
    <3>3. c \in Moves => mem'[c].s.phase < LastPhase
      BY <1>3, <1>4, <1>5, <2>2 DEF PlaceType, Relying, Staged
    <3> QED
      BY <2>1, <3>1, <3>2, <3>3 DEF PlaceType
  <2> QED
    BY <1>1, <1>5, <2>3, WriterTypes, WriterNames, TypeStep DEF FlowInv
<1>7. /\ report' = report /\ missed \subseteq missed' /\ withdrawn' = withdrawn
      /\ pc[c] \in Wrote => pc'[c] \in Wrote
  <2>1. pc[c] \in Wrote => pc'[c] \in Wrote
    BY <1>2, <1>4, <1>5 DEF Wrote
  <2> QED
    BY <1>1, <2>1, WriterTypes
<1>8. NameInv'
  <2>1. CASE c \in Keepers
    BY <2>1, TakeNames
  <2>2. CASE c \in Moves
    <3>1. c \notin Keepers /\ c \notin Redacts
      BY <2>2, Kinds
    <3>2. \A d \in Writers : d # c => pend'[d] = pend[d]
      BY <1>1, WriterNames
    <3>3. docs'.manifest = docs.manifest /\ \A d \in Keepers : pend'[d] = pend[d]
      BY <1>1, <2>2, <3>1, <3>2, WriterDocs, Kinds
    <3> QED
      BY <1>1, <1>5, <1>7, <3>1, <3>3, NameStep
  <2> QED
    BY <2>1, <2>2, Kinds
<1>9. c \in Keepers => CommandInv(c)'
  <2> SUFFICES ASSUME c \in Keepers
               PROVE  CommandInv(c)'
    OBVIOUS
  <2>1. CommandInv(c)
    BY DEF FlowInv
  <2>2. pc[c] \in Relying /\ pc[c] \in Staged /\ pc'[c] \in Relying
    BY <1>2, <1>4, <1>5 DEF Relying, Staged
  <2>3. pc'[c] \in Based => pc[c] \in Based
    BY <1>2, <1>4, <1>5 DEF Based
  <2>4. c \in Redacts => Written(mem[c].m)'
    <3> SUFFICES ASSUME c \in Redacts, Sharing(mem[c].m)'
                 PROVE  mem'[c].m.gen \in Redacts /\ pc'[mem'[c].m.gen] \in Wrote
      BY DEF Written
    <3>1. mem[c].m.gen \in Redacts /\ pc[mem[c].m.gen] \in Wrote
      BY <1>3, <1>5, <2>1 DEF CommandInv, Written, Sharing
    <3> QED
      BY <1>3, <1>5, <1>7, <3>1, Kinds DEF Keepers
  <2>5. c \in Redacts => OwnReport(c)' /\ report'.rows = mem'[c].found
    BY <1>3, <1>5, <1>7, <2>1, <2>2 DEF CommandInv, OwnReport
  <2>6. c \in Redacts /\ Sharing(mem[c].m)' => mem'[c].m.gen \in missed'
    BY <1>3, <1>5, <1>7, <2>1, <2>2 DEF CommandInv, Sharing
  <2>7. c \in Collects => mem'[c].m.share = {}
    BY <1>3, <1>5, <2>1 DEF CommandInv
  <2>8. pc'[c] \in Based => old'[c] = mem'[c].m
    BY <1>3, <1>4, <1>5, <2>1, <2>3 DEF CommandInv
  <2> QED
    BY <2>4, <2>5, <2>6, <2>7, <2>8 DEF CommandInv
<1>10. \A d \in Keepers : CommandInv(d)'
  BY <1>1, <1>4, <1>5, <1>7, <1>9, CommandStep
<1>11. c \in Moves => VerifyInv(c)'
  <2> SUFFICES ASSUME c \in Moves, withdrawn' = {}
               PROVE  /\ pc'[c] # "verify" /\ Sound(mem[c].m)'
    BY DEF VerifyInv
  <2>1. Sound(mem[c].m)
    BY <1>4, <1>7 DEF FlowInv, VerifyInv, Relying, Staged
  <2> QED
    BY <1>2, <1>3, <1>5, <1>7, <2>1 DEF Sound, Associated
<1>12. \A t \in Moves : VerifyInv(t)'
  BY <1>1, <1>5, <1>7, <1>11, VerifyStep
<1> QED
  BY <1>6, <1>8, <1>10, <1>12 DEF FlowInv

(* ... and so does every other step of a publication.                       *)
LEMMA WriterKeeps ==
    ASSUME FlowInv, NEW c \in Writers, WriterStep(c)
    PROVE  FlowInv'
<1>1. CASE Take(c)
  BY <1>1, TakeKeeps
<1>2. CASE ~Take(c)
  <2>1. PICK l \in Labels : /\ Goto(c, l) /\ MayGo(c, l)
                            /\ c \in Keepers /\ l \in Based => old'[c] = old[c]
    BY <1>2, WriterTurn
  <2>2. c \in Commands
    BY Kinds
  <2>3. /\ FlowType' /\ (c \in Keepers => CommandInv(c)') /\ (c \in Moves => VerifyInv(c)')
        /\ pc'[c] = l
        /\ \A d \in Commands : d # c => pc'[d] = pc[d] /\ mem'[d] = mem[d]
    BY <2>1, <2>2, WriterTypes, WriterNames, GotoOwn
  <2>4. NameInv'
    BY <1>2, Kinds, SettleNames, PublishNames, RestoreNames, OtherNames
  <2>5. \A d \in Keepers : d # c => old'[d] = old[d]
    BY WriterNames, Kinds
  <2>6. \A d \in Keepers : CommandInv(d)'
    BY <1>2, <2>2, <2>3, <2>5, WriterTypes, TurnFacts, CommandStep
  <2>7. \A t \in Moves : VerifyInv(t)'
    BY <2>2, <2>3, WriterTypes, VerifyStep
  <2> QED
    BY <2>3, <2>4, <2>6, <2>7 DEF FlowInv
<1> QED
  BY <1>1, <1>2

(* A kill.                                                                  *)
LEMMA CrashKeeps ==
    ASSUME FlowInv, NEW c \in Commands, Crash(c)
    PROVE  FlowInv'
<1>1. /\ Goto(c, "failed") /\ "failed" \in Labels
      /\ UNCHANGED <<docs, old, pend, kept, report, rawDir, shareDir, undone, missed, withdrawn>>
  BY DEF Crash, names, zones, Labels
<1>2. MayGo(c, "failed")
  BY DEF MayGo, Wrote, Gone, Relying, Staged, Based, Moving
<1>3. trouble' \in 0 .. MaxTrouble
  BY FlowAssumption DEF Crash, FlowInv, FlowType, TypeOK
<1>4. residue' \subseteq Commands
  BY DEF Crash, FlowInv, FlowType, TypeOK
<1>5. RestType'
  BY <1>1, <1>3, <1>4, FlowTypeParts DEF FlowInv, RestType
<1> QED
  BY <1>1, <1>2, <1>5, GotoKeeps

-----------------------------------------------------------------------------
(* The package that make_dep has published satisfies the invariant.         *)
LEMMA InitKeeps == Init => FlowInv
<1> SUFFICES ASSUME Init
             PROVE  FlowInv
  OBVIOUS
<1>1. /\ docs = [manifest |-> NewManifest, summary |-> NewSummary] /\ report = None
      /\ mem = [c \in Commands |-> Blank]
      /\ pc \in [Commands -> {"idle", "failed"}]
      /\ \A c \in Writers : old[c] = None /\ pend[c] = None
  BY DEF Init
<1>2. TypeOK
  BY Beginnings, FlowAssumption DEF Init, TypeOK, Maybe
<1>3. pc \in [Commands -> Labels]
  BY <1>1 DEF Labels
<1>4. \A c \in Commands : pc[c] \in {"idle", "failed"}
  BY <1>1
<1>5. FlowType
  <2>1. \A c \in Commands : PlaceType(c)
    BY <1>1, <1>4 DEF PlaceType, Relying, Staged, Maybe
  <2>2. RestType /\ mem \in [Commands -> Memory]
    BY <1>2 DEF TypeOK, RestType
  <2> QED
    BY <1>3, <2>1, <2>2, FlowTypeParts
<1>6. ~Sharing(NewManifest)
  BY DEF Sharing, NewManifest
<1>7. \A c \in Keepers : CommandInv(c)
  <2> SUFFICES ASSUME NEW c \in Keepers
               PROVE  CommandInv(c)
    OBVIOUS
  <2>1. mem[c].m = NewManifest /\ pc[c] \in {"idle", "failed"}
    BY <1>1, <1>4, Kinds DEF Blank
  <2>2. pc[c] \notin Relying /\ pc[c] \notin Staged /\ pc[c] \notin Based
    BY <2>1 DEF Relying, Staged, Based
  <2> QED
    BY <1>6, <2>1, <2>2 DEF CommandInv, Written, NewManifest
<1>8. NameInv
  <2>1. DocInv(docs.manifest) /\ \A c \in Keepers : DocInv(pend[c])
    BY <1>1, <1>6, NoDocument, Kinds DEF DocInv, Written
  <2>2. \A r \in Redacts : Nowhere(r)
    BY <1>1, <1>6, NoDocument, Kinds DEF Nowhere, Of
  <2>3. \A r \in Redacts : Sole(r)
    BY <2>2 DEF Nowhere, Sole
  <2> QED
    BY <2>1, <2>2, <2>3 DEF NameInv
<1>9. \A t \in Moves : VerifyInv(t)
  <2>1. \A t \in Moves : pc[t] \in {"idle", "failed"}
    BY <1>4 DEF Commands, Writers
  <2> QED
    BY <2>1 DEF VerifyInv, Relying, Staged
<1> QED
  BY <1>5, <1>7, <1>8, <1>9 DEF FlowInv

(* Every step keeps it.                                                     *)
LEMMA StepKeeps == FlowInv /\ [Next]_vars => FlowInv'
<1> SUFFICES ASSUME FlowInv, [Next]_vars
             PROVE  FlowInv'
  OBVIOUS
<1>1. CASE UNCHANGED vars
  <2>1. UNCHANGED <<docs, old, pend, kept, report, rawDir, shareDir, pc, mem, residue, trouble,
                    undone, missed, withdrawn>>
    BY <1>1 DEF vars, names, zones, history
  <2>2. RestType' /\ \A c \in Commands : PlaceType(c)'
    BY <2>1, FlowTypeParts DEF FlowInv, RestType, PlaceType
  <2>3. FlowType'
    BY <2>1, <2>2, FlowTypePartsNext DEF FlowInv, FlowType, TypeOK, TurnType
  <2>4. NameInv'
    BY <2>1 DEF FlowInv, NameInv, DocInv, Written, Sharing, Covered, OwnReport, Sole, Nowhere, Of
  <2>5. \A c \in Keepers : CommandInv(c)'
    BY <2>1 DEF FlowInv, CommandInv, Written, Sharing, OwnReport
  <2>6. \A t \in Moves : VerifyInv(t)'
    BY <2>1 DEF FlowInv, VerifyInv, Sound, Associated
  <2> QED
    BY <2>3, <2>4, <2>5, <2>6 DEF FlowInv
<1>2. ASSUME NEW c \in Collects,
             \/ CollectReadReport(c) \/ CollectReadManifest(c) \/ CollectWriteRaw(c)
             \/ CollectCleanup(c)
      PROVE  FlowInv'
  BY <1>2, CollectKeeps, CollectFileKeeps
<1>3. ASSUME NEW r \in Redacts,
             \/ RedactReadManifest(r) \/ RedactReadReport(r) \/ RedactList(r)
             \/ RedactFile(r) \/ RedactSaveReport(r) \/ RedactCleanup(r)
             \/ RedactRollbackReport(r) \/ RedactRollbackOutputs(r)
      PROVE  FlowInv'
  BY <1>3, RedactReadKeeps, RedactFileKeeps, RedactCleanupKeeps, RedactSaveReportKeeps,
     RedactRollbackReportKeeps
<1>4. ASSUME NEW t \in Moves, MoveRead(t)
      PROVE  FlowInv'
  BY <1>4, MoveReadKeeps
<1>5. ASSUME NEW a \in Attaches, AttachLink(a) \/ AttachConfirm(a)
      PROVE  FlowInv'
  BY <1>5, AttachKeeps
<1>6. ASSUME NEW v \in Verifiers,
             \/ VerifyList(v) \/ VerifySummary(v) \/ VerifyManifest(v) \/ VerifyRequired(v)
             \/ VerifyReport(v) \/ VerifyArtifacts(v) \/ VerifyRefuses(v)
      PROVE  FlowInv'
  BY <1>6, VerifyBeginKeeps, VerifyReportKeeps, VerifyEndKeeps
<1>7. ASSUME NEW c \in Writers, WriterStep(c)
      PROVE  FlowInv'
  BY <1>7, WriterKeeps
<1>8. ASSUME NEW c \in Commands, Crash(c)
      PROVE  FlowInv'
  BY <1>8, CrashKeeps
<1> QED
  BY <1>1, <1>2, <1>3, <1>4, <1>5, <1>6, <1>7, <1>8 DEF Next, WriterStep

(* The invariant holds in every state, for every number of commands and     *)
(* names and every bound on lost leases and kills.                          *)
LEMMA AlwaysFlowInv == Spec => []FlowInv
BY InitKeeps, StepKeeps, PTL DEF Spec

(* Type correctness of the package, the commands and their histories.       *)
THEOREM FlowTypeCorrect == Spec => []TypeOK
<1>1. FlowInv => TypeOK
  BY DEF FlowInv, FlowType
<1> QED
  BY <1>1, AlwaysFlowInv, PTL

(* Nothing shareable without its report, for every number of commands:      *)
(* redact publishes its report before its manifest and takes them back in   *)
(* the opposite order, also when it is killed, loses its lease or races     *)
(* other commands at the name of the manifest -- unless its rollback found  *)
(* nothing of its own to remove there.                                      *)
THEOREM ShareableHasReport == Spec => []ShareNeedsReport
<1>1. FlowInv => ShareNeedsReport
  <2> SUFFICES ASSUME FlowInv, docs.manifest # None, docs.manifest.gen \notin missed,
                      docs.manifest.share # {}
               PROVE  /\ report # None
                      /\ docs.manifest.share = Clear(report.rows)
                      /\ docs.manifest.raw \subseteq report.rows
    BY DEF ShareNeedsReport
  <2> QED
    BY DEF FlowInv, NameInv, DocInv, Sharing, Covered, OwnReport
<1> QED
  BY <1>1, AlwaysFlowInv, PTL

(* Phases are earned, for every number of commands: _verify_open reads the  *)
(* report twice, and what the first read found the second one finds too     *)
(* while no redaction takes its report back.                                *)
THEOREM PhasesAreEarned == Spec => []PhaseEarned
<1>1. FlowInv => PhaseEarned
  BY DEF FlowInv, VerifyInv, PhaseEarned, Sound, At
<1> QED
  BY <1>1, AlwaysFlowInv, PTL
=============================================================================
