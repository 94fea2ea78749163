----------------------- MODULE EvidencePublishProofs -----------------------
(***************************************************************************)
(* Proofs about EvidencePublish for any finite set of commands, any number  *)
(* of generations another program puts at the public name, and any number   *)
(* of failing system calls and kills.                                       *)
(*                                                                          *)
(* A command that has found its predecessor under its own claim alone is    *)
(* the only one that can ever bring that generation back: HeirInv.  When    *)
(* there was no document, at most one command has a publication that it has *)
(* not yet withdrawn, and the name is taken as long as there is one:        *)
(* CreatorInv.                                                              *)
(*                                                                          *)
(* Where one command alone is at work, what each of its names links is      *)
(* known at every step, forward and, after one fault, back: SoloInv.  The   *)
(* last document of another program is at the public name or about to go    *)
(* back to it: LaterInv.                                                    *)
(***************************************************************************)
EXTENDS EvidencePublish, FiniteSetTheorems, TLAPS

Published == {"published", "registered"}

(* The steps before a command publishes its generation.                     *)
Early == {"idle", "check", "linkOld", "take", "settle", "readOld"}

(* The names and snapshots of a command, by the step it is at.              *)
StepInv ==
    \A w \in Writers :
        /\ pc[w] \in Early => reached[w] = "start"
        /\ pc[w] = "publish" => reached[w] \in {"start", "known"}
        /\ pc[w] = "publish" /\ base # None => reached[w] = "known"
        /\ pc[w] \in {"unclaim", "confirm", "verify", "finalize", "committed", "withdraw", "resettle"} =>
            reached[w] \in Published
        /\ pc[w] \in {"settle", "resettle"} => pend[w] # None
        /\ pc[w] \notin {"settle", "resettle", "crashed"} => pend[w] = None
        /\ pc[w] \in {"idle", "check", "linkOld"} => old[w] = None
        /\ reached[w] # "start" => old[w] \in {None, expected[w]}
        /\ base = None => old[w] = None /\ pc[w] \notin {"linkOld", "take", "settle", "readOld"}
        /\ base # None /\ reached[w] # "start" => expected[w] # None
        /\ pc[w] = "discard" => reached[w] # "start"

(* A generation of a command that was seen anywhere was published by it.    *)
SeenInv ==
    \A u \in Writers :
        (public = u \/ \E w \in Writers : u \in {expected[w], old[w], pend[w]}) =>
            reached[u] \in Published

(* The heir of a generation: the command that found it under its own claim  *)
(* alone, up to the moment it links it back.                                *)
Heir(w) ==
    /\ base # None /\ reached[w] # "start"
    /\ pc[w] \in {"publish", "unclaim", "confirm", "verify", "finalize", "committed",
                  "withdraw", "resettle", "restore"}

HeirInv ==
    \A w \in Writers : Heir(w) =>
        /\ public # expected[w]
        /\ \A v \in Writers : pend[v] # expected[w] /\ (old[v] = expected[w] => v = w)
        /\ \A v \in Writers : Heir(v) /\ expected[v] = expected[w] => v = w

(* The command has published and may still withdraw what is at the name.    *)
Armed(w) ==
    pc[w] \in {"unclaim", "confirm", "verify", "finalize", "committed", "withdraw"}

CreatorInv ==
    base = None =>
        /\ \A v, w \in Writers : Armed(v) /\ Armed(w) => v = w
        /\ public = None => \A w \in Writers : ~Armed(w)

PublishInv == TypeOK /\ StepInv /\ SeenInv /\ HeirInv /\ CreatorInv

-----------------------------------------------------------------------------
(* The writers whose claim, or pending name, links a generation.            *)
Holders(f, g) == {w \in Writers : f[w] = g}

(* Links counts holders.                                                    *)
LEMMA LinksCounts ==
    \A g : Links(g) = (IF public = g THEN 1 ELSE 0) + (IF g \in Writers /\ claim[g] THEN 1 ELSE 0)
                        + Cardinality(Holders(old, g)) + Cardinality(Holders(pend, g)) + kept[g]
BY DEF Links, Holders

(* There are finitely many holders.                                         *)
LEMMA HoldersFinite ==
    ASSUME NEW f, NEW g
    PROVE  IsFiniteSet(Holders(f, g)) /\ Cardinality(Holders(f, g)) \in Nat
<1>1. Holders(f, g) \subseteq Writers
  BY DEF Holders
<1>2. IsFiniteSet(Holders(f, g))
  BY <1>1, PublishAssumption, FS_Subset
<1> QED
  BY <1>2, FS_CardinalityType

(* A link count is a number.                                                *)
LEMMA LinksType ==
    ASSUME TypeOK, NEW g \in Generations
    PROVE  Links(g) \in Nat
<1>1. Cardinality(Holders(old, g)) \in Nat /\ Cardinality(Holders(pend, g)) \in Nat
  BY HoldersFinite
<1>2. kept[g] \in Nat
  BY DEF TypeOK
<1>3. (IF public = g THEN 1 ELSE 0) \in Nat /\ (IF g \in Writers /\ claim[g] THEN 1 ELSE 0) \in Nat
  OBVIOUS
<1> QED
  BY <1>1, <1>2, <1>3, LinksCounts

(* A generation that a command's claim links and that has one link has no   *)
(* other name.                                                              *)
LEMMA OnlyLink ==
    ASSUME TypeOK, NEW g \in Generations, NEW w \in Writers, old[w] = g, Links(g) = 1
    PROVE  public # g /\ \A v \in Writers : pend[v] # g /\ (old[v] = g => v = w)
<1>1. /\ IsFiniteSet(Holders(old, g)) /\ Cardinality(Holders(old, g)) \in Nat
      /\ IsFiniteSet(Holders(pend, g)) /\ Cardinality(Holders(pend, g)) \in Nat
  BY HoldersFinite
<1>2. kept[g] \in Nat
  BY DEF TypeOK
<1>3. w \in Holders(old, g)
  BY DEF Holders
<1>4. Cardinality(Holders(old, g)) # 0
  BY <1>1, <1>3, FS_EmptySet
<1>5. /\ (IF public = g THEN 1 ELSE 0) = 0
      /\ Cardinality(Holders(old, g)) = 1 /\ Cardinality(Holders(pend, g)) = 0
  <2> DEFINE p == IF public = g THEN 1 ELSE 0
             c == IF g \in Writers /\ claim[g] THEN 1 ELSE 0
  <2>1. p \in Nat /\ c \in Nat
    OBVIOUS
  <2>2. p + c + Cardinality(Holders(old, g)) + Cardinality(Holders(pend, g)) + kept[g] = 1
    BY LinksCounts
  <2> HIDE DEF p, c
  <2>3. p = 0 /\ Cardinality(Holders(old, g)) = 1 /\ Cardinality(Holders(pend, g)) = 0
    BY <1>1, <1>2, <1>4, <2>1, <2>2
  <2> QED
    BY <2>3 DEF p
<1>6. Holders(pend, g) = {}
  BY <1>1, <1>5, FS_EmptySet
<1>7. PICK x : Holders(old, g) = {x}
  BY <1>1, <1>5, FS_Singleton
<1>8. public # g
  BY <1>5
<1>9. ASSUME NEW v \in Writers
      PROVE  pend[v] # g /\ (old[v] = g => v = w)
  BY <1>3, <1>6, <1>7 DEF Holders
<1> QED
  BY <1>8, <1>9

(* Every step of a command and of another program preserves PublishInv.     *)
LEMMA PublishInvStep ==
    ASSUME PublishInv, [Next]_vars
    PROVE  PublishInv'
<1> USE PublishAssumption DEF PublishInv, Goto
<1>1. ASSUME NEW w \in Writers, ReadExpected(w)
      PROVE  PublishInv'
  <2>1. TypeOK'
    BY <1>1 DEF ReadExpected, TypeOK, Generations, Steps
  <2>2. StepInv'
    BY <1>1 DEF ReadExpected, TypeOK, StepInv, Early, Published
  <2>3. SeenInv'
    BY <1>1 DEF ReadExpected, TypeOK, StepInv, SeenInv, Published, Early
  <2>4. HeirInv'
    BY <1>1 DEF ReadExpected, TypeOK, StepInv, HeirInv, Heir, Published, Early
  <2>5. CreatorInv'
    BY <1>1 DEF ReadExpected, TypeOK, StepInv, CreatorInv, Armed, Published, Early
  <2> QED
    BY <2>1, <2>2, <2>3, <2>4, <2>5
<1>2. ASSUME NEW w \in Writers, CheckAndStage(w)
      PROVE  PublishInv'
  <2>1. TypeOK'
    BY <1>2 DEF CheckAndStage, TypeOK, Generations, Steps
  <2>2. StepInv'
    BY <1>2 DEF CheckAndStage, TypeOK, StepInv, Early, Published
  <2>3. SeenInv'
    BY <1>2 DEF CheckAndStage, TypeOK, StepInv, SeenInv, Published, Early
  <2>4. HeirInv'
    BY <1>2 DEF CheckAndStage, TypeOK, StepInv, HeirInv, Heir, Published, Early
  <2>5. CreatorInv'
    BY <1>2 DEF CheckAndStage, TypeOK, StepInv, CreatorInv, Armed, Published, Early
  <2> QED
    BY <2>1, <2>2, <2>3, <2>4, <2>5
<1>3. ASSUME NEW w \in Writers, LinkOld(w)
      PROVE  PublishInv'
  <2>1. TypeOK'
    BY <1>3 DEF LinkOld, Raise, TypeOK, Generations, Steps
  <2>2. StepInv'
    BY <1>3 DEF LinkOld, Raise, TypeOK, StepInv, Early, Published
  <2>3. SeenInv'
    BY <1>3 DEF LinkOld, Raise, TypeOK, StepInv, SeenInv, Published, Early
  <2>4. HeirInv'
    BY <1>3 DEF LinkOld, Raise, TypeOK, StepInv, HeirInv, Heir, Published, Early
  <2>5. CreatorInv'
    BY <1>3 DEF LinkOld, Raise, TypeOK, StepInv, CreatorInv, Armed, Published, Early
  <2> QED
    BY <2>1, <2>2, <2>3, <2>4, <2>5
<1>4. ASSUME NEW w \in Writers, Take(w)
      PROVE  PublishInv'
  <2>1. TypeOK'
    <3>1. public # None => Links(public) \in Nat
      BY LinksType DEF TypeOK
    <3>2. seen' \in [Writers -> Nat]
      BY <1>4, <3>1 DEF Take, TypeOK
    <3> QED
      BY <1>4, <3>2 DEF Take, Withdrawing, AfterRemoval, TypeOK, Generations, Steps
  <2>2. StepInv'
    BY <1>4 DEF Take, Withdrawing, AfterRemoval, TypeOK, StepInv, Early, Published
  <2>3. SeenInv'
    BY <1>4 DEF Take, Withdrawing, AfterRemoval, TypeOK, StepInv, SeenInv, Published, Early
  <2>4. HeirInv'
    BY <1>4 DEF Take, Withdrawing, AfterRemoval, TypeOK, StepInv, HeirInv, Heir, Published, Early
  <2>5. CreatorInv'
    BY <1>4 DEF Take, Withdrawing, AfterRemoval, TypeOK, StepInv, CreatorInv, Armed, Published, Early
  <2> QED
    BY <2>1, <2>2, <2>3, <2>4, <2>5
<1>5. ASSUME NEW w \in Writers, Settle(w)
      PROVE  PublishInv'
  <2>1. TypeOK'
    BY <1>5 DEF Settle, Withdrawing, AfterRemoval, AfterRaise, Owned, Unlink, RestoreClaim, TypeOK, Generations, Steps
  <2>2. StepInv'
    BY <1>5 DEF Settle, Withdrawing, AfterRemoval, AfterRaise, Owned, Unlink, RestoreClaim, TypeOK, StepInv, Early, Published
  <2>3. SeenInv'
    BY <1>5 DEF Settle, Withdrawing, AfterRemoval, AfterRaise, Owned, Unlink, RestoreClaim, TypeOK, StepInv, SeenInv, Published, Early
  <2>4. HeirInv'
    BY <1>5 DEF Settle, Withdrawing, AfterRemoval, AfterRaise, Owned, Unlink, RestoreClaim, TypeOK, StepInv, HeirInv, Heir, Published, Early
  <2>5. CreatorInv'
    BY <1>5 DEF Settle, Withdrawing, AfterRemoval, AfterRaise, Owned, Unlink, RestoreClaim, TypeOK, StepInv, CreatorInv, Armed, Published, Early
  <2> QED
    BY <2>1, <2>2, <2>3, <2>4, <2>5
<1>6. ASSUME NEW w \in Writers, ReadOld(w)
      PROVE  PublishInv'
  <2>a. reached[w] = "start" /\ pc[w] = "readOld" /\ base # None
    BY <1>6 DEF ReadOld, StepInv, Early
  <2>b. \/ /\ Readable(old[w]) /\ old[w] = expected[w]
           /\ reached' = [reached EXCEPT ![w] = "known"] /\ pc' = [pc EXCEPT ![w] = "publish"]
        \/ reached' = reached /\ pc' = [pc EXCEPT ![w] = "restore"]
    BY <1>6, <2>a DEF ReadOld, Raise
  <2>c. UNCHANGED <<public, base, expected, old, pend>>
    BY <1>6 DEF ReadOld
  <2>1. TypeOK'
    BY <1>6 DEF ReadOld, Raise, TypeOK, Generations, Steps
  <2>2. StepInv'
    BY <2>a, <2>b, <2>c DEF TypeOK, StepInv, Early, Published, Readable
  <2>3. SeenInv'
    BY <1>6 DEF ReadOld, Raise, TypeOK, StepInv, SeenInv, Published, Early
  <2>4. HeirInv'
    <3>1. CASE reached' = reached /\ pc' = [pc EXCEPT ![w] = "restore"]
      BY <2>a, <2>c, <3>1 DEF TypeOK, HeirInv, Heir
    <3>2. CASE /\ Readable(old[w]) /\ old[w] = expected[w]
               /\ reached' = [reached EXCEPT ![w] = "known"] /\ pc' = [pc EXCEPT ![w] = "publish"]
      <4>1. /\ public # expected[w]
            /\ \A v \in Writers : pend[v] # expected[w] /\ (old[v] = expected[w] => v = w)
        BY <3>2, OnlyLink DEF TypeOK, Readable
      <4>2. \A v \in Writers : Heir(v) => expected[v] # expected[w]
        BY <2>a, <3>2 DEF HeirInv, Heir
      <4>3. \A v \in Writers : v # w => (Heir(v)' <=> Heir(v))
        BY <2>c, <3>2 DEF TypeOK, Heir
      <4> QED
        BY <2>c, <4>1, <4>2, <4>3 DEF HeirInv
    <3> QED
      BY <2>b, <3>1, <3>2
  <2>5. CreatorInv'
    BY <1>6 DEF ReadOld, Raise, TypeOK, StepInv, CreatorInv, Armed, Published, Early
  <2> QED
    BY <2>1, <2>2, <2>3, <2>4, <2>5
<1>7. ASSUME NEW w \in Writers, Publish(w)
      PROVE  PublishInv'
  <2>1. TypeOK'
    BY <1>7 DEF Publish, Raise, TypeOK, Generations, Steps
  <2>2. StepInv'
    BY <1>7 DEF Publish, Raise, TypeOK, StepInv, Early, Published
  <2>3. SeenInv'
    BY <1>7 DEF Publish, Raise, TypeOK, StepInv, SeenInv, Published, Early
  <2>4. HeirInv'
    <3>1. \A v \in Writers : expected[v] # w
      BY <1>7 DEF Publish, StepInv, SeenInv, Published
    <3>2. \A v \in Writers : Heir(v)' => Heir(v)
      BY <1>7 DEF Publish, Raise, TypeOK, StepInv, Heir, Published
    <3>3. public' \in {public, w} /\ UNCHANGED <<expected, old, pend>>
      BY <1>7 DEF Publish
    <3> QED
      BY <3>1, <3>2, <3>3 DEF HeirInv
  <2>5. CreatorInv'
    BY <1>7 DEF Publish, Raise, TypeOK, StepInv, CreatorInv, Armed, Published, Early
  <2> QED
    BY <2>1, <2>2, <2>3, <2>4, <2>5
<1>8. ASSUME NEW w \in Writers, Unclaim(w)
      PROVE  PublishInv'
  <2>1. TypeOK'
    BY <1>8 DEF Unclaim, TypeOK, Generations, Steps
  <2>2. StepInv'
    BY <1>8 DEF Unclaim, TypeOK, StepInv, Early, Published
  <2>3. SeenInv'
    BY <1>8 DEF Unclaim, TypeOK, StepInv, SeenInv, Published, Early
  <2>4. HeirInv'
    BY <1>8 DEF Unclaim, TypeOK, StepInv, HeirInv, Heir, Published, Early
  <2>5. CreatorInv'
    BY <1>8 DEF Unclaim, TypeOK, StepInv, CreatorInv, Armed, Published, Early
  <2> QED
    BY <2>1, <2>2, <2>3, <2>4, <2>5
<1>9. ASSUME NEW w \in Writers, Confirm(w)
      PROVE  PublishInv'
  <2>1. TypeOK'
    BY <1>9 DEF Confirm, Raise, TypeOK, Generations, Steps
  <2>2. StepInv'
    BY <1>9 DEF Confirm, Raise, TypeOK, StepInv, Early, Published
  <2>3. SeenInv'
    BY <1>9 DEF Confirm, Raise, TypeOK, StepInv, SeenInv, Published, Early
  <2>4. HeirInv'
    BY <1>9 DEF Confirm, Raise, TypeOK, StepInv, HeirInv, Heir, Published, Early
  <2>5. CreatorInv'
    BY <1>9 DEF Confirm, Raise, TypeOK, StepInv, CreatorInv, Armed, Published, Early
  <2> QED
    BY <2>1, <2>2, <2>3, <2>4, <2>5
<1>10. ASSUME NEW w \in Writers, Verify(w)
      PROVE  PublishInv'
  <2>1. TypeOK'
    BY <1>10 DEF Verify, Raise, TypeOK, Generations, Steps
  <2>2. StepInv'
    BY <1>10 DEF Verify, Raise, TypeOK, StepInv, Early, Published
  <2>3. SeenInv'
    BY <1>10 DEF Verify, Raise, TypeOK, StepInv, SeenInv, Published, Early
  <2>4. HeirInv'
    BY <1>10 DEF Verify, Raise, TypeOK, StepInv, HeirInv, Heir, Published, Early
  <2>5. CreatorInv'
    BY <1>10 DEF Verify, Raise, TypeOK, StepInv, CreatorInv, Armed, Published, Early
  <2> QED
    BY <2>1, <2>2, <2>3, <2>4, <2>5
<1>11. ASSUME NEW w \in Writers, Finalize(w)
      PROVE  PublishInv'
  <2>1. TypeOK'
    BY <1>11 DEF Finalize, TypeOK, Generations, Steps
  <2>2. StepInv'
    BY <1>11 DEF Finalize, TypeOK, StepInv, Early, Published
  <2>3. SeenInv'
    BY <1>11 DEF Finalize, TypeOK, StepInv, SeenInv, Published, Early
  <2>4. HeirInv'
    BY <1>11 DEF Finalize, TypeOK, StepInv, HeirInv, Heir, Published, Early
  <2>5. CreatorInv'
    BY <1>11 DEF Finalize, TypeOK, StepInv, CreatorInv, Armed, Published, Early
  <2> QED
    BY <2>1, <2>2, <2>3, <2>4, <2>5
<1>12. ASSUME NEW w \in Writers, RestoreOld(w)
      PROVE  PublishInv'
  <2>1. TypeOK'
    BY <1>12 DEF RestoreOld, TypeOK, Generations, Steps
  <2>2. StepInv'
    BY <1>12 DEF RestoreOld, TypeOK, StepInv, Early, Published
  <2>3. SeenInv'
    BY <1>12 DEF RestoreOld, TypeOK, StepInv, SeenInv, Published, Early
  <2>4. HeirInv'
    BY <1>12 DEF RestoreOld, TypeOK, StepInv, HeirInv, Heir, Published, Early
  <2>5. CreatorInv'
    BY <1>12 DEF RestoreOld, TypeOK, StepInv, CreatorInv, Armed, Published, Early
  <2> QED
    BY <2>1, <2>2, <2>3, <2>4, <2>5
<1>13. ASSUME NEW w \in Writers, DiscardOld(w)
      PROVE  PublishInv'
  <2>1. TypeOK'
    BY <1>13 DEF DiscardOld, TypeOK, Generations, Steps
  <2>2. StepInv'
    BY <1>13 DEF DiscardOld, TypeOK, StepInv, Early, Published
  <2>3. SeenInv'
    BY <1>13 DEF DiscardOld, TypeOK, StepInv, SeenInv, Published, Early
  <2>4. HeirInv'
    BY <1>13 DEF DiscardOld, TypeOK, StepInv, HeirInv, Heir, Published, Early
  <2>5. CreatorInv'
    BY <1>13 DEF DiscardOld, TypeOK, StepInv, CreatorInv, Armed, Published, Early
  <2> QED
    BY <2>1, <2>2, <2>3, <2>4, <2>5
<1>14. ASSUME NEW w \in Writers, DropClaim(w)
      PROVE  PublishInv'
  <2>1. TypeOK'
    BY <1>14 DEF DropClaim, TypeOK, Generations, Steps
  <2>2. StepInv'
    BY <1>14 DEF DropClaim, TypeOK, StepInv, Early, Published
  <2>3. SeenInv'
    BY <1>14 DEF DropClaim, TypeOK, StepInv, SeenInv, Published, Early
  <2>4. HeirInv'
    BY <1>14 DEF DropClaim, TypeOK, StepInv, HeirInv, Heir, Published, Early
  <2>5. CreatorInv'
    BY <1>14 DEF DropClaim, TypeOK, StepInv, CreatorInv, Armed, Published, Early
  <2> QED
    BY <2>1, <2>2, <2>3, <2>4, <2>5
<1>15. ASSUME NEW w \in Writers, Crash(w)
      PROVE  PublishInv'
  <2>1. TypeOK'
    BY <1>15 DEF Crash, TypeOK, Generations, Steps
  <2>2. StepInv'
    BY <1>15 DEF Crash, TypeOK, StepInv, Early, Published
  <2>3. SeenInv'
    BY <1>15 DEF Crash, TypeOK, StepInv, SeenInv, Published, Early
  <2>4. HeirInv'
    BY <1>15 DEF Crash, TypeOK, StepInv, HeirInv, Heir, Published, Early
  <2>5. CreatorInv'
    BY <1>15 DEF Crash, TypeOK, StepInv, CreatorInv, Armed, Published, Early
  <2> QED
    BY <2>1, <2>2, <2>3, <2>4, <2>5
<1>16. ASSUME NEW f \in Foreign, Replace(f)
      PROVE  PublishInv'
  <2>1. TypeOK'
    BY <1>16 DEF Replace, TypeOK, Generations, Steps
  <2>2. StepInv'
    BY <1>16 DEF Replace, TypeOK, StepInv, Early, Published
  <2>3. SeenInv'
    BY <1>16 DEF Replace, TypeOK, StepInv, SeenInv, Published, Early
  <2>4. HeirInv'
    BY <1>16 DEF Replace, TypeOK, StepInv, HeirInv, Heir, Published, Early
  <2>5. CreatorInv'
    BY <1>16 DEF Replace, TypeOK, StepInv, CreatorInv, Armed, Published, Early
  <2> QED
    BY <2>1, <2>2, <2>3, <2>4, <2>5
<1>17. ASSUME NEW w \in Writers, Fault(w)
      PROVE  PublishInv'
  <2>1. TypeOK'
    <3>1. pc' \in [Writers -> Steps]
      BY <1>17 DEF Fault, Raise, AfterRaise, TypeOK, Steps
    <3>2. kept' \in [Generations -> Nat] /\ pend' \in [Writers -> Generations \cup {None}]
      BY <1>17 DEF Fault, RestoreClaim, Keep, Unlink, TypeOK, StepInv
    <3>3. public' \in Generations \cup {None} /\ faults' \in 0 .. MaxFaults
      BY <1>17 DEF Fault, RestoreClaim, Keep, Unlink, TypeOK
    <3>4. UNCHANGED <<base, expected, claim, old, seen, reached, last, crashes>>
      BY <1>17 DEF Fault
    <3> QED
      BY <3>1, <3>2, <3>3, <3>4 DEF TypeOK
  <2>2. CASE /\ UNCHANGED <<public, pend, old, base, expected, reached>>
             /\ \/ pc[w] = "check" /\ pc' = [pc EXCEPT ![w] = "failed"]
                \/ /\ pc[w] \in {"linkOld", "take", "readOld", "publish", "unclaim", "confirm",
                                 "verify", "finalize"}
                   /\ Raise(w)
                \/ pc[w] = "withdraw" /\ pc' = [pc EXCEPT ![w] = AfterRaise(w)]
                \/ pc[w] \in {"restore", "discard"} /\ pc' = [pc EXCEPT ![w] = "drop"]
                \/ pc[w] = "drop" /\ pc' = [pc EXCEPT ![w] = "failed"]
    <3> USE <2>2 DEF Raise, AfterRaise, Withdrawing
    <3>1. StepInv'
      BY DEF TypeOK, StepInv, Early, Published
    <3>2. SeenInv'
      BY DEF SeenInv
    <3>3. HeirInv'
      BY DEF TypeOK, StepInv, HeirInv, Heir, Published, Early
    <3>4. CreatorInv'
      BY DEF TypeOK, StepInv, CreatorInv, Armed, Published, Early
    <3> QED
      BY <2>1, <3>1, <3>2, <3>3, <3>4
  <2>3. CASE /\ pc[w] \in {"settle", "resettle"} /\ pc' = [pc EXCEPT ![w] = AfterRaise(w)]
             /\ RestoreClaim(w) \/ Keep(w) \/ Unlink(w)
             /\ UNCHANGED <<old, base, expected, reached>>
    <3> USE <2>3 DEF RestoreClaim, Keep, Unlink, AfterRaise, Withdrawing
    <3>1. StepInv'
      BY DEF TypeOK, StepInv, Early, Published
    <3>2. SeenInv'
      BY DEF TypeOK, SeenInv
    <3>3. HeirInv'
      BY DEF TypeOK, StepInv, HeirInv, Heir, Published, Early
    <3>4. CreatorInv'
      BY DEF TypeOK, StepInv, CreatorInv, Armed, Published, Early
    <3> QED
      BY <2>1, <3>1, <3>2, <3>3, <3>4
  <2> QED
    BY <1>17, <2>2, <2>3 DEF Fault
<1>18. CASE UNCHANGED vars
  <2>1. TypeOK'
    BY <1>18 DEF vars, TypeOK
  <2>2. StepInv'
    BY <1>18 DEF vars, StepInv
  <2>3. SeenInv'
    BY <1>18 DEF vars, SeenInv
  <2>4. HeirInv'
    BY <1>18 DEF vars, HeirInv, Heir
  <2>5. CreatorInv'
    BY <1>18 DEF vars, CreatorInv, Armed
  <2> QED
    BY <2>1, <2>2, <2>3, <2>4, <2>5
<1> QED
  BY <1>1, <1>2, <1>3, <1>4, <1>5, <1>6, <1>7, <1>8, <1>9, <1>10, <1>11, <1>12, <1>13, <1>14, <1>15, <1>16, <1>17, <1>18 DEF Next, WriterStep

(* PublishInv is an invariant of the specification.                         *)
LEMMA PublishInvariant == Spec => []PublishInv
<1>1. Init => PublishInv
  <2> SUFFICES ASSUME Init
               PROVE  PublishInv
    OBVIOUS
  <2> USE PublishAssumption DEF Init
  <2>1. TypeOK
    BY DEF TypeOK, Generations, Steps
  <2>2. StepInv /\ SeenInv
    BY DEF StepInv, SeenInv, Early, Published
  <2>3. HeirInv /\ CreatorInv
    BY DEF HeirInv, Heir, CreatorInv, Armed
  <2> QED
    BY <2>1, <2>2, <2>3 DEF PublishInv
<1> QED
  BY <1>1, PublishInvStep, PTL DEF Spec

(* Every variable keeps its type.                                           *)
THEOREM PublishTypeCorrect == Spec => []TypeOK
<1>1. PublishInv => TypeOK
  BY DEF PublishInv
<1> QED
  BY <1>1, PublishInvariant, PTL

(* Two commands never both commit a successor of the same generation, or    *)
(* both create the document (expected_snapshot and must_not_exist of        *)
(* _write_bytes_at, evidence.py).                                           *)
THEOREM UpdatesAreNotLost == Spec => []NoLostUpdate
<1>1. PublishInv => NoLostUpdate
  <2> SUFFICES ASSUME PublishInv, NEW v \in Writers, NEW w \in Writers, v # w,
                      pc[v] = "committed", pc[w] = "committed", expected[v] = expected[w]
               PROVE  FALSE
    BY DEF NoLostUpdate
  <2>1. CASE base = None
    BY <2>1 DEF PublishInv, CreatorInv, Armed
  <2>2. CASE base # None
    BY <2>2 DEF PublishInv, StepInv, HeirInv, Heir, Published
  <2> QED
    BY <2>1, <2>2
<1> QED
  BY <1>1, PublishInvariant, PTL


-----------------------------------------------------------------------------
(* Counting the names of a generation: at the public name ...               *)
AtName(x, g) == IF x = g THEN 1 ELSE 0

(* ... and among the names of the writers.                                  *)
Count(f, g) == Cardinality(Holders(f, g))

(* h differs from f at most at w.                                           *)
SameBut(f, h, w) == \A v \in Writers \ {w} : h[v] = f[v]

(* How the count changes when one writer's name is set to another           *)
(* generation.                                                              *)
LEMMA CountChanges ==
    ASSUME NEW f, NEW h, NEW w \in Writers, NEW g, SameBut(f, h, w)
    PROVE  Count(h, g) + AtName(f[w], g) = Count(f, g) + AtName(h[w], g)
<1> DEFINE Hf == Holders(f, g)
           Hh == Holders(h, g)
<1>1. /\ IsFiniteSet(Hf) /\ Cardinality(Hf) \in Nat
      /\ IsFiniteSet(Hh) /\ Cardinality(Hh) \in Nat
  BY HoldersFinite
<1>2. f[w] # g /\ h[w] # g => Hh = Hf
  BY DEF Holders, SameBut
<1>3. f[w] # g /\ h[w] = g => Hh = Hf \cup {w} /\ w \notin Hf
  BY DEF Holders, SameBut
<1>4. f[w] = g /\ h[w] # g => Hh = Hf \ {w} /\ w \in Hf
  BY DEF Holders, SameBut
<1>5. f[w] = g /\ h[w] = g => Hh = Hf
  BY DEF Holders, SameBut
<1> HIDE DEF Hf, Hh
<1>6. f[w] # g /\ h[w] = g => Cardinality(Hh) = Cardinality(Hf) + 1
  BY <1>1, <1>3, FS_AddElement
<1>7. f[w] = g /\ h[w] # g => Cardinality(Hh) + 1 = Cardinality(Hf)
  <2>1. f[w] = g /\ h[w] # g => Cardinality(Hh) = Cardinality(Hf) - 1
    BY <1>1, <1>4, FS_RemoveElement
  <2> QED
    BY <1>1, <2>1
<1>8. Count(f, g) = Cardinality(Hf) /\ Count(h, g) = Cardinality(Hh)
  BY DEF Count, Hf, Hh
<1> QED
  BY <1>1, <1>2, <1>5, <1>6, <1>7, <1>8 DEF AtName

(* A step that changes no claim of g loses none of its links if the other   *)
(* names lose none together.                                                *)
LEMMA LinksNotLost ==
    ASSUME TypeOK, TypeOK', NEW g \in Generations, g \in Writers => claim'[g] = claim[g],
           AtName(public, g) + Count(old, g) + Count(pend, g) + kept[g]
             <= AtName(public', g) + Count(old', g) + Count(pend', g) + kept'[g]
    PROVE  ~(Links(g)' < Links(g))
<1> DEFINE c == IF g \in Writers /\ claim[g] THEN 1 ELSE 0
<1>1. c \in Nat /\ AtName(public, g) \in Nat /\ AtName(public', g) \in Nat
  BY DEF AtName
<1>2. kept[g] \in Nat /\ kept'[g] \in Nat
  BY DEF TypeOK
<1>3. /\ Count(old, g) \in Nat /\ Count(pend, g) \in Nat
      /\ Count(old', g) \in Nat /\ Count(pend', g) \in Nat
  BY HoldersFinite DEF Count
<1>4. Links(g) = AtName(public, g) + c + Count(old, g) + Count(pend, g) + kept[g]
  BY DEF Links, AtName, Count, Holders
<1>5. Links(g)' = AtName(public', g) + c + Count(old', g) + Count(pend', g) + kept'[g]
  BY DEF Links, AtName, Count, Holders
<1> HIDE DEF c
<1> QED
  BY <1>1, <1>2, <1>3, <1>4, <1>5

(* A command takes a link only from its own generation or from the one it   *)
(* read as its predecessor (remove_owned_at, fs_security.py).               *)
THEOREM OnlyOwnLinksRemoved == Spec => OnlyOwnedUnlinked
<1>1. ASSUME PublishInv, PublishInv', [Next]_vars, NEW g \in Generations, last' = last,
             Links(g)' < Links(g)
      PROVE  \E w \in Writers : pc'[w] # pc[w] /\ g \in {w, expected[w]}
  <2> SUFFICES ASSUME \A w \in Writers : pc'[w] # pc[w] => g \notin {w, expected[w]}
               PROVE  FALSE
    OBVIOUS
  <2> USE <1>1, PublishAssumption DEF PublishInv, Goto
  <2>a. /\ AtName(public, g) \in Nat /\ AtName(public', g) \in Nat
        /\ kept[g] \in Nat /\ kept'[g] \in Nat
        /\ Count(old, g) \in Nat /\ Count(pend, g) \in Nat
        /\ Count(old', g) \in Nat /\ Count(pend', g) \in Nat
    BY HoldersFinite DEF AtName, Count, TypeOK
  <2>b. AtName(None, g) = 0
    BY DEF AtName, Generations
  <2>c. ASSUME UNCHANGED <<public, claim, old, pend, kept>>
        PROVE  FALSE
    BY <2>a, <2>c, LinksNotLost
  <2>1. ASSUME NEW w \in Writers,
               ReadExpected(w) \/ ReadOld(w) \/ Confirm(w) \/ Verify(w) \/ Crash(w)
        PROVE  FALSE
    BY <2>1, <2>c DEF ReadExpected, ReadOld, Confirm, Verify, Crash
  <2>2. ASSUME NEW w \in Writers, CheckAndStage(w) \/ Unclaim(w) \/ DropClaim(w)
        PROVE  FALSE
    <3>1. pc'[w] # pc[w] /\ claim' \in {claim, [claim EXCEPT ![w] = TRUE], [claim EXCEPT ![w] = FALSE]}
      BY <2>2 DEF CheckAndStage, Unclaim, DropClaim, TypeOK
    <3>2. g \in Writers => claim'[g] = claim[g]
      BY <3>1 DEF TypeOK
    <3>3. UNCHANGED <<public, old, pend, kept>>
      BY <2>2 DEF CheckAndStage, Unclaim, DropClaim
    <3> QED
      BY <2>a, <3>2, <3>3, LinksNotLost
  <2>3. ASSUME NEW w \in Writers, LinkOld(w)
        PROVE  FALSE
    <3>1. CASE old' = [old EXCEPT ![w] = public]
      <4>1. old[w] # g
        BY <2>3 DEF LinkOld, StepInv, Generations
      <4>2. Count(old', g) = Count(old, g) + AtName(public, g)
        <5>1. old'[w] = public /\ SameBut(old, old', w)
          BY <3>1 DEF TypeOK, SameBut
        <5>2. Count(old', g) + AtName(old[w], g) = Count(old, g) + AtName(old'[w], g)
          BY <5>1, CountChanges
        <5>3. AtName(old[w], g) = 0
          BY <4>1 DEF AtName
        <5> QED
          BY <2>a, <2>b, <5>1, <5>2, <5>3
      <4>3. UNCHANGED <<public, claim, pend, kept>>
        BY <2>3 DEF LinkOld
      <4> QED
        BY <2>a, <4>2, <4>3, LinksNotLost
    <3> QED
      BY <2>3, <2>c, <3>1 DEF LinkOld
  <2>4. ASSUME NEW w \in Writers, Take(w)
        PROVE  FALSE
    <3>1. CASE public' = None /\ pend' = [pend EXCEPT ![w] = public]
      <4>1. pend[w] # g
        BY <2>4 DEF Take, StepInv, Generations
      <4>2. Count(pend', g) = Count(pend, g) + AtName(public, g)
        <5>1. pend'[w] = public /\ SameBut(pend, pend', w)
          BY <3>1 DEF TypeOK, SameBut
        <5>2. Count(pend', g) + AtName(pend[w], g) = Count(pend, g) + AtName(pend'[w], g)
          BY <5>1, CountChanges
        <5>3. AtName(pend[w], g) = 0
          BY <4>1 DEF AtName
        <5> QED
          BY <2>a, <2>b, <5>1, <5>2, <5>3
      <4>3. UNCHANGED <<claim, old, kept>>
        BY <2>4 DEF Take
      <4>4. AtName(public', g) = 0 /\ Count(old', g) = Count(old, g) /\ kept'[g] = kept[g]
        BY <2>b, <3>1, <4>3
      <4>5. AtName(public, g) + Count(old, g) + Count(pend, g) + kept[g]
              <= AtName(public', g) + Count(old', g) + Count(pend', g) + kept'[g]
        BY <2>a, <4>2, <4>4
      <4> QED
        BY <4>3, <4>5, LinksNotLost
    <3>2. CASE UNCHANGED <<public, pend>>
      BY <2>4, <2>c, <3>2 DEF Take
    <3> QED
      BY <2>4, <3>1, <3>2 DEF Take
  <2>5. ASSUME NEW w \in Writers, pc[w] \in {"settle", "resettle"}, pc'[w] # pc[w],
               UNCHANGED <<claim, old>>,
               RestoreClaim(w) \/ Keep(w) \/ (pend[w] = Owned(w) /\ Unlink(w))
        PROVE  FALSE
    <3>1. pend' = [pend EXCEPT ![w] = None]
      BY <2>5 DEF RestoreClaim, Keep, Unlink
    <3>2. CASE pend[w] # g
      <4>1. Count(pend', g) = Count(pend, g)
        <5>1. pend'[w] = None /\ SameBut(pend, pend', w)
          BY <3>1 DEF TypeOK, SameBut
        <5>2. Count(pend', g) + AtName(pend[w], g) = Count(pend, g) + AtName(pend'[w], g)
          BY <5>1, CountChanges
        <5>3. AtName(pend[w], g) = 0
          BY <3>2 DEF AtName
        <5> QED
          BY <2>a, <2>b, <5>1, <5>2, <5>3
      <4>2. AtName(public, g) <= AtName(public', g) /\ kept[g] <= kept'[g]
        BY <2>5, <3>2 DEF RestoreClaim, Keep, Unlink, AtName, TypeOK, Generations
      <4> QED
        BY <2>5, <2>a, <4>1, <4>2, LinksNotLost
    <3>3. CASE pend[w] = g
      <4>1. Count(pend', g) + 1 = Count(pend, g)
        <5>1. pend'[w] = None /\ SameBut(pend, pend', w)
          BY <3>1 DEF TypeOK, SameBut
        <5>2. Count(pend', g) + AtName(pend[w], g) = Count(pend, g) + AtName(pend'[w], g)
          BY <5>1, CountChanges
        <5>3. AtName(pend[w], g) = 1
          BY <3>3 DEF AtName
        <5> QED
          BY <2>a, <2>b, <5>1, <5>2, <5>3
      <4>2. RestoreClaim(w) \/ Keep(w)
        BY <2>5, <3>3 DEF Owned
      <4>3. \/ AtName(public', g) = AtName(public, g) + 1 /\ kept'[g] = kept[g]
            \/ AtName(public', g) = AtName(public, g) /\ kept'[g] = kept[g] + 1
        BY <3>3, <4>2 DEF RestoreClaim, Keep, AtName, TypeOK, Generations
      <4> QED
        BY <2>5, <2>a, <4>1, <4>3, LinksNotLost
    <3> QED
      BY <3>2, <3>3
  <2>6. ASSUME NEW w \in Writers, Settle(w)
        PROVE  FALSE
    <3>1. pc[w] \in {"settle", "resettle"} /\ UNCHANGED <<claim, old>>
      BY <2>6 DEF Settle
    <3>2. pc'[w] # pc[w]
      BY <2>6 DEF Settle, AfterRemoval, AfterRaise, TypeOK
    <3>3. RestoreClaim(w) \/ (pend[w] = Owned(w) /\ Unlink(w))
      BY <2>6 DEF Settle
    <3> QED
      BY <2>5, <3>1, <3>2, <3>3
  <2>7. ASSUME NEW w \in Writers, Publish(w)
        PROVE  FALSE
    <3>1. CASE public = None /\ public' = w
      <4>1. UNCHANGED <<claim, old, pend, kept>>
        BY <2>7 DEF Publish
      <4> QED
        BY <2>a, <2>b, <3>1, <4>1, LinksNotLost
    <3>2. CASE UNCHANGED public
      BY <2>7, <2>c, <3>2 DEF Publish
    <3> QED
      BY <2>7, <3>1, <3>2 DEF Publish
  <2>8. ASSUME NEW w \in Writers, Finalize(w) \/ DiscardOld(w)
        PROVE  FALSE
    <3>1. pc'[w] # pc[w] /\ old' = [old EXCEPT ![w] = None] /\ UNCHANGED <<public, claim, pend, kept>>
      BY <2>8 DEF Finalize, DiscardOld, TypeOK
    <3>2. old[w] # g
      BY <2>8, <3>1 DEF Finalize, DiscardOld, StepInv, Published, Generations
    <3>3. Count(old', g) = Count(old, g)
      <4>1. old'[w] = None /\ SameBut(old, old', w)
        BY <3>1 DEF TypeOK, SameBut
      <4>2. Count(old', g) + AtName(old[w], g) = Count(old, g) + AtName(old'[w], g)
        BY <4>1, CountChanges
      <4>3. AtName(old[w], g) = 0
        BY <3>2 DEF AtName
      <4> QED
        BY <2>a, <2>b, <4>1, <4>2, <4>3
    <3>4. AtName(public, g) + Count(old, g) + Count(pend, g) + kept[g]
            <= AtName(public', g) + Count(old', g) + Count(pend', g) + kept'[g]
      BY <2>a, <3>1, <3>3
    <3> QED
      BY <3>1, <3>4, LinksNotLost
  <2>9. ASSUME NEW w \in Writers, RestoreOld(w)
        PROVE  FALSE
    <3>1. public' = public \/ public = None
      BY <2>9 DEF RestoreOld
    <3>2. UNCHANGED <<claim, old, pend, kept>>
      BY <2>9 DEF RestoreOld
    <3> QED
      BY <2>a, <2>b, <3>1, <3>2, LinksNotLost
  <2>10. ASSUME NEW w \in Writers, Fault(w)
         PROVE  FALSE
    <3>1. CASE UNCHANGED <<public, pend, kept, old, claim>>
      BY <2>c, <3>1
    <3>2. CASE /\ pc[w] \in {"settle", "resettle"} /\ pc' = [pc EXCEPT ![w] = AfterRaise(w)]
               /\ RestoreClaim(w) \/ Keep(w) \/ (pend[w] = Owned(w) /\ Unlink(w))
               /\ UNCHANGED <<old, claim>>
      <4>1. pc'[w] # pc[w]
        BY <3>2 DEF AfterRaise, TypeOK
      <4> QED
        BY <2>5, <3>2, <4>1
    <3> QED
      BY <2>10, <3>1, <3>2 DEF Fault
  <2>11. ASSUME NEW f \in Foreign, Replace(f)
         PROVE  FALSE
    BY <2>11 DEF Replace
  <2>12. CASE UNCHANGED vars
    BY <2>c, <2>12 DEF vars
  <2> QED
    BY <2>1, <2>2, <2>3, <2>4, <2>6, <2>7, <2>8, <2>9, <2>10, <2>11, <2>12 DEF Next, WriterStep
<1>2. PublishInv /\ PublishInv' /\ [Next]_vars =>
        [\A g \in Generations :
           Links(g)' < Links(g) =>
              \/ last' # last
              \/ \E w \in Writers : pc'[w] # pc[w] /\ g \in {w, expected[w]}]_vars
  BY <1>1
<1> QED
  BY <1>2, PublishInvariant, PTL DEF Spec, OnlyOwnedUnlinked

-----------------------------------------------------------------------------
(***************************************************************************)
(* One command alone.  A writer that has not begun holds nothing, so the    *)
(* names of a generation are those of the one that has: SoloLinks.  Then    *)
(* the public name, the claims and the link count it saw are known at each  *)
(* of its steps, on the way forward and, after one fault, on the way back.  *)
(***************************************************************************)

(* A writer that has not begun.                                             *)
IdleInv ==
    \A w \in Writers : pc[w] = "idle" =>
        ~claim[w] /\ old[w] = None /\ pend[w] = None /\ expected[w] = None

Forward ==
    {"idle", "check", "linkOld", "take", "settle", "readOld", "publish", "unclaim", "confirm",
     "verify", "finalize"}

Backward == {"withdraw", "resettle", "restore", "discard", "drop", "failed"}

(* What the writer claimed as its predecessor is identified, or nothing is. *)
Sure(w) == pc[w] \in Forward \/ reached[w] # "start" \/ old[w] = None

(* Where the document is.                                                   *)
PlaceAt(w) ==
    /\ pc[w] \in {"idle", "check", "linkOld", "take", "discard"} => public = base
    /\ pc[w] \in {"settle", "readOld", "publish", "resettle"} => public = None
    /\ pc[w] \in {"unclaim", "confirm", "verify", "finalize", "withdraw"} => public = w
    /\ pc[w] = "restore" /\ Sure(w) => public = IF reached[w] = "start" THEN base ELSE None
    /\ pc[w] \in {"drop", "failed"} /\ Sure(w) => public = base
    /\ pc[w] \in {"restore", "drop", "failed"} /\ ~Sure(w) => public \in {base, None} /\ old[w] = base

(* What the writer holds, and what it saw of it.                            *)
ClaimAt(w) ==
    /\ pc[w] \in Forward \ {"idle"} => expected[w] = base
    /\ pc[w] \in {"take", "settle", "readOld", "publish", "unclaim", "confirm", "verify", "finalize",
                  "withdraw", "resettle", "discard"} => old[w] = base
    /\ pc[w] = "restore" /\ reached[w] # "start" => old[w] = base
    /\ pc[w] = "settle" => pend[w] = base /\ seen[w] = 2
    /\ pc[w] = "resettle" => pend[w] = w /\ seen[w] = IF claim[w] THEN 2 ELSE 1
    /\ pc[w] \in {"idle", "check", "confirm", "verify", "finalize", "failed"} => ~claim[w]
    /\ pc[w] \in {"drop", "failed"} /\ Sure(w) => old[w] = None

SoloAt(w) ==
    /\ pc[w] \in Forward => faults = 0
    /\ pc[w] \in Backward => faults = 1
    /\ pc[w] \in Forward \cup Backward =>
        /\ PlaceAt(w) /\ ClaimAt(w)
        /\ kept[w] = 0
        /\ Sure(w) => kept[First] = 0
    /\ base = First /\ pc[w] # "committed" => First \in {public, old[w], pend[w]}
    /\ pc[w] = "committed" => public = w

(* One command is at work, with one fault at most.                          *)
Alone(w) == Solo(w) /\ last = None /\ faults <= 1

SoloInv == \A w \in Writers : Alone(w) => SoloAt(w)

(* The last document of another program is at the public name, or on its    *)
(* way back to it.                                                          *)
LaterInv ==
    \A w \in Writers : Solo(w) /\ faults = 0 /\ last # None /\ expected[w] # last =>
        \/ public = last
        \/ public = None /\ pend[w] = last /\ pc[w] \in {"settle", "resettle", "crashed"}


(* A step of a writer touches its own names alone, and a writer that has    *)
(* begun never waits again.                                                 *)
LEMMA WriterMoves ==
    ASSUME TypeOK, NEW w \in Writers, WriterStep(w) \/ Fault(w) \/ Crash(w)
    PROVE  /\ pc[w] # "idle" \/ ReadExpected(w)
           /\ pc'[w] # "idle"
           /\ UNCHANGED <<base, last>>
           /\ \A v \in Writers \ {w} :
                /\ pc'[v] = pc[v] /\ claim'[v] = claim[v] /\ old'[v] = old[v]
                /\ pend'[v] = pend[v] /\ expected'[v] = expected[v]
<1> USE DEF Goto, Raise
<1>1. CASE ReadExpected(w) \/ CheckAndStage(w) \/ LinkOld(w)
  BY <1>1 DEF ReadExpected, CheckAndStage, LinkOld, TypeOK
<1>2. CASE Take(w)
  BY <1>2 DEF Take, AfterRemoval, TypeOK
<1>3. CASE Settle(w)
  BY <1>3 DEF Settle, AfterRemoval, AfterRaise, Unlink, RestoreClaim, TypeOK
<1>4. CASE ReadOld(w) \/ Publish(w) \/ Unclaim(w)
  BY <1>4 DEF ReadOld, Publish, Unclaim, TypeOK
<1>5. CASE Confirm(w) \/ Verify(w) \/ Finalize(w)
  BY <1>5 DEF Confirm, Verify, Finalize, TypeOK
<1>6. CASE RestoreOld(w) \/ DiscardOld(w) \/ DropClaim(w)
  BY <1>6 DEF RestoreOld, DiscardOld, DropClaim, TypeOK
<1>7. CASE Fault(w)
  <2>1. CASE UNCHANGED <<pend, old, claim>>
    BY <1>7, <2>1 DEF Fault, AfterRaise, TypeOK
  <2>2. CASE pc[w] \in {"settle", "resettle"}
    <3>1. UNCHANGED <<old, claim, base, last, expected>> /\ pc' = [pc EXCEPT ![w] = AfterRaise(w)]
      BY <1>7, <2>2 DEF Fault
    <3>2. pend' = [pend EXCEPT ![w] = None]
      BY <1>7, <2>2 DEF Fault, RestoreClaim, Keep, Unlink
    <3> QED
      BY <2>2, <3>1, <3>2 DEF AfterRaise, TypeOK
  <2> QED
    BY <1>7, <2>1, <2>2 DEF Fault
<1>8. CASE Crash(w)
  BY <1>8 DEF Crash, TypeOK
<1> QED
  BY <1>1, <1>2, <1>3, <1>4, <1>5, <1>6, <1>7, <1>8 DEF WriterStep

(* A writer that has not begun holds nothing, at every step.                *)
LEMMA IdleInvStep ==
    ASSUME TypeOK, IdleInv, [Next]_vars
    PROVE  IdleInv'
<1>1. ASSUME NEW w \in Writers, WriterStep(w) \/ Fault(w) \/ Crash(w)
      PROVE  IdleInv'
  BY <1>1, WriterMoves DEF IdleInv
<1>2. ASSUME NEW f \in Foreign, Replace(f)
      PROVE  IdleInv'
  BY <1>2 DEF Replace, IdleInv
<1>3. CASE UNCHANGED vars
  BY <1>3 DEF vars, IdleInv
<1> QED
  BY <1>1, <1>2, <1>3 DEF Next

(* When one writer alone has begun, nobody else holds a name.               *)
LEMMA SoloHolders ==
    ASSUME NEW w \in Writers, NEW f, NEW g \in Generations,
           \A v \in Writers \ {w} : f[v] = None
    PROVE  Cardinality(Holders(f, g)) = AtName(f[w], g)
<1>1. None # g
  BY PublishAssumption DEF Generations
<1>2. CASE f[w] = g
  <2>1. Holders(f, g) = {w}
    BY <1>1, <1>2 DEF Holders
  <2>2. Cardinality({w}) = 1
    BY FS_Singleton
  <2> QED
    BY <1>2, <2>1, <2>2 DEF AtName
<1>3. CASE f[w] # g
  <2>1. Holders(f, g) = {}
    BY <1>1, <1>3 DEF Holders
  <2>2. Cardinality({}) = 0
    BY FS_EmptySet
  <2> QED
    BY <1>3, <2>1, <2>2 DEF AtName
<1> QED
  BY <1>2, <1>3

(* The links of a generation when one writer alone has begun.               *)
LEMMA SoloLinks ==
    ASSUME IdleInv, NEW w \in Writers, Solo(w), NEW g \in Generations
    PROVE  Links(g) = AtName(public, g) + (IF g = w /\ claim[w] THEN 1 ELSE 0)
                        + AtName(old[w], g) + AtName(pend[w], g) + kept[g]
<1>1. \A v \in Writers \ {w} : ~claim[v] /\ old[v] = None /\ pend[v] = None
  BY DEF IdleInv, Solo
<1>2. /\ Cardinality(Holders(old, g)) = AtName(old[w], g)
      /\ Cardinality(Holders(pend, g)) = AtName(pend[w], g)
  BY <1>1, SoloHolders
<1>3. (IF g \in Writers /\ claim[g] THEN 1 ELSE 0) = (IF g = w /\ claim[w] THEN 1 ELSE 0)
  BY <1>1
<1> QED
  BY <1>2, <1>3, LinksCounts DEF AtName

(* A step of a writer leaves every other one waiting that was.              *)
LEMMA SoloStep ==
    ASSUME TypeOK, [Next]_vars, NEW w \in Writers, Solo(w)'
    PROVE  /\ Solo(w)
           /\ \/ WriterStep(w) \/ Fault(w) \/ Crash(w)
              \/ \E f \in Foreign : Replace(f)
              \/ UNCHANGED vars
<1>1. ASSUME NEW v \in Writers, WriterStep(v) \/ Fault(v) \/ Crash(v)
      PROVE  v = w /\ Solo(w)
  <2>1. pc'[v] # "idle" /\ \A u \in Writers \ {v} : pc'[u] = pc[u]
    BY <1>1, WriterMoves
  <2>2. v = w
    BY <2>1 DEF Solo
  <2> QED
    BY <2>1, <2>2 DEF Solo
<1>2. ASSUME NEW f \in Foreign, Replace(f)
      PROVE  Solo(w)
  BY <1>2 DEF Replace, Solo
<1>3. ASSUME UNCHANGED vars
      PROVE  Solo(w)
  BY <1>3 DEF vars, Solo
<1> QED
  BY <1>1, <1>2, <1>3 DEF Next

(* The document of another program is not lost, at every step.              *)
LEMMA LaterInvStep ==
    ASSUME TypeOK, StepInv, IdleInv, LaterInv, [Next]_vars
    PROVE  LaterInv'
<1> SUFFICES ASSUME NEW w \in Writers, Solo(w)', faults' = 0, last' # None, expected'[w] # last'
             PROVE  \/ public' = last'
                    \/ public' = None /\ pend'[w] = last' /\ pc'[w] \in {"settle", "resettle", "crashed"}
  BY DEF LaterInv
<1>0. Solo(w)
  BY SoloStep
<1>1. ASSUME NEW f \in Foreign, Replace(f)
      PROVE  public' = last'
  BY <1>1 DEF Replace
<1>2. CASE UNCHANGED vars
  BY <1>0, <1>2 DEF vars, LaterInv
<1>3. CASE Fault(w)
  BY <1>3 DEF Fault, TypeOK
<1>4. CASE WriterStep(w) \/ Crash(w)
  <2>1. last' = last /\ last \in Foreign /\ last # w
    BY <1>4, WriterMoves, PublishAssumption DEF TypeOK
  <2>2. faults = 0
    BY <1>4 DEF WriterStep, Crash, ReadExpected, CheckAndStage, LinkOld, Take, Settle, ReadOld, Publish,
                Unclaim, Confirm, Verify, Finalize, RestoreOld, DiscardOld, DropClaim
  <2>3. ~ReadExpected(w) => expected' = expected
    BY <1>4 DEF WriterStep, Crash, CheckAndStage, LinkOld, Take, Settle, ReadOld, Publish,
                Unclaim, Confirm, Verify, Finalize, RestoreOld, DiscardOld, DropClaim
  <2>4. expected[w] # last
    BY <2>1, <2>3 DEF ReadExpected, IdleInv
  <2>5. \/ public = last
        \/ public = None /\ pend[w] = last /\ pc[w] \in {"settle", "resettle", "crashed"}
    BY <1>0, <2>1, <2>2, <2>4 DEF LaterInv
  <2> USE <2>1, <2>4, <2>5 DEF Goto, Raise
  <2>6. CASE ReadExpected(w) \/ CheckAndStage(w) \/ LinkOld(w) \/ ReadOld(w) \/ Unclaim(w) \/ Confirm(w)
             \/ Verify(w) \/ Finalize(w) \/ RestoreOld(w) \/ DiscardOld(w) \/ DropClaim(w)
    BY <2>6 DEF ReadExpected, CheckAndStage, LinkOld, ReadOld, Unclaim, Confirm, Verify, Finalize,
                RestoreOld, DiscardOld, DropClaim
  <2>7. CASE Take(w)
    BY <2>7 DEF Take, Withdrawing, TypeOK
  <2>8. CASE Publish(w)
    BY <2>8 DEF Publish
  <2>9. CASE Settle(w)
    BY <2>9 DEF Settle, Owned, Unlink, RestoreClaim
  <2>10. CASE Crash(w)
    BY <2>10 DEF Crash, TypeOK
  <2> QED
    BY <1>4, <2>6, <2>7, <2>8, <2>9, <2>10 DEF WriterStep
<1> QED
  BY <1>1, <1>2, <1>3, <1>4, SoloStep

(* The invariants of a command alone are invariants of the specification.   *)
LEMMA LaterInvariant == Spec => [](IdleInv /\ LaterInv)
<1>1. Init => IdleInv /\ LaterInv
  BY DEF Init, IdleInv, LaterInv
<1>2. PublishInv /\ IdleInv /\ LaterInv /\ [Next]_vars => (IdleInv /\ LaterInv)'
  BY IdleInvStep, LaterInvStep DEF PublishInv
<1> QED
  BY <1>1, <1>2, PublishInvariant, PTL DEF Spec

(* "A later destination writer wins": when one command has ended without a  *)
(* fault, the last document another program put at the public name is there *)
(* unless the command read it and replaced it (remove_owned_at and          *)
(* restore_claim, fs_security.py; restore_old_claim, evidence.py).          *)
THEOREM LaterWritersWin == Spec => []LaterWriterWins
<1>1. LaterInv => LaterWriterWins
  BY DEF LaterInv, LaterWriterWins
<1> QED
  BY <1>1, LaterInvariant, PTL

(* What a command alone finds when it reads, takes and settles.             *)
LEMMA SoloFinds ==
    ASSUME PublishInv, IdleInv, NEW w \in Writers, Alone(w), SoloAt(w)
    PROVE  /\ pc[w] \in {"idle", "check"} /\ base = First => Readable(First)
           /\ pc[w] = "take" /\ base = First => Links(First) = 2
           /\ pc[w] = "settle" /\ base = First => Links(First) = 2
           /\ pc[w] = "readOld" /\ base = First => Readable(First)
           /\ pc[w] = "withdraw" => Links(w) = IF claim[w] THEN 2 ELSE 1
           /\ pc[w] = "resettle" => Links(w) = IF claim[w] THEN 2 ELSE 1
           /\ pc[w] \in {"confirm", "verify"} => Readable(w)
           /\ pc[w] = "restore" /\ base = First /\ reached[w] # "start" => Readable(First)
<1> USE PublishAssumption DEF PublishInv
<1>1. First \in Generations /\ w \in Generations /\ w # First /\ w # None /\ First # None /\ base \in {First, None}
  BY DEF Generations, TypeOK
<1>2. Solo(w)
  BY DEF Alone
<1>3. Links(First) = AtName(public, First) + AtName(old[w], First) + AtName(pend[w], First) + kept[First]
  <2>1. Links(First) = AtName(public, First) + 0 + AtName(old[w], First) + AtName(pend[w], First) + kept[First]
    BY <1>1, <1>2, SoloLinks
  <2>2. kept[First] \in Nat /\ AtName(public, First) \in Nat /\ AtName(old[w], First) \in Nat
        /\ AtName(pend[w], First) \in Nat
    BY <1>1 DEF TypeOK, AtName
  <2> QED
    BY <2>1, <2>2
<1>4. Links(w) = AtName(public, w) + (IF claim[w] THEN 1 ELSE 0) + AtName(old[w], w) + AtName(pend[w], w) + kept[w]
  BY <1>1, <1>2, SoloLinks
<1>5. pc[w] \notin {"settle", "resettle", "crashed"} => pend[w] = None
  BY DEF StepInv
<1>6. pc[w] \in {"idle", "check"} => old[w] = None
  BY DEF StepInv
<1> USE <1>1, <1>3, <1>4, <1>5, <1>6 DEF SoloAt, PlaceAt, ClaimAt, Sure, Forward, Backward, AtName, Readable
<1>7. pc[w] \in {"idle", "check"} /\ base = First => Readable(First)
  OBVIOUS
<1>8. pc[w] = "take" /\ base = First => Links(First) = 2
  OBVIOUS
<1>9. pc[w] = "settle" /\ base = First => Links(First) = 2
  OBVIOUS
<1>10. pc[w] = "readOld" /\ base = First => Readable(First)
  OBVIOUS
<1>11. pc[w] = "withdraw" => Links(w) = IF claim[w] THEN 2 ELSE 1
  BY DEF StepInv, Published
<1>12. pc[w] = "resettle" => Links(w) = IF claim[w] THEN 2 ELSE 1
  BY DEF StepInv, Published
<1>13. pc[w] \in {"confirm", "verify"} => Readable(w)
  OBVIOUS
<1>14. pc[w] = "restore" /\ base = First /\ reached[w] # "start" => Readable(First)
  OBVIOUS
<1> QED
  BY <1>7, <1>8, <1>9, <1>10, <1>11, <1>12, <1>13, <1>14

(* A step of the command that is alone.                                     *)
LEMMA SoloWriterStep ==
    ASSUME PublishInv, IdleInv, NEW w \in Writers, Alone(w), SoloAt(w), faults' <= 1,
           WriterStep(w) \/ Fault(w) \/ Crash(w)
    PROVE  SoloAt(w)'
<1> USE PublishAssumption DEF PublishInv, Goto, Raise, SoloAt, PlaceAt, ClaimAt, Sure, Forward, Backward
<1>0. /\ First # w /\ None # w /\ First # None /\ base \in {First, None}
      /\ First \in Generations /\ w \in Generations
  BY DEF Generations, TypeOK
<1>1. CASE ReadExpected(w)
  BY <1>0, <1>1, SoloFinds DEF ReadExpected, StepInv, TypeOK, Early, IdleInv
<1>2. CASE CheckAndStage(w)
  BY <1>0, <1>2, SoloFinds DEF CheckAndStage, StepInv, TypeOK, Early, Holds
<1>3. CASE LinkOld(w)
  BY <1>0, <1>3 DEF LinkOld, StepInv, TypeOK, Early
<1>4. CASE Take(w)
  BY <1>0, <1>4, SoloFinds DEF Take, Withdrawing, AfterRemoval, StepInv, TypeOK, Early, Published
<1>5. CASE Settle(w)
  BY <1>0, <1>5, SoloFinds DEF Settle, Withdrawing, AfterRemoval, AfterRaise, Owned, Unlink, RestoreClaim,
     StepInv, TypeOK, Early, Published
<1>6. CASE ReadOld(w)
  BY <1>0, <1>6, SoloFinds DEF ReadOld, StepInv, TypeOK, Early
<1>7. CASE Publish(w)
  BY <1>0, <1>7 DEF Publish, StepInv, TypeOK
<1>8. CASE Unclaim(w)
  BY <1>0, <1>8 DEF Unclaim, StepInv, TypeOK, Published
<1>9. CASE Confirm(w)
  BY <1>0, <1>9, SoloFinds DEF Confirm, StepInv, TypeOK, Published, Holds
<1>10. CASE Verify(w)
  BY <1>0, <1>10, SoloFinds DEF Verify, StepInv, TypeOK, Published, Holds
<1>11. CASE Finalize(w)
  BY <1>0, <1>11 DEF Finalize, StepInv, TypeOK
<1>12. CASE RestoreOld(w)
  BY <1>0, <1>12, SoloFinds DEF RestoreOld, StepInv, TypeOK
<1>13. CASE DiscardOld(w)
  BY <1>0, <1>13 DEF DiscardOld, StepInv, TypeOK
<1>14. CASE DropClaim(w)
  BY <1>0, <1>14 DEF DropClaim, StepInv, TypeOK
<1>15. CASE Fault(w)
  <2>1. faults = 0 /\ faults' = 1
    BY <1>15 DEF Fault, TypeOK, Alone
  <2>2. CASE UNCHANGED <<public, pend, kept, old, claim>>
    <3>1. UNCHANGED <<base, expected, seen, reached, public, pend, kept, old, claim>>
      BY <1>15, <2>2 DEF Fault
    <3>2. pc[w] \in Forward \ {"idle", "settle"}
      <4>1. pc[w] \notin Backward
        BY <2>1
      <4>2. pc[w] # "settle"
        <5>1. pc[w] = "settle" => pend[w] # None /\ pend' = [pend EXCEPT ![w] = None]
          BY <1>15 DEF Fault, StepInv, RestoreClaim, Keep, Unlink
        <5> QED
          BY <2>2, <5>1 DEF TypeOK
      <4>3. pc[w] \in {"check", "linkOld", "take", "readOld", "publish", "unclaim", "confirm", "verify",
                       "finalize", "withdraw", "settle", "resettle", "restore", "discard", "drop"}
        BY <1>15 DEF Fault
      <4> QED
        BY <4>1, <4>2, <4>3
    <3>3. CASE pc[w] = "check"
      BY <1>0, <1>15, <2>1, <3>1, <3>3 DEF Fault, StepInv, TypeOK, Early
    <3>4. CASE pc[w] \in {"linkOld", "take", "readOld"}
      <4>1. pc' = [pc EXCEPT ![w] = "restore"] /\ reached[w] = "start"
        BY <1>15, <3>4 DEF Fault, StepInv, Early
      <4> QED
        BY <1>0, <2>1, <3>1, <3>4, <4>1 DEF StepInv, TypeOK, Early
    <3>5. CASE pc[w] = "publish"
      <4>1. pc' = [pc EXCEPT ![w] = "restore"] /\ reached[w] \in {"start", "known"}
        BY <1>15, <3>5 DEF Fault, StepInv
      <4> QED
        BY <1>0, <2>1, <3>1, <3>5, <4>1 DEF StepInv, TypeOK
    <3>6. CASE pc[w] \in {"unclaim", "confirm", "verify", "finalize"}
      <4>1. pc' = [pc EXCEPT ![w] = "withdraw"] /\ reached[w] \in Published
        BY <1>15, <3>6 DEF Fault, StepInv, Published
      <4> QED
        BY <1>0, <2>1, <3>1, <3>6, <4>1 DEF StepInv, TypeOK, Published
    <3> QED
      BY <3>2, <3>3, <3>4, <3>5, <3>6
  <2>3. CASE pc[w] = "settle"
    BY <1>0, <1>15, <2>1, <2>3 DEF Fault, AfterRaise, Withdrawing, RestoreClaim, Keep, Unlink, Owned, StepInv,
       TypeOK, Early
  <2> QED
    BY <1>15, <2>1, <2>2, <2>3 DEF Fault
<1>16. CASE Crash(w)
  BY <1>0, <1>16 DEF Crash, TypeOK
<1> QED
  BY <1>1, <1>2, <1>3, <1>4, <1>5, <1>6, <1>7, <1>8, <1>9, <1>10, <1>11, <1>12, <1>13, <1>14, <1>15, <1>16 DEF WriterStep

(* A command that is alone finds everything where it must be.               *)
LEMMA SoloInvStep ==
    ASSUME PublishInv, IdleInv, SoloInv, [Next]_vars
    PROVE  SoloInv'
<1> SUFFICES ASSUME NEW w \in Writers, Alone(w)'
             PROVE  SoloAt(w)'
  BY DEF SoloInv
<1> USE DEF PublishInv
<1>1. Solo(w)
  BY SoloStep DEF Alone
<1>2. ASSUME NEW f \in Foreign, Replace(f)
      PROVE  FALSE
  BY <1>2, PublishAssumption DEF Replace, Alone
<1>3. CASE UNCHANGED vars
  <2>1. SoloAt(w)
    BY <1>1, <1>3 DEF vars, Alone, SoloInv
  <2> QED
    BY <1>3, <2>1 DEF vars, SoloAt, PlaceAt, ClaimAt, Sure, Forward, Backward
<1>4. CASE WriterStep(w) \/ Fault(w) \/ Crash(w)
  <2>1. last = None
    BY <1>4, WriterMoves DEF Alone
  <2>2. faults \in Nat /\ (faults' = faults \/ faults' = faults + 1)
    <3>1. faults \in Nat
      BY PublishAssumption DEF TypeOK
    <3>2. faults' = faults \/ faults' = faults + 1
      BY <1>4 DEF WriterStep, Fault, Crash, ReadExpected, CheckAndStage, LinkOld, Take, Settle, ReadOld, Publish,
                  Unclaim, Confirm, Verify, Finalize, RestoreOld, DiscardOld, DropClaim
    <3> QED
      BY <3>1, <3>2
  <2>3. faults' <= 1
    BY DEF Alone
  <2>4. Alone(w)
    BY <1>1, <2>1, <2>2, <2>3 DEF Alone
  <2> QED
    BY <1>4, <2>3, <2>4, SoloWriterStep DEF SoloInv
<1> QED
  BY <1>1, <1>2, <1>3, <1>4, SoloStep DEF Alone

(* SoloInv is an invariant of the specification.                            *)
LEMMA SoloInvariant == Spec => []SoloInv
<1>1. Init => SoloInv
  <2> SUFFICES ASSUME Init, NEW w \in Writers
               PROVE  SoloAt(w)
    BY DEF SoloInv
  <2>1. /\ pc[w] = "idle" /\ faults = 0 /\ public = base /\ ~claim[w]
        /\ kept[First] = 0 /\ kept[w] = 0
    BY DEF Init, Generations
  <2> QED
    BY <2>1 DEF SoloAt, PlaceAt, ClaimAt, Sure, Forward, Backward
<1>2. PublishInv /\ IdleInv /\ SoloInv /\ [Next]_vars => SoloInv'
  BY SoloInvStep
<1> QED
  BY <1>1, <1>2, PublishInvariant, LaterInvariant, PTL DEF Spec

(* While one command is at work its predecessor survives a failure and a    *)
(* kill, wherever they fall (_write_bytes_at and its rollback, evidence.py).*)
THEOREM PredecessorsAreKept == Spec => []PredecessorKept
<1>1. PublishInv /\ IdleInv /\ SoloInv => PredecessorKept
  <2> SUFFICES ASSUME PublishInv, IdleInv, SoloInv, NEW w \in Writers, Solo(w), base = First, last = None,
                      faults <= 1, pc[w] # "committed"
               PROVE  Links(First) >= 1
    BY DEF PredecessorKept
  <2>1. First \in {public, old[w], pend[w]}
    BY DEF SoloInv, Alone, SoloAt
  <2>2. First \in Generations /\ First # w
    BY PublishAssumption DEF Generations
  <2>3. Links(First) = AtName(public, First) + 0 + AtName(old[w], First) + AtName(pend[w], First) + kept[First]
    BY <2>2, SoloLinks
  <2>4. kept[First] \in Nat
    BY <2>2 DEF PublishInv, TypeOK
  <2> QED
    BY <2>1, <2>3, <2>4 DEF AtName
<1> QED
  BY <1>1, PublishInvariant, LaterInvariant, SoloInvariant, PTL

(* A command that one fault made fail leaves no link of its own document.   *)
(* It leaves public name and predecessor as it found them, or, when the     *)
(* fault fell before it had identified its predecessor, a claim that keeps  *)
(* the predecessor while its public name may be gone (rollback_publication, *)
(* restore_old_claim, evidence.py).                                         *)
THEOREM RollbackIsComplete == Spec => []RollbackRestores
<1>1. PublishInv /\ IdleInv /\ SoloInv => RollbackRestores
  <2> SUFFICES ASSUME PublishInv, IdleInv, SoloInv, NEW w \in Writers, Solo(w), last = None, faults <= 1,
                      pc[w] = "failed"
               PROVE  /\ Links(w) = 0
                      /\ \/ public = base /\ old[w] = None /\ (base = First => Links(First) = 1)
                         \/ /\ reached[w] = "start" /\ old[w] = First
                            /\ public \in {First, None}
    BY DEF RollbackRestores
  <2>1. /\ PlaceAt(w) /\ ClaimAt(w) /\ kept[w] = 0
        /\ Sure(w) => kept[First] = 0
    BY DEF SoloInv, Alone, SoloAt, Backward
  <2>2. ~claim[w] /\ pend[w] = None
    BY <2>1 DEF ClaimAt, PublishInv, StepInv
  <2>3. /\ First \in Generations /\ w \in Generations /\ First # w /\ First # None /\ None # w
        /\ base \in {First, None}
    BY PublishAssumption DEF Generations, PublishInv, TypeOK
  <2>4. \/ Sure(w) /\ public = base /\ old[w] = None
        \/ /\ ~Sure(w) /\ old[w] = base /\ reached[w] = "start" /\ base = First
           /\ public \in {First, None}
    BY <2>1, <2>3 DEF PlaceAt, ClaimAt, Sure
  <2>5. Links(First) = AtName(public, First) + 0 + AtName(old[w], First) + AtName(pend[w], First) + kept[First]
    BY <2>3, SoloLinks
  <2>6. Links(w) = AtName(public, w) + 0 + AtName(old[w], w) + AtName(pend[w], w) + kept[w]
    BY <2>2, <2>3, SoloLinks
  <2>7. Links(w) = 0
    BY <2>1, <2>2, <2>3, <2>4, <2>6 DEF AtName
  <2>8. Sure(w) /\ base = First => Links(First) = 1
    BY <2>1, <2>2, <2>3, <2>4, <2>5 DEF AtName
  <2> QED
    BY <2>4, <2>7, <2>8
<1> QED
  BY <1>1, PublishInvariant, LaterInvariant, SoloInvariant, PTL

(* What of NameSurvives holds of a command that was alone: without a fault  *)
(* it does not fail, and its document is in place when it has committed;    *)
(* when one fault made it fail, the predecessor is in place or, its name    *)
(* gone, under the claim the command could not identify.                    *)
AloneNameSurvives ==
    \A w \in Writers :
        Alone(w) /\ base = First =>
            /\ pc[w] = "committed" => public = w
            /\ faults = 0 => pc[w] # "failed"
            /\ pc[w] = "failed" => public = First \/ (public = None /\ old[w] = First)

(* With no other command, no other program and no fault at work, the        *)
(* document is in its place when the command ends; one fault may leave the  *)
(* name empty, with the document under a claim (_write_bytes_at,            *)
(* evidence.py).                                                            *)
THEOREM AloneKeepsTheDocument == Spec => []AloneNameSurvives
<1>1. SoloInv => AloneNameSurvives
  <2> SUFFICES ASSUME NEW w \in Writers, Alone(w), base = First, SoloAt(w)
               PROVE  /\ pc[w] = "committed" => public = w
                      /\ faults = 0 => pc[w] # "failed"
                      /\ pc[w] = "failed" => public = First \/ (public = None /\ old[w] = First)
    BY DEF SoloInv, AloneNameSurvives
  <2>1. pc[w] = "failed" => PlaceAt(w) /\ faults = 1
    BY DEF SoloAt, Backward
  <2>2. ASSUME pc[w] = "failed"
        PROVE  public = First \/ (public = None /\ old[w] = First)
    <3>1. public = base \/ (public \in {base, None} /\ old[w] = base)
      BY <2>1, <2>2 DEF PlaceAt, Sure
    <3> QED
      BY <3>1
  <2> QED
    BY <2>1, <2>2 DEF SoloAt
<1> QED
  BY <1>1, SoloInvariant, PTL
=============================================================================
