----------------------------- MODULE StoreProofs -----------------------------
(***************************************************************************)
(* Theorems about the configuration store and about the apply pipeline     *)
(* over it, for every set of bodies, managed blocks, values and concurrent *)
(* requests, and every bound.                                              *)
(***************************************************************************)
EXTENDS ApplyPipeline, TLAPS
USE StoreAssumption

-----------------------------------------------------------------------------
(* Type correctness.                                                         *)

MemType ==
    /\ active \in Doc /\ disk \in Doc
    /\ draft \in Doc \cup {NoDoc} /\ draftFile \in Doc \cup {NoDoc}
    /\ gen \in Nat /\ readOnly \in BOOLEAN

CallType ==
    /\ pc \in [Clients -> {"idle", "begun", "capture", "checking", "save"}]
    /\ callGen \in [Clients -> Nat]
    /\ checked \in [Clients -> Doc \cup {NoDoc}]

\* Whatever branch saveDraftToDisk takes, the four variables it may assign
\* keep their types.
LEMMA StageType ==
    ASSUME MemType, NEW staged \in Doc, NEW final \in Doc, NEW n \in Nat,
           Stage(staged, final, n), UNCHANGED <<active, disk>>
    PROVE  MemType'
<1>1. /\ active' \in Doc /\ disk' \in Doc
      /\ draft' \in Doc \cup {NoDoc} /\ draftFile' \in Doc \cup {NoDoc}
      /\ gen' \in Nat
  BY SMT DEF MemType, Stage, DropDraft
<1>2. readOnly' \in BOOLEAN
  BY Zenon DEF MemType, Stage
<1> QED BY <1>1, <1>2 DEF MemType

\* The same for the write of config.json.
LEMMA PublishType ==
    ASSUME MemType, NEW d \in Doc, Publish(d)
    PROVE  MemType'
<1>1. /\ active' \in Doc /\ disk' \in Doc
      /\ draft' \in Doc \cup {NoDoc} /\ draftFile' \in Doc \cup {NoDoc}
      /\ gen' \in Nat
  BY SMT DEF MemType, Publish, DropDraft, memVars, diskVars
<1>2. readOnly' \in BOOLEAN
  BY Zenon DEF MemType, Publish, memVars, Probe
<1> QED BY <1>1, <1>2 DEF MemType

LEMMA WorkingType ==
    ASSUME MemType
    PROVE  Working \in Doc
  BY DEF MemType, Working

LEMMA UpdateType ==
    ASSUME NEW d \in Doc
    PROVE  /\ \A b \in Bodies : [d EXCEPT !.body = b] \in Doc
           /\ \A b \in Blocks, v \in Vals : [d EXCEPT !.block[b] = v] \in Doc
  BY DEF Doc

\* Type correctness (TypeOK): every variable keeps its type whatever the
\* requests, the background writers, the filesystem and restarts do.
THEOREM TypeCorrect == Spec => []TypeOK
<1>1. Init => TypeOK
  BY DEF Init, TypeOK, FirstGen, Doc, Probe
<1>2. TypeOK /\ [Next]_vars => TypeOK'
  <2> SUFFICES ASSUME TypeOK, [Next]_vars PROVE TypeOK'
    OBVIOUS
  <2> USE DEF TypeOK
  <2>0. MemType /\ CallType
    BY DEF MemType, CallType
  <2>1. ASSUME NEW b \in Bodies, Edit(b) PROVE TypeOK'
    <3>1. MemType'
      BY <2>0, <2>1, WorkingType, UpdateType, StageType, SMT
         DEF Edit, StageEdit, MemType
    <3> QED BY <2>1, <3>1 DEF Edit, Operation, MemType, callVars
  <2>2. CASE EditNothing
    <3>1. MemType'
      BY <2>0, <2>2, StageType DEF EditNothing
    <3> QED BY <2>2, <3>1 DEF EditNothing, Operation, MemType, callVars
  <2>3. ASSUME NEW d \in Doc, SetDraft(d) PROVE TypeOK'
    <3>1. MemType'
      BY <2>0, <2>3, StageType DEF SetDraft
    <3> QED BY <2>3, <3>1 DEF SetDraft, Operation, MemType, callVars
  <2>4. CASE DiscardDraft
    BY <2>4 DEF DiscardDraft, DropDraft, Operation, callVars
  <2>5. CASE ApplyDraft
    <3>1. MemType'
      BY <2>0, <2>5, PublishType DEF ApplyDraft, MemType
    <3> QED BY <2>5, <3>1 DEF ApplyDraft, Operation, MemType, callVars
  <2>6. ASSUME NEW b \in Blocks, NEW v \in Vals, SyncBlock(b, v) PROVE TypeOK'
    <3>1. MemType'
      <4>1. CASE Writes(b, v)
        BY <2>0, <4>1, UpdateType, PublishType DEF Writes
      <4>2. CASE Declines(b, v) /\ UNCHANGED <<active, draft, gen, diskVars>>
        BY <2>0, <4>2 DEF Declines, MemType, diskVars
      <4> QED BY <2>6, <4>1, <4>2 DEF SyncBlock, SyncWrite
    <3> QED BY <2>6, <3>1 DEF SyncBlock, Operation, MemType, callVars
  <2>7. ASSUME NEW c \in Clients, BeginApply(c) PROVE TypeOK'
    BY <2>7 DEF BeginApply, Operation, Return, Goto, memVars, diskVars
  <2>8. ASSUME NEW c \in Clients, LookForDraft(c) PROVE TypeOK'
    BY <2>8 DEF LookForDraft, Return, Goto, memVars, diskVars
  <2>9. ASSUME NEW c \in Clients, CaptureDraft(c) PROVE TypeOK'
    BY <2>9 DEF CaptureDraft, Return, Goto, memVars, diskVars
  <2>10. ASSUME NEW c \in Clients, RunCheck(c) PROVE TypeOK'
    BY <2>10 DEF RunCheck, CheckPasses, Return, Goto, memVars, diskVars
  <2>11. ASSUME NEW c \in Clients, RefusePaths(c) PROVE TypeOK'
    BY <2>11 DEF RefusePaths, Return, Goto, memVars, diskVars
  <2>12. ASSUME NEW c \in Clients, SaveApply(c) PROVE TypeOK'
    <3>1. MemType'
      <4>1. CASE ~GenMatches(c) /\ UNCHANGED <<memVars, diskVars>>
        BY <2>0, <4>1 DEF MemType, memVars, diskVars
      <4>2. CASE GenMatches(c) /\ Publish(Working)
        BY <2>0, <4>2, WorkingType, PublishType
      <4> QED BY <2>12, <4>1, <4>2 DEF SaveApply, SaveIfGen
    <3> QED BY <2>12, <3>1 DEF SaveApply, Return, Goto, MemType
  <2>13. CASE StatusPoll
    BY <2>13 DEF StatusPoll, diskVars, callVars
  <2>14. ASSUME NEW f \in FsStates, FsChange(f) PROVE TypeOK'
    BY <2>14 DEF FsChange, memVars, diskVars, callVars
  <2>15. CASE Restart
    BY <2>15 DEF Restart, Operation, FirstGen, Probe
  <2>16. CASE UNCHANGED vars
    BY <2>16 DEF vars, memVars, diskVars, callVars
  <2> QED
    BY <2>1, <2>2, <2>3, <2>4, <2>5, <2>6, <2>7, <2>8, <2>9, <2>10, <2>11,
       <2>12, <2>13, <2>14, <2>15, <2>16 DEF Next
<1> QED BY <1>1, <1>2, PTL DEF Spec

-----------------------------------------------------------------------------
(* What is published was checked.                                            *)

\* CheckedIsDraft is not inductive: it speaks of requests about to save only.
\* What carries it from the capture of the generation to the save is that a
\* captured generation never runs ahead, that a request whose generation
\* still matches while the binary runs found a draft, that the file the
\* binary reads is the draft in memory, and that a request that has checked
\* nothing remembers nothing.
ApplyInv ==
    /\ DraftIsOnDisk
    /\ CheckedIsDraft
    /\ \A c \in Clients :
          /\ callGen[c] <= gen
          /\ pc[c] = "checking" /\ GenMatches(c) => draft # NoDoc
          /\ pc[c] \in {"idle", "begun", "capture"} => checked[c] = NoDoc

\* A step that leaves the draft, its file and the generation alone.
DraftStays == UNCHANGED <<draft, draftFile, gen>>

\* A step that touches the draft: it raises the generation, what it leaves in
\* memory is in the file, and no request moves on except to its end.
DraftMoves ==
    /\ gen' > gen
    /\ draft' # NoDoc => draftFile' = draft'
    /\ \A c \in Clients :
          \/ pc'[c] = "idle" /\ callGen'[c] <= gen /\ checked'[c] = NoDoc
          \/ /\ pc'[c] = pc[c]
             /\ callGen'[c] = callGen[c] /\ checked'[c] = checked[c]

\* With room on the disk, every outcome of saveDraftToDisk raises the
\* generation and leaves a draft only if the file holds it.
LEMMA StageMoves ==
    ASSUME "full" \notin FsStates, TypeOK, NEW staged, NEW final,
           NEW n \in Nat \ {0}, Stage(staged, final, n)
    PROVE  gen' > gen /\ (draft' # NoDoc => draftFile' = draft')
<1>1. ~(~DraftWritable /\ Probe)
  BY DEF TypeOK, DraftWritable, Probe
<1> QED BY <1>1 DEF TypeOK, Stage, DropDraft

\* A write of config.json either clears the draft and raises the generation
\* or leaves both alone.
LEMMA PublishMoves ==
    ASSUME TypeOK, NEW d, Publish(d)
    PROVE  \/ gen' > gen /\ draft' = NoDoc
           \/ DraftStays
  BY DEF TypeOK, Publish, DropDraft, DraftStays, memVars, diskVars

LEMMA ApplyInvStays ==
    ASSUME TypeOK, ApplyInv, DraftStays, UNCHANGED callVars
    PROVE  ApplyInv'
  BY DEF ApplyInv, DraftIsOnDisk, CheckedIsDraft, GenMatches, DraftStays, callVars

LEMMA ApplyInvMoves ==
    ASSUME TypeOK, ApplyInv, DraftMoves, TypeOK'
    PROVE  ApplyInv'
<1>1. DraftIsOnDisk'
  BY DEF DraftIsOnDisk, DraftMoves
<1>2. \A c \in Clients : callGen'[c] < gen'
  BY DEF DraftMoves, ApplyInv, TypeOK
<1>3. \A c \in Clients : ~GenMatches(c)'
  BY <1>2 DEF GenMatches, TypeOK
<1>4. \A c \in Clients : callGen'[c] <= gen'
  BY <1>2 DEF TypeOK
<1>5. \A c \in Clients :
        pc'[c] \in {"idle", "begun", "capture"} => checked'[c] = NoDoc
  BY DEF DraftMoves, ApplyInv
<1> QED BY <1>1, <1>3, <1>4, <1>5 DEF ApplyInv, CheckedIsDraft

\* The invariant is preserved by every step of a store whose disk does not
\* fill up.
LEMMA ApplyInvStep ==
    ASSUME "full" \notin FsStates, TypeOK, TypeOK', ApplyInv, [Next]_vars
    PROVE  ApplyInv'
<1>0. gen \in Nat /\ gen' \in Nat
  BY DEF TypeOK
<1>1. ASSUME NEW b \in Bodies, Edit(b) PROVE ApplyInv'
  BY <1>0, <1>1, StageMoves, ApplyInvMoves
     DEF Edit, StageEdit, DraftMoves, callVars
<1>2. CASE EditNothing
  BY <1>0, <1>2, StageMoves, ApplyInvMoves DEF EditNothing, DraftMoves, callVars
<1>3. ASSUME NEW d \in Doc, SetDraft(d) PROVE ApplyInv'
  BY <1>0, <1>3, StageMoves, ApplyInvMoves DEF SetDraft, DraftMoves, callVars
<1>4. CASE DiscardDraft
  BY <1>0, <1>4, ApplyInvMoves DEF DiscardDraft, DropDraft, DraftMoves, callVars
<1>5. CASE ApplyDraft
  BY <1>0, <1>5, PublishMoves, ApplyInvMoves, ApplyInvStays
     DEF ApplyDraft, DraftMoves, callVars
<1>6. ASSUME NEW b \in Blocks, NEW v \in Vals, SyncBlock(b, v) PROVE ApplyInv'
  <2>1. CASE Writes(b, v)
    BY <1>0, <1>6, <2>1, PublishMoves, ApplyInvMoves, ApplyInvStays
       DEF Writes, SyncBlock, DraftMoves, callVars
  <2>2. CASE UNCHANGED <<active, draft, gen, diskVars>>
    BY <1>6, <2>2, ApplyInvStays DEF SyncBlock, DraftStays, diskVars
  <2> QED BY <1>6, <2>1, <2>2 DEF SyncBlock, SyncWrite
<1>7. ASSUME NEW c \in Clients, BeginApply(c) PROVE ApplyInv'
  BY <1>0, <1>7 DEF BeginApply, Return, Goto, TypeOK, ApplyInv, DraftIsOnDisk,
     CheckedIsDraft, GenMatches, memVars, diskVars
<1>8. ASSUME NEW c \in Clients, LookForDraft(c) PROVE ApplyInv'
  BY <1>0, <1>8 DEF LookForDraft, Return, Goto, TypeOK, ApplyInv, DraftIsOnDisk,
     CheckedIsDraft, GenMatches, memVars, diskVars
<1>9. ASSUME NEW c \in Clients, CaptureDraft(c) PROVE ApplyInv'
  BY <1>0, <1>9 DEF CaptureDraft, Return, Goto, TypeOK, ApplyInv, DraftIsOnDisk,
     CheckedIsDraft, GenMatches, memVars, diskVars
<1>10. ASSUME NEW c \in Clients, RunCheck(c) PROVE ApplyInv'
  BY <1>0, <1>10 DEF RunCheck, CheckPasses, Return, Goto, TypeOK, ApplyInv,
     DraftIsOnDisk, CheckedIsDraft, GenMatches, memVars, diskVars
<1>11. ASSUME NEW c \in Clients, RefusePaths(c) PROVE ApplyInv'
  BY <1>0, <1>11 DEF RefusePaths, Return, Goto, TypeOK, ApplyInv, DraftIsOnDisk,
     CheckedIsDraft, GenMatches, memVars, diskVars
<1>12. ASSUME NEW c \in Clients, SaveApply(c) PROVE ApplyInv'
  <2>1. \A k \in Clients :
          \/ pc'[k] = "idle" /\ callGen'[k] <= gen /\ checked'[k] = NoDoc
          \/ /\ pc'[k] = pc[k]
             /\ callGen'[k] = callGen[k] /\ checked'[k] = checked[k]
    BY <1>0, <1>12 DEF SaveApply, Return, Goto, TypeOK, ApplyInv
  <2>2. CASE DraftStays
    BY <1>0, <1>12, <2>1, <2>2 DEF SaveApply, DraftStays, ApplyInv,
       DraftIsOnDisk, CheckedIsDraft, GenMatches
  <2>3. CASE gen' > gen /\ draft' = NoDoc
    BY <1>0, <1>12, <2>1, <2>3, ApplyInvMoves DEF SaveApply, DraftMoves
  <2>4. DraftStays \/ (gen' > gen /\ draft' = NoDoc)
    BY <1>12, PublishMoves DEF SaveApply, SaveIfGen, DraftStays, memVars, diskVars
  <2> QED BY <2>2, <2>3, <2>4
<1>13. CASE StatusPoll
  BY <1>13, ApplyInvStays DEF StatusPoll, DraftStays, diskVars
<1>14. ASSUME NEW f \in FsStates, FsChange(f) PROVE ApplyInv'
  BY <1>14, ApplyInvStays DEF FsChange, DraftStays, memVars, diskVars
<1>15. CASE Restart
  BY <1>15 DEF Restart, FirstGen, ApplyInv, DraftIsOnDisk, CheckedIsDraft,
     GenMatches
<1>16. CASE UNCHANGED vars
  BY <1>16, ApplyInvStays DEF vars, DraftStays, memVars, diskVars
<1> QED
  BY <1>1, <1>2, <1>3, <1>4, <1>5, <1>6, <1>7, <1>8, <1>9, <1>10, <1>11,
     <1>12, <1>13, <1>14, <1>15, <1>16 DEF Next

\* With room on the disk, a draft in memory is the one in the draft file, and
\* what a request is about to publish is what its check read (DraftIsOnDisk
\* and CheckedIsDraft): SaveToDiskIfGen's generation test is enough, for any
\* number of concurrent requests, editors and background writers.
THEOREM CheckIsOfTheDraft ==
    ASSUME "full" \notin FsStates
    PROVE  Spec => [](DraftIsOnDisk /\ CheckedIsDraft)
<1>1. Init => ApplyInv
  BY DEF Init, FirstGen, ApplyInv, DraftIsOnDisk, CheckedIsDraft
<1>2. TypeOK /\ TypeOK' /\ ApplyInv /\ [Next]_vars => ApplyInv'
  BY ApplyInvStep
<1>3. ApplyInv => DraftIsOnDisk /\ CheckedIsDraft
  BY DEF ApplyInv
<1> QED BY <1>1, <1>2, <1>3, TypeCorrect, PTL DEF Spec

\* What memory holds as the draft is what config.json.bak holds: the first of
\* the two, "so the manager never reports state the disk does not hold".
THEOREM DraftKept == ASSUME "full" \notin FsStates PROVE Spec => []DraftIsOnDisk
<1>1. DraftIsOnDisk /\ CheckedIsDraft => DraftIsOnDisk OBVIOUS
<1> QED BY <1>1, CheckIsOfTheDraft, PTL

\* A request remembers only documents the binary accepted.
CheckedIsGood ==
    \A c \in Clients : checked[c] # NoDoc => checked[c].body \in GoodBodies

LEMMA CheckedIsGoodAlways == Spec => []CheckedIsGood
<1>1. Init => CheckedIsGood
  BY DEF Init, CheckedIsGood
<1>2. TypeOK /\ CheckedIsGood /\ [Next]_vars => CheckedIsGood'
  <2> SUFFICES ASSUME TypeOK, CheckedIsGood, [Next]_vars PROVE CheckedIsGood'
    OBVIOUS
  <2>1. CASE UNCHANGED checked
    BY <2>1 DEF CheckedIsGood
  <2>2. ASSUME NEW c \in Clients, checked' = [checked EXCEPT ![c] = NoDoc]
        PROVE  CheckedIsGood'
    BY <2>2 DEF CheckedIsGood, TypeOK
  <2>3. ASSUME NEW c \in Clients, RunCheck(c) PROVE CheckedIsGood'
    BY <2>2, <2>3 DEF RunCheck, Return, CheckPasses, CheckedIsGood, TypeOK
  <2>4. CASE Restart
    BY <2>4 DEF Restart, CheckedIsGood
  <2>5. \/ UNCHANGED checked
        \/ \E c \in Clients :
              checked' = [checked EXCEPT ![c] = NoDoc] \/ RunCheck(c)
        \/ Restart
    BY DEF Next, Edit, EditNothing, SetDraft, DiscardDraft, ApplyDraft,
       SyncBlock, BeginApply, LookForDraft, CaptureDraft, RefusePaths,
       SaveApply, Return,
       StatusPoll, FsChange, vars, callVars
  <2> QED BY <2>1, <2>2, <2>3, <2>4, <2>5
<1> QED BY <1>1, <1>2, TypeCorrect, PTL DEF Spec

-----------------------------------------------------------------------------
(* Memory and disk agree.                                                    *)

\* A write that works puts the same document in memory and on disk; any other
\* step leaves both alone.
LEMMA PublishSame ==
    ASSUME ActiveIsDisk, NEW d, Publish(d)
    PROVE  ActiveIsDisk'
  BY DEF ActiveIsDisk, Publish, memVars, diskVars

\* No failing write, in whatever state of the filesystem, separates the active
\* configuration in memory from config.json (ActiveIsDisk).
THEOREM MemoryIsDisk == Spec => []ActiveIsDisk
<1>1. Init => ActiveIsDisk
  BY DEF Init, ActiveIsDisk
<1>2. ActiveIsDisk /\ [Next]_vars => ActiveIsDisk'
  <2> SUFFICES ASSUME ActiveIsDisk, [Next]_vars PROVE ActiveIsDisk'
    OBVIOUS
  <2>1. CASE UNCHANGED <<active, disk>>
    BY <2>1 DEF ActiveIsDisk
  <2>2. CASE ApplyDraft
    BY <2>2, PublishSame DEF ApplyDraft
  <2>3. ASSUME NEW b \in Blocks, NEW v \in Vals, SyncBlock(b, v)
        PROVE  ActiveIsDisk'
    BY <2>3, PublishSame
       DEF SyncBlock, SyncWrite, Writes, ActiveIsDisk, diskVars
  <2>4. ASSUME NEW c \in Clients, SaveApply(c) PROVE ActiveIsDisk'
    BY <2>4, PublishSame
       DEF SaveApply, SaveIfGen, ActiveIsDisk, memVars, diskVars
  <2>5. CASE Restart
    BY <2>5 DEF Restart, ActiveIsDisk
  <2>6. \/ UNCHANGED <<active, disk>>
        \/ ApplyDraft \/ Restart
        \/ \E b \in Blocks, v \in Vals : SyncBlock(b, v)
        \/ \E c \in Clients : SaveApply(c)
    BY DEF Next, Edit, EditNothing, SetDraft, DiscardDraft, BeginApply,
       LookForDraft, CaptureDraft, RunCheck, RefusePaths, StatusPoll, FsChange,
       vars, memVars, diskVars
  <2> QED BY <2>1, <2>2, <2>3, <2>4, <2>5, <2>6
<1> QED BY <1>1, <1>2, PTL DEF Spec

-----------------------------------------------------------------------------
(* The step that publishes.                                                  *)

\* An ApplyConfig that changes the published configuration publishes exactly
\* the document the binary accepted for that request (ApplyPublishesChecked).
THEOREM ApplyIsChecked ==
    ASSUME "full" \notin FsStates
    PROVE  Spec => ApplyPublishesChecked
<1> DEFINE Checked ==
      \A c \in Clients :
         pc[c] = "save" /\ pc'[c] = "idle" /\ active' # active
            => active' = checked[c] /\ active'.body \in GoodBodies
<1>1. ASSUME TypeOK, ActiveIsDisk, CheckedIsDraft, CheckedIsGood, [Next]_vars
      PROVE  Checked
  <2> SUFFICES ASSUME NEW c \in Clients, pc[c] = "save", pc'[c] = "idle",
                      active' # active
               PROVE  active' = checked[c] /\ active'.body \in GoodBodies
    OBVIOUS
  <2>1. ~Restart
    BY <1>1 DEF Restart, ActiveIsDisk
  <2>2. SaveApply(c)
    <3>1. ASSUME NEW k \in Clients, SaveApply(k) PROVE k = c
      BY <1>1, <3>1 DEF SaveApply, Return, Goto, TypeOK
    <3> QED
      BY <1>1, <2>1, <3>1
         DEF Next, Edit, EditNothing, SetDraft, DiscardDraft, ApplyDraft,
             SyncBlock, BeginApply, LookForDraft, CaptureDraft, RunCheck,
             RefusePaths, StatusPoll, FsChange, vars, memVars, callVars
  <2>3. GenMatches(c) /\ Publish(Working)
    BY <2>2 DEF SaveApply, SaveIfGen, memVars
  <2>4. active' = Working /\ draft # NoDoc
    BY <2>3 DEF Publish, Working, memVars
  <2>5. draft = checked[c]
    BY <1>1, <2>3 DEF CheckedIsDraft
  <2> QED BY <1>1, <2>4, <2>5 DEF Working, CheckedIsGood
<1>2. TypeOK /\ ActiveIsDisk /\ (DraftIsOnDisk /\ CheckedIsDraft) /\ CheckedIsGood
        /\ [Next]_vars => [Checked]_vars
  BY <1>1
<1> QED
  BY <1>2, TypeCorrect, MemoryIsDisk, CheckIsOfTheDraft, CheckedIsGoodAlways,
     PTL DEF Spec, ApplyPublishesChecked

-----------------------------------------------------------------------------
(* Refinement.                                                               *)

USE DEF Published!Doc

\* The abstract step behind a write of the draft file: the pending document is
\* replaced, dropped or left alone.
LEMMA StageRefines ==
    ASSUME MemType, NEW staged \in Doc, NEW final \in Doc, NEW n,
           Stage(staged, final, n), UNCHANGED disk
    PROVE  Published!Next
<1>1. draft' = NoDoc \/ draft' \in Doc
  BY DEF Stage, DropDraft
<1> QED BY <1>1 DEF Published!Next, Published!Drop, Published!StageDoc, Doc

LEMMA PublishRefines ==
    ASSUME MemType, ActiveIsDisk, NEW d, Publish(d),
           \/ d = draft /\ draft # NoDoc
           \/ d = active /\ draft = NoDoc
    PROVE  Published!Next \/ UNCHANGED <<disk, draft>>
  BY DEF Publish, DropDraft, memVars, diskVars, ActiveIsDisk,
     Published!Next, Published!PublishDoc

\* The store implements PublishedConfig (ImplementsPublished), whichever writers
\* stand back for a draft: config.json changes only by publishing a whole draft,
\* or in one managed block; a draft survives every writer that stands back, and
\* is dropped with, never after, the write of one that does not.
THEOREM StoreRefines == Spec => ImplementsPublished
<1>1. Init => Published!Init
  BY DEF Init, Published!Init, Doc
<1>2. ASSUME TypeOK, ActiveIsDisk, [Next]_vars
      PROVE  Published!Next \/ UNCHANGED <<disk, draft>>
  <2>0. MemType
    BY <1>2 DEF TypeOK, MemType
  <2>1. ASSUME NEW b \in Bodies, Edit(b) PROVE Published!Next
    BY <2>0, <2>1, WorkingType, UpdateType, StageRefines
       DEF Edit, StageEdit, MemType
  <2>2. CASE EditNothing
    BY <2>0, <2>2, StageRefines DEF EditNothing, MemType
  <2>3. ASSUME NEW d \in Doc, SetDraft(d) PROVE Published!Next
    BY <2>0, <2>3, StageRefines DEF SetDraft
  <2>4. CASE DiscardDraft \/ Restart
    BY <2>4 DEF DiscardDraft, Restart, DropDraft, Published!Next, Published!Drop
  <2>5. CASE ApplyDraft
    BY <1>2, <2>0, <2>5, PublishRefines DEF ApplyDraft
  <2>6. ASSUME NEW b \in Blocks, NEW v \in Vals, SyncBlock(b, v)
        PROVE  Published!Next \/ UNCHANGED <<disk, draft>>
    <3>1. CASE UNCHANGED <<active, draft, gen, diskVars>>
      BY <3>1 DEF diskVars
    <3>2. CASE Writes(b, v)
      BY <1>2, <3>2 DEF Writes, Publish, DropDraft, ActiveIsDisk, memVars,
         diskVars, Published!Next, Published!Refresh
    <3> QED BY <2>6, <3>1, <3>2 DEF SyncBlock, SyncWrite
  <2>7. ASSUME NEW c \in Clients, SaveApply(c)
        PROVE  Published!Next \/ UNCHANGED <<disk, draft>>
    <3>1. CASE UNCHANGED <<memVars, diskVars>>
      BY <3>1 DEF memVars, diskVars
    <3>2. CASE Publish(Working)
      BY <1>2, <2>0, <3>2, PublishRefines DEF Working
    <3> QED BY <2>7, <3>1, <3>2 DEF SaveApply, SaveIfGen
  <2>8. CASE UNCHANGED <<disk, draft>>
    BY <2>8
  <2> QED
    BY <1>2, <2>1, <2>2, <2>3, <2>4, <2>5, <2>6, <2>7, <2>8
       DEF Next, BeginApply, LookForDraft, CaptureDraft, RunCheck, RefusePaths,
           StatusPoll, FsChange, vars, memVars, diskVars
<1>3. TypeOK /\ ActiveIsDisk /\ [Next]_vars
        => [Published!Next]_<<disk, draft>>
  BY <1>2
<1> QED
  BY <1>1, <1>3, TypeCorrect, MemoryIsDisk, PTL
     DEF Spec, ImplementsPublished, Published!Spec

-----------------------------------------------------------------------------
(* The apply pipeline: every write of config.json reaches amnezia-box.       *)

\* Memory and disk still agree under the pipeline's steps, which run the
\* store's actions or leave the store alone.
LEMMA PublishAgrees ==
    ASSUME ActiveIsDisk, NEW d, Publish(d)
    PROVE  ActiveIsDisk'
  BY DEF ActiveIsDisk, Publish, memVars, diskVars

LEMMA SyncAgrees ==
    ASSUME ActiveIsDisk, NEW b, NEW v, SyncWrite(b, v)
    PROVE  ActiveIsDisk'
  BY PublishAgrees DEF SyncWrite, Writes, ActiveIsDisk, diskVars

LEMMA PipeMemoryIsDisk == PipeSpec => []ActiveIsDisk
<1>1. PipeInit => ActiveIsDisk
  BY DEF PipeInit, Init, ActiveIsDisk
<1>2. ActiveIsDisk /\ [PipeNext]_pvars => ActiveIsDisk'
  <2> SUFFICES ASSUME ActiveIsDisk, [PipeNext]_pvars PROVE ActiveIsDisk'
    OBVIOUS
  <2>1. CASE StoreRequest
    BY <2>1 DEF StoreRequest, Edit, DiscardDraft, BeginApply, LookForDraft,
       CaptureDraft, RunCheck, RefusePaths, ActiveIsDisk, memVars, diskVars
  <2>2. CASE SaveOnly
    BY <2>2, PublishAgrees DEF SaveOnly, ApplyDraft
  <2>3. ASSUME NEW c \in Clients, Save(c) PROVE ActiveIsDisk'
    BY <2>3, PublishAgrees
       DEF Save, SaveApply, SaveIfGen, ActiveIsDisk, memVars, diskVars
  <2>4. ASSUME NEW c \in Clients, SyncV2RayAPI(c) PROVE ActiveIsDisk'
    BY <2>4, SyncAgrees DEF SyncV2RayAPI
  <2>5. ASSUME NEW a \in Actors, SyncReject(a) PROVE ActiveIsDisk'
    BY <2>5, SyncAgrees DEF SyncReject
  <2>6. CASE RestartPanel
    BY <2>6 DEF RestartPanel, Restart, ActiveIsDisk
  <2>7. CASE UNCHANGED <<active, disk>>
    BY <2>7 DEF ActiveIsDisk
  <2> QED
    BY <2>1, <2>2, <2>3, <2>4, <2>5, <2>6, <2>7
       DEF PipeNext, ApplyStep, EnforceStep, ReadActive, Reconcile,
           ReadUserNames, ReadRejectNames, Reload, GetUser, PutUser, PatchFails, Expire, Tick,
           StartProcess, DiskChanges, FsChange, pvars, vars, memVars, diskVars
<1> QED BY <1>1, <1>2, PTL DEF PipeSpec

\* A store write that changes config.json changes the active configuration.
LEMMA SyncSame ==
    ASSUME ActiveIsDisk, NEW b, NEW v, SyncWrite(b, v), active' = active
    PROVE  disk' = disk
  BY SyncAgrees DEF ActiveIsDisk

\* Requests and actors keep their records, and a request inside the first half
\* of ApplyConfig is not inside the second.
ApplyWaits ==
    /\ DOMAIN phase = Actors /\ DOMAIN pc = Clients
    /\ \A c \in Clients : pc[c] # "idle" => Quiet(c)

LEMMA ApplyWaitsAlways == PipeSpec => []ApplyWaits
<1>1. PipeInit => ApplyWaits
  BY DEF PipeInit, Init, ApplyWaits
<1>2. ASSUME ApplyWaits, [PipeNext]_pvars PROVE ApplyWaits'
  <2>1. CASE StoreRequest
    BY <1>2, <2>1
       DEF StoreRequest, Edit, DiscardDraft, BeginApply, LookForDraft,
           CaptureDraft, RunCheck, RefusePaths, Return, Goto, callVars, ApplyWaits, Quiet
  <2>2. CASE SaveOnly
    BY <1>2, <2>2 DEF SaveOnly, ApplyDraft, callVars, ApplyWaits, Quiet
  <2>3. ASSUME NEW c \in Clients, Save(c) PROVE ApplyWaits'
    BY <1>2, <2>3 DEF Save, SaveApply, Return, Goto, ApplyWaits, Quiet
  <2>4. ASSUME NEW a \in Actors,
               \/ ReadActive(a) \/ Reconcile(a) \/ ReadUserNames(a)
               \/ SyncV2RayAPI(a) \/ EnforceStep(a)
        PROVE  ApplyWaits'
    <3>1. phase[a] # "none" /\ UNCHANGED pc
      BY <2>4 DEF ReadActive, Reconcile, ReadUserNames, SyncV2RayAPI,
         EnforceStep, ReadRejectNames, SyncReject, Reload, Step, vars, callVars
    <3>2. DOMAIN phase' = DOMAIN phase
          /\ \A k \in Actors \ {a} : phase'[k] = phase[k]
      BY <1>2, <2>4 DEF ReadActive, Reconcile, ReadUserNames, SyncV2RayAPI,
         EnforceStep, ReadRejectNames, SyncReject, Reload, Step, ApplyWaits
    <3> QED BY <1>2, <3>1, <3>2 DEF ApplyWaits, Quiet, Actors
  <2>5. ASSUME NEW a \in Syncers, NEW from, NEW to, Step(a, from, to), UNCHANGED pc
        PROVE  ApplyWaits'
    <3>1. a \notin Clients
      BY PipelineAssumption DEF Syncers
    <3> QED BY <1>2, <2>5, <3>1 DEF Step, ApplyWaits, Quiet, Actors
  <2>6. ASSUME NEW p \in Patchers,
               \/ PatchFails(p)
               \/ \E n \in Names : GetUser(p, n) \/ \E st \in {"on", "off"} : PutUser(p, n, st)
        PROVE  ApplyWaits'
    BY <2>5, <2>6 DEF GetUser, PutUser, PatchFails, vars, callVars, Syncers
  <2>7. CASE Tick
    BY <2>5, <2>7 DEF Tick, Syncers, vars, callVars
  <2>8. CASE RestartPanel
    BY <2>8 DEF RestartPanel, Restart, ApplyWaits
  <2>9. CASE UNCHANGED <<pc, phase>>
    BY <1>2, <2>9 DEF ApplyWaits, Quiet
  <2> QED
    BY <1>2, <2>1, <2>2, <2>3, <2>4, <2>6, <2>7, <2>8, <2>9
       DEF PipeNext, ApplyStep, Expire, StartProcess, DiskChanges, FsChange, pvars, vars, callVars,
           Actors
<1>3. ApplyWaits /\ [PipeNext]_pvars => ApplyWaits'
  BY <1>2
<1> QED BY <1>1, <1>3, PTL DEF PipeSpec

\* A step that writes nothing, loads nothing and takes nobody off the road to
\* a reload preserves RunsPublished.
LEMMA KeepsRunning ==
    ASSUME RunsPublished, UNCHANGED <<disk, loaded>>, missed => missed',
           \A c \in Clients : ~Quiet(c) => phase'[c] # "none",
           \A s \in Syncers : phase[s] = "reload" => phase'[s] = "reload"
    PROVE  RunsPublished'
  BY DEF RunsPublished, Quiet

\* So does one after which somebody still has to reload.
LEMMA OnTheRoad ==
    ASSUME NEW a \in Actors, phase'[a] # "none",
           a \in Clients \/ phase'[a] = "reload"
    PROVE  RunsPublished'
  BY DEF RunsPublished, Quiet, Actors

\* With no writer between its write and its reload, and no reload known to be
\* missed, amnezia-box runs on the published configuration (RunsPublished),
\* for any number of applies, PATCHes and users.
THEOREM PublishedRuns == PipeSpec => []RunsPublished
<1>1. PipeInit => RunsPublished
  BY DEF PipeInit, RunsPublished
<1>2. ASSUME ActiveIsDisk, ActiveIsDisk', ApplyWaits, RunsPublished,
             [PipeNext]_pvars
      PROVE  RunsPublished'
  <2>1. CASE StoreRequest
    BY <1>2, <2>1, KeepsRunning
       DEF StoreRequest, Edit, DiscardDraft, BeginApply, LookForDraft,
           CaptureDraft, RunCheck, RefusePaths, diskVars, Quiet, histVars
  <2>2. CASE SaveOnly
    <3>1. CASE disk' = disk
      BY <1>2, <2>2, <3>1, KeepsRunning DEF SaveOnly, Quiet
    <3>2. CASE disk' # disk
      BY <2>2, <3>2 DEF SaveOnly, RunsPublished
    <3> QED BY <3>1, <3>2
  <2>3. ASSUME NEW c \in Clients, Save(c) PROVE RunsPublished'
    <3>1. CASE SaveSucceeds(c)
      BY <1>2, <2>3, <3>1, OnTheRoad DEF Save, Actors, ApplyWaits
    <3>2. CASE ~SaveSucceeds(c)
      <4>0. Quiet(c)
        BY <1>2, <2>3 DEF Save, SaveApply, Return, Goto, ApplyWaits
      <4>1. disk' = disk
        BY <2>3, <3>2 DEF Save, SaveApply, SaveIfGen, SaveSucceeds, Publish,
           diskVars
      <4> QED
        BY <1>2, <2>3, <3>2, <4>0, <4>1, KeepsRunning
           DEF Save, Quiet, ApplyWaits
    <3> QED BY <3>1, <3>2
  <2>4. ASSUME NEW c \in Clients,
               ReadActive(c) \/ Reconcile(c) \/ ReadUserNames(c) \/ SyncV2RayAPI(c)
        PROVE  RunsPublished'
    BY <1>2, <2>4, OnTheRoad
       DEF ReadActive, Reconcile, ReadUserNames, SyncV2RayAPI, Step, Actors, ApplyWaits
  <2>5. ASSUME NEW a \in Actors, ReadRejectNames(a) PROVE RunsPublished'
    BY <1>2, <2>5, KeepsRunning
       DEF ReadRejectNames, Step, ApplyWaits, Quiet, histVars, vars, diskVars
  <2>6. ASSUME NEW a \in Actors, SyncReject(a) PROVE RunsPublished'
    <3>1. CASE a \in Clients \/ active' # active
      BY <1>2, <2>6, <3>1, OnTheRoad DEF SyncReject, Step, ApplyWaits
    <3>2. CASE a \notin Clients /\ active' = active
      BY <1>2, <2>6, <3>2, SyncSame, KeepsRunning DEF SyncReject, Step, ApplyWaits, Quiet, histVars
    <3> QED BY <3>1, <3>2
  <2>7. ASSUME NEW a \in Actors, Reload(a) PROVE RunsPublished'
    <3>0. disk' = disk
      BY <2>7 DEF Reload, diskVars
    <3> QED BY <2>7, <3>0 DEF Reload, Loads, LoadFails, RunsPublished
  <2>8. ASSUME NEW p \in Patchers,
               \/ PatchFails(p)
               \/ \E n \in Names : GetUser(p, n) \/ \E st \in {"on", "off"} : PutUser(p, n, st)
        PROVE  RunsPublished'
    <3>1. UNCHANGED <<disk, loaded, missed>>
      BY <2>8 DEF GetUser, PutUser, PatchFails, histVars, vars, diskVars
    <3>2. p \notin Clients /\ phase[p] # "reload" /\ \A a \in Actors \ {p} : phase'[a] = phase[a]
      BY <1>2, <2>8, PipelineAssumption DEF GetUser, PutUser, PatchFails, Step, ApplyWaits
    <3> QED BY <1>2, <3>1, <3>2, KeepsRunning DEF Quiet, Actors
  <2>9. ASSUME NEW n \in Names, Expire(n) PROVE RunsPublished'
    BY <1>2, <2>9, KeepsRunning DEF Expire, Quiet, histVars, diskVars
  <2>10. CASE Tick
    BY <1>2, <2>10, KeepsRunning DEF Tick, Step, ApplyWaits, Quiet, histVars, vars, diskVars
  <2>11. CASE StartProcess
    BY <2>11 DEF StartProcess, Loads, RunsPublished, diskVars
  <2>12. CASE RestartPanel
    BY <2>12 DEF RestartPanel, Restart, RunsPublished
  <2>13. CASE DiskChanges
    BY <1>2, <2>13, KeepsRunning DEF DiskChanges, FsChange, diskVars, Quiet, histVars
  <2>14. CASE UNCHANGED pvars
    BY <1>2, <2>14, KeepsRunning DEF pvars, vars, diskVars, Quiet, histVars
  <2> QED
    BY <1>2, <2>1, <2>2, <2>3, <2>4, <2>5, <2>6, <2>7, <2>8, <2>9, <2>10,
       <2>11, <2>12, <2>13, <2>14 DEF PipeNext, ApplyStep, EnforceStep
<1>3. ActiveIsDisk /\ ActiveIsDisk' /\ ApplyWaits /\ RunsPublished
        /\ [PipeNext]_pvars => RunsPublished'
  BY <1>2
<1> QED BY <1>1, <1>3, PipeMemoryIsDisk, ApplyWaitsAlways, PTL DEF PipeSpec

-----------------------------------------------------------------------------
(* The apply pipeline: the registry mirrors the published configuration.     *)

PipeType == MemType /\ snap \in [Actors -> SUBSET Names]

LEMMA SyncType ==
    ASSUME MemType, NEW b \in Blocks, NEW v \in Vals, SyncWrite(b, v)
    PROVE  MemType' /\ active'.body = active.body
<1>1. CASE Writes(b, v)
  <2>1. active \in Doc /\ [active EXCEPT !.block[b] = v] \in Doc BY UpdateType DEF MemType
  <2>2. MemType' BY <1>1, <2>1, PublishType DEF Writes
  <2>3. [active EXCEPT !.block[b] = v].body = active.body BY <2>1 DEF Doc
  <2>4. active' \in {active, [active EXCEPT !.block[b] = v]} BY <1>1 DEF Writes, Publish, memVars
  <2> QED BY <2>2, <2>3, <2>4
<1>2. CASE Declines(b, v) /\ UNCHANGED <<active, draft, gen, diskVars>>
  BY <1>2 DEF Declines, MemType, diskVars
<1> QED BY <1>1, <1>2 DEF SyncWrite

LEMMA PipeTyped == PipeSpec => []PipeType
<1>1. PipeInit => PipeType
  BY DEF PipeInit, Init, PipeType, MemType, FirstGen, Probe
<1>2. PipeType /\ [PipeNext]_pvars => PipeType'
  <2> SUFFICES ASSUME PipeType, [PipeNext]_pvars PROVE PipeType'
    OBVIOUS
  <2>0. MemType /\ snap \in [Actors -> SUBSET Names] BY DEF PipeType
  <2>1. CASE UNCHANGED <<memVars, diskVars, snap>>
    BY <2>0, <2>1 DEF PipeType, MemType, memVars, diskVars
  <2>2. CASE StoreRequest
    <3>1. ASSUME NEW b \in SUBSET Names, Edit(b) PROVE MemType'
      <4>1. active \in Doc /\ [Working EXCEPT !.body = b] \in Doc
        BY <2>0, WorkingType, UpdateType, PipelineAssumption DEF MemType
      <4> DEFINE e == [Working EXCEPT !.body = b]
      <4>2. StageEdit(e) /\ UNCHANGED <<active, disk>> BY <3>1 DEF Edit
      <4> HIDE DEF e
      <4>3. Stage(active, e, 2) \/ Stage(e, e, 1) BY <4>2 DEF StageEdit
      <4>4. e \in Doc BY <4>1 DEF e
      <4> QED BY <2>0, <4>1, <4>2, <4>3, <4>4, StageType
    <3>2. ASSUME DiscardDraft PROVE MemType'
      BY <2>0, <3>2 DEF DiscardDraft, DropDraft, MemType
    <3>3. ASSUME NEW c \in Clients,
                 BeginApply(c) \/ LookForDraft(c) \/ CaptureDraft(c) \/ RunCheck(c) \/ RefusePaths(c)
          PROVE  MemType'
      BY <2>0, <3>3 DEF BeginApply, LookForDraft, CaptureDraft, RunCheck, RefusePaths, MemType, memVars, diskVars
    <3>4. UNCHANGED snap /\ MemType' BY <2>2, <3>1, <3>2, <3>3 DEF StoreRequest
    <3> QED BY <2>0, <3>4 DEF PipeType
  <2>3. CASE SaveOnly
    <3>1. MemType' BY <2>0, <2>3, PublishType DEF SaveOnly, ApplyDraft, MemType
    <3> QED BY <2>0, <2>3, <3>1 DEF SaveOnly, PipeType
  <2>4. ASSUME NEW c \in Clients, Save(c) PROVE PipeType'
    <3>1. MemType'
      <4>1. CASE UNCHANGED <<memVars, diskVars>> BY <2>0, <4>1 DEF MemType, memVars, diskVars
      <4>2. CASE Publish(Working) BY <2>0, <4>2, WorkingType, PublishType
      <4> QED BY <2>4, <4>1, <4>2 DEF Save, SaveApply, SaveIfGen
    <3> QED BY <2>0, <2>4, <3>1 DEF Save, PipeType
  <2>5. ASSUME NEW a \in Actors, NEW names \in SUBSET Names, Read(a, names), UNCHANGED <<memVars, diskVars>>
        PROVE  PipeType'
    BY <2>0, <2>5 DEF PipeType, MemType, Read, memVars, diskVars
  <2>6. ASSUME NEW c \in Clients, ReadActive(c) \/ ReadUserNames(c) PROVE PipeType'
    <3>1. active.body \in SUBSET Names /\ UserNames \in SUBSET Names
      BY <2>0, PipelineAssumption DEF MemType, Doc, UserNames
    <3> QED BY <2>5, <2>6, <3>1 DEF ReadActive, ReadUserNames, vars, Actors
  <2>7. ASSUME NEW a \in Actors, ReadRejectNames(a) PROVE PipeType'
    BY <2>5, <2>7 DEF ReadRejectNames, vars, RejectNames
  <2>8. ASSUME NEW c \in Clients, SyncV2RayAPI(c) PROVE PipeType'
    <3>1. snap[c] \in Vals BY <2>0, PipelineAssumption DEF Actors
    <3>2. MemType' BY <2>0, <2>8, <3>1, SyncType, PipelineAssumption DEF SyncV2RayAPI
    <3> QED BY <2>0, <2>8, <3>2 DEF SyncV2RayAPI, PipeType
  <2>9. ASSUME NEW a \in Actors, SyncReject(a) PROVE PipeType'
    <3>1. snap[a] \in Vals BY <2>0, PipelineAssumption
    <3>2. MemType' BY <2>0, <2>9, <3>1, SyncType, PipelineAssumption DEF SyncReject
    <3> QED BY <2>0, <2>9, <3>2 DEF SyncReject, Forget, Read, PipeType
  <2>10. CASE RestartPanel
    BY <2>0, <2>10 DEF RestartPanel, Restart, FirstGen, Probe, PipeType, MemType
  <2>11. ASSUME NEW p \in Patchers,
                \/ PatchFails(p)
                \/ \E n \in Names : GetUser(p, n) \/ \E st \in {"on", "off"} : PutUser(p, n, st)
         PROVE  PipeType'
    BY <2>5, <2>11 DEF GetUser, PutUser, PatchFails, Forget, vars, Actors, Syncers
  <2> QED
    BY <2>1, <2>2, <2>3, <2>4, <2>6, <2>7, <2>8, <2>9, <2>10, <2>11
       DEF PipeNext, ApplyStep, EnforceStep, Reconcile, Reload, Expire, Tick,
           StartProcess, DiskChanges, FsChange, pvars, vars
<1> QED BY <1>1, <1>2, PTL DEF PipeSpec

Phases == {"none", "mirror", "reconcile", "v2names", "v2sync", "put", "names", "sync", "reload"}

RestType ==
    /\ CallType /\ fs \in FsStates /\ ops \in 0..MaxOps
    /\ reg \in [Names -> {"absent", "on", "off"}]
    /\ phase \in [Actors -> Phases]
    /\ loaded \in Doc \cup {NoDoc}

\* Type correctness of the pipeline (PipeTypeOK), the store under it included:
\* what requests, PATCHes, the ticker, reloads that fail and restarts of the
\* panel assign is of the type of its variable.
THEOREM PipelineTyped == PipeSpec => []PipeTypeOK
<1> USE DEF Phases
<1>1. PipeInit => RestType
  BY DEF PipeInit, Init, RestType, CallType
<1>2. PipeType /\ RestType /\ [PipeNext]_pvars => RestType'
  <2> SUFFICES ASSUME PipeType, RestType, [PipeNext]_pvars PROVE RestType'
    OBVIOUS
  <2>0. /\ CallType /\ fs \in FsStates /\ ops \in 0..MaxOps
        /\ reg \in [Names -> {"absent", "on", "off"}]
        /\ phase \in [Actors -> Phases]
        /\ loaded \in Doc \cup {NoDoc} /\ disk \in Doc
        /\ gen \in Nat /\ draftFile \in Doc \cup {NoDoc}
    BY DEF RestType, PipeType, MemType
  <2>1. ASSUME Operation PROVE ops' \in 0..MaxOps
    BY <2>0, <2>1 DEF Operation
  <2>2. ASSUME NEW c \in Clients,
               \/ BeginApply(c) \/ LookForDraft(c) \/ CaptureDraft(c) \/ RunCheck(c)
               \/ RefusePaths(c) \/ SaveApply(c)
        PROVE  CallType'
    BY <2>0, <2>2 DEF CallType, BeginApply, LookForDraft, CaptureDraft, RunCheck, RefusePaths,
       SaveApply, Goto, Return
  <2>3. CASE StoreRequest
    <3>1. CallType' /\ ops' \in 0..MaxOps /\ UNCHANGED fs
      BY <2>0, <2>1, <2>2, <2>3
         DEF StoreRequest, CallType, Edit, DiscardDraft, BeginApply, LookForDraft, CaptureDraft, RunCheck,
             RefusePaths, callVars
    <3>2. UNCHANGED <<reg, phase, loaded>>
      BY <2>3 DEF StoreRequest
    <3> QED BY <2>0, <3>1, <3>2 DEF RestType
  <2>4. CASE SaveOnly
    <3>1. CallType' /\ ops' \in 0..MaxOps /\ UNCHANGED <<fs, reg, phase, loaded>>
      BY <2>0, <2>1, <2>4 DEF SaveOnly, ApplyDraft, CallType, callVars
    <3> QED BY <2>0, <3>1 DEF RestType
  <2>5. ASSUME NEW c \in Clients, Save(c) PROVE RestType'
    <3>1. CallType' /\ UNCHANGED <<fs, ops, reg, loaded>>
      BY <2>2, <2>5 DEF Save, SaveApply
    <3>2. phase' \in [Actors -> Phases]
      BY <2>0, <2>5 DEF Save
    <3> QED BY <2>0, <3>1, <3>2 DEF RestType
  \* A step of an actor from one phase to the next.
  <2>6. ASSUME NEW a, NEW from, NEW to, Step(a, from, to),
               to \in Phases
        PROVE  phase' \in [Actors -> Phases]
    BY <2>0, <2>6 DEF Step
  <2>7. ASSUME UNCHANGED <<callVars, fs>>, ops' \in 0..MaxOps,
               reg' \in [Names -> {"absent", "on", "off"}],
               phase' \in [Actors -> Phases],
               loaded' \in Doc \cup {NoDoc}
        PROVE  RestType'
    BY <2>0, <2>7 DEF RestType, CallType, callVars
  <2>8. \A body : Reconciled(body) \in [Names -> {"absent", "on", "off"}]
    BY <2>0 DEF Reconciled
  <2>9. ASSUME NEW c \in Clients, ReadActive(c) \/ Reconcile(c) \/ ReadUserNames(c) \/ SyncV2RayAPI(c)
        PROVE  RestType'
    BY <2>0, <2>6, <2>7, <2>8, <2>9 DEF ReadActive, Reconcile, ReadUserNames, SyncV2RayAPI, vars
  <2>10. ASSUME NEW a \in Actors, ReadRejectNames(a) \/ SyncReject(a) PROVE RestType'
    BY <2>0, <2>6, <2>7, <2>10 DEF ReadRejectNames, SyncReject, vars
  <2>11. ASSUME NEW a \in Actors, Reload(a) PROVE RestType'
    <3>1. loaded' \in Doc \cup {NoDoc} /\ ops' \in 0..MaxOps
      BY <2>0, <2>1, <2>11 DEF Reload, Loads, LoadFails
    <3> QED BY <2>0, <2>6, <2>7, <2>11, <3>1 DEF Reload
  <2>12. ASSUME NEW p \in Patchers,
                \/ PatchFails(p)
                \/ \E n \in Names : GetUser(p, n) \/ \E st \in {"on", "off"} : PutUser(p, n, st)
         PROVE  RestType'
    BY <2>0, <2>1, <2>6, <2>7, <2>12 DEF GetUser, PutUser, PatchFails, vars, Phases
  <2>13. ASSUME NEW n \in Names, Expire(n) PROVE RestType'
    BY <2>0, <2>1, <2>7, <2>13 DEF Expire
  <2>14. CASE Tick
    BY <2>0, <2>6, <2>7, <2>14 DEF Tick, vars
  <2>15. CASE StartProcess
    BY <2>0, <2>7, <2>15 DEF StartProcess, Loads
  <2>16. CASE DiskChanges
    BY <2>0, <2>16 DEF DiskChanges, FsChange, RestType, CallType, callVars
  <2>17. CASE RestartPanel
    <3>1. CallType' /\ ops' \in 0..MaxOps /\ UNCHANGED <<fs, loaded>>
      BY <2>1, <2>17 DEF RestartPanel, Restart, CallType
    <3>2. reg' \in [Names -> {"absent", "on", "off"}]
      BY <2>8, <2>17 DEF RestartPanel
    <3>3. phase' \in [Actors -> Phases]
      BY <2>17 DEF RestartPanel
    <3> QED BY <2>0, <3>1, <3>2, <3>3 DEF RestType
  <2>18. CASE UNCHANGED pvars
    BY <2>0, <2>7, <2>18 DEF pvars, vars
  <2> QED
    BY <2>3, <2>4, <2>5, <2>9, <2>10, <2>11, <2>12, <2>13, <2>14, <2>15, <2>16, <2>17, <2>18
       DEF PipeNext, ApplyStep, EnforceStep
<1>3. PipeType /\ RestType => PipeTypeOK
  BY DEF PipeType, MemType, RestType, CallType, PipeTypeOK, TypeOK, Phases
<1> QED BY <1>1, <1>2, <1>3, PipeTyped, PTL DEF PipeSpec

\* Whoever is about to reconcile holds the body that still is the active one,
\* unless something is on record.
MirrorInv ==
    /\ DOMAIN reg = Names
    /\ unmirrored = {} => \A c \in Clients : phase[c] = "reconcile" => snap[c] = active.body
    /\ RegistryMirrorsActive

LEMMA ReconciledNames ==
    ASSUME NEW body \in SUBSET Names
    PROVE  {n \in Names : Reconciled(body)[n] # "absent"} = body /\ DOMAIN Reconciled(body) = Names
BY DEF Reconciled

\* A step that changes neither the names of the registry, but for those a PATCH
\* brings back, nor those of the configuration, and takes no apply to or from
\* its reconcile.
LEMMA MirrorStays ==
    ASSUME MirrorInv, DOMAIN reg' = Names, active'.body = active.body, unmirrored' = unmirrored,
           NEW back, Mirrored' = Mirrored \cup back, revived' = revived \cup back,
           \A c \in Clients : phase[c] \in {"mirror", "reconcile"} => phase'[c] = phase[c],
           \A c \in Clients : phase'[c] = "reconcile" => phase[c] = "reconcile" /\ snap'[c] = snap[c]
    PROVE  MirrorInv'
<1>1. DOMAIN reg' = Names /\ (unmirrored' = {} => \A c \in Clients : phase'[c] = "reconcile" => snap'[c] = active'.body)
  BY DEF MirrorInv
<1>2. RegistryMirrorsActive' BY DEF MirrorInv, RegistryMirrorsActive, ReconcilePending
<1> QED BY <1>1, <1>2 DEF MirrorInv

LEMMA MirrorStep ==
    ASSUME PipeType, ApplyWaits, ActiveIsDisk, MirrorInv, [PipeNext]_pvars PROVE MirrorInv'
<1>0. DOMAIN phase = Actors /\ snap \in [Actors -> SUBSET Names] /\ MemType /\ DOMAIN reg = Names
  BY DEF ApplyWaits, PipeType, MirrorInv
<1>1. ASSUME UNCHANGED <<reg, active, unmirrored, revived, phase, snap>> PROVE MirrorInv'
  <2>1. Mirrored' = Mirrored \cup {} /\ revived' = revived \cup {} BY <1>1 DEF Mirrored
  <2> QED BY <1>0, <1>1, <2>1, MirrorStays
<1>2. ASSUME NEW a \in Actors, UNCHANGED <<reg, unmirrored, revived>>, active'.body = active.body,
             phase[a] \notin {"mirror", "reconcile"}, NEW to, to \notin {"mirror", "reconcile"},
             phase' = [phase EXCEPT ![a] = to],
             NEW names, snap' = [snap EXCEPT ![a] = names] \/ snap' = snap
      PROVE  MirrorInv'
  <2>1. Mirrored' = Mirrored \cup {} /\ revived' = revived \cup {} BY <1>2 DEF Mirrored
  <2> QED BY <1>0, <1>2, <2>1, MirrorStays DEF Actors
<1>3. CASE SaveOnly BY <1>0, <1>3 DEF SaveOnly, MirrorInv, RegistryMirrorsActive
<1>4. ASSUME NEW c \in Clients, Save(c) PROVE MirrorInv'
  <2>1. CASE SaveSucceeds(c)
    <3>1. DOMAIN reg' = Names /\ phase'[c] = "mirror" /\ \A d \in Clients \ {c} : phase'[d] = phase[d]
      BY <1>0, <1>4, <2>1 DEF Save, Actors
    <3>2. unmirrored' = {} => ~OthersHold(c) BY <1>4, <2>1 DEF Save
    <3> QED BY <3>1, <3>2 DEF MirrorInv, RegistryMirrorsActive, ReconcilePending, OthersHold
  <2>2. CASE ~SaveSucceeds(c)
    <3>1. active' = active BY <1>4, <2>2 DEF Save, SaveApply, SaveIfGen, SaveSucceeds, Publish, memVars
    <3>2. phase[c] = "none" BY <1>4 DEF Save, SaveApply, Return, Goto, ApplyWaits, Quiet
    <3>3. phase' = [phase EXCEPT ![c] = "none"] /\ UNCHANGED <<reg, unmirrored, revived, snap>>
      BY <1>4, <2>2 DEF Save
    <3> QED BY <1>2, <3>1, <3>2, <3>3 DEF Actors
  <2> QED BY <2>1, <2>2
<1>5. ASSUME NEW c \in Clients, ReadActive(c) PROVE MirrorInv'
  <2>1. /\ phase'[c] = "reconcile" /\ snap'[c] = active.body
        /\ \A d \in Clients \ {c} : phase'[d] = phase[d] /\ snap'[d] = snap[d]
    BY <1>0, <1>5 DEF ReadActive, Step, Read, Actors
  <2>2. UNCHANGED <<active, reg>> BY <1>5 DEF ReadActive, vars, memVars
  <2>3. unmirrored' = {} => unmirrored = {} \/ ~OthersHold(c) BY <1>5 DEF ReadActive
  <2>4. unmirrored' = {} => \A d \in Clients : phase'[d] = "reconcile" => snap'[d] = active'.body
    BY <2>1, <2>2, <2>3 DEF MirrorInv, OthersHold
  <2> QED BY <1>0, <2>1, <2>2, <2>4 DEF MirrorInv, RegistryMirrorsActive, ReconcilePending
<1>6. ASSUME NEW c \in Clients, Reconcile(c) PROVE MirrorInv'
  <2>1. snap[c] \in SUBSET Names BY <1>0 DEF Actors
  <2>2. DOMAIN reg' = Names /\ Mirrored' = snap[c] /\ revived' = {}
    BY <1>6, <2>1, ReconciledNames DEF Reconcile, Mirrored
  <2>3. UNCHANGED <<active, unmirrored, snap>> /\ phase[c] = "reconcile" BY <1>6 DEF Reconcile, vars, memVars, Step
  <2>4. phase'[c] = "v2names" /\ \A d \in Clients \ {c} : phase'[d] = phase[d]
    BY <1>0, <1>6 DEF Reconcile, Step, Actors
  <2>5. unmirrored = {} => snap[c] = active.body BY <2>3 DEF MirrorInv
  <2> QED BY <2>2, <2>3, <2>4, <2>5 DEF MirrorInv, RegistryMirrorsActive
<1>7. ASSUME NEW c \in Clients, ReadUserNames(c) \/ SyncV2RayAPI(c) PROVE MirrorInv'
  <2>1. CASE ReadUserNames(c)
    BY <1>2, <2>1 DEF ReadUserNames, Step, Read, histVars, vars, memVars, Actors
  <2>2. CASE SyncV2RayAPI(c)
    <3>1. snap[c] \in Vals BY <1>0, PipelineAssumption DEF Actors
    <3>2. active'.body = active.body BY <1>0, <2>2, <3>1, SyncType, PipelineAssumption DEF SyncV2RayAPI
    <3> QED BY <1>2, <2>2, <3>2 DEF SyncV2RayAPI, Step, histVars, Actors
  <2> QED BY <1>7, <2>1, <2>2
<1>8. ASSUME NEW a \in Actors, EnforceStep(a) PROVE MirrorInv'
  <2>1. CASE ReadRejectNames(a)
    BY <1>2, <2>1 DEF ReadRejectNames, Step, Read, histVars, vars, memVars
  <2>2. CASE SyncReject(a)
    <3>1. snap[a] \in Vals BY <1>0, PipelineAssumption
    <3>2. active'.body = active.body BY <1>0, <2>2, <3>1, SyncType, PipelineAssumption DEF SyncReject
    <3> DEFINE to == IF a \in Clients \/ active' # active THEN "reload" ELSE "none"
    <3>3. to \notin {"mirror", "reconcile"} OBVIOUS
    <3>4. phase[a] = "sync" /\ phase' = [phase EXCEPT ![a] = to] BY <2>2 DEF SyncReject, Step
    <3> HIDE DEF to
    <3> QED BY <1>2, <2>2, <3>2, <3>3, <3>4 DEF SyncReject, Forget, Read, histVars
  <2>3. CASE Reload(a)
    BY <1>2, <2>3 DEF Reload, Step, memVars
  <2> QED BY <1>8, <2>1, <2>2, <2>3 DEF EnforceStep
<1>9. ASSUME NEW p \in Patchers,
             \/ PatchFails(p)
             \/ \E n \in Names : GetUser(p, n) \/ \E s \in {"on", "off"} : PutUser(p, n, s)
      PROVE  MirrorInv'
  <2>0. p \in Actors /\ p \notin Clients BY PipelineAssumption DEF Actors, Syncers
  <2>1. CASE PatchFails(p)
    BY <1>2, <2>0, <2>1 DEF PatchFails, Step, Forget, Read, histVars, vars, memVars
  <2>2. ASSUME NEW n \in Names, GetUser(p, n) PROVE MirrorInv'
    BY <1>2, <2>0, <2>2 DEF GetUser, Step, Read, histVars, memVars
  <2>3. ASSUME NEW n \in Names, NEW s \in {"on", "off"}, PutUser(p, n, s) PROVE MirrorInv'
    <3> DEFINE back == {n} \ Mirrored
    <3>1. DOMAIN reg' = Names /\ Mirrored' = Mirrored \cup back BY <1>0, <2>3 DEF PutUser, Mirrored
    <3>2. revived' = revived \cup back BY <2>3 DEF PutUser, Mirrored
    <3>3. UNCHANGED <<active, unmirrored>> BY <2>3 DEF PutUser, vars, memVars
    <3>4. \A c \in Clients : phase'[c] = phase[c] /\ snap'[c] = snap[c]
      BY <1>0, <2>0, <2>3 DEF PutUser, Step, Forget, Read, Actors
    <3> HIDE DEF back
    <3> QED BY <3>1, <3>2, <3>3, <3>4, MirrorStays
  <2> QED BY <1>9, <2>1, <2>2, <2>3
<1>10. ASSUME NEW n \in Names, Expire(n) PROVE MirrorInv'
  <2>1. UNCHANGED <<active, unmirrored, revived, snap, phase>> BY <1>10 DEF Expire, histVars, memVars
  <2>2. DOMAIN reg' = Names /\ Mirrored' = Mirrored \cup {} BY <1>0, <1>10 DEF Expire, Mirrored
  <2>3. revived' = revived \cup {} BY <2>1
  <2> QED BY <2>1, <2>2, <2>3, MirrorStays
<1>11. CASE Tick
  <2>1. "ticker" \in Actors BY DEF Actors, Syncers
  <2> QED BY <1>2, <1>11, <2>1 DEF Tick, Step, histVars, vars, memVars
<1>12. CASE RestartPanel
  <2>1. disk.body \in SUBSET Names BY <1>0, PipelineAssumption DEF MemType, Doc
  <2>2. active' = disk /\ reg' = Reconciled(disk.body) BY <1>12 DEF RestartPanel, Restart
  <2>3. \A c \in Clients : phase'[c] = "none" BY <1>12, PipelineAssumption DEF RestartPanel, Actors
  <2>4. Mirrored' = disk.body /\ revived' = {} /\ DOMAIN reg' = Names
    BY <1>12, <2>1, <2>2, ReconciledNames DEF RestartPanel, Mirrored
  <2> QED BY <2>1, <2>2, <2>3, <2>4 DEF MirrorInv, RegistryMirrorsActive
<1>13. CASE StoreRequest
  BY <1>1, <1>13 DEF StoreRequest, Edit, DiscardDraft, BeginApply, LookForDraft, CaptureDraft, RunCheck, RefusePaths,
     histVars, memVars
<1>14. CASE StartProcess \/ DiskChanges \/ UNCHANGED pvars
  BY <1>1, <1>14 DEF StartProcess, DiskChanges, FsChange, histVars, pvars, vars, memVars
<1> QED
  BY <1>3, <1>4, <1>5, <1>6, <1>7, <1>8, <1>9, <1>10, <1>11, <1>12, <1>13, <1>14 DEF PipeNext, ApplyStep

\* "Reconcile makes the registry mirror the active config", whatever expiries,
\* the ticker and the managed writers do meanwhile, for any number of applies
\* and PATCHes; what a stale PATCH brings back is exactly what is too much, and
\* two applies part the two only when one publishes between another's read and
\* its reconcile (reconcile.go, config_handlers.go, users_handlers.go).
THEOREM RegistryMirrors == PipeSpec => []RegistryMirrorsActive
<1>1. PipeInit => MirrorInv
  <2> SUFFICES ASSUME PipeInit PROVE MirrorInv OBVIOUS
  <2>1. active.body \in SUBSET Names /\ active = disk BY PipelineAssumption DEF PipeInit, Init, Doc
  <2>2. reg = [n \in Names |-> IF n \in active.body THEN "on" ELSE "absent"] BY <2>1 DEF PipeInit
  <2>3. \A c \in Clients : phase[c] = "none" BY DEF PipeInit, Actors
  <2>4. Mirrored = active.body \cup revived BY <2>1, <2>2 DEF Mirrored, PipeInit
  <2>5. DOMAIN reg = Names BY <2>2
  <2> QED BY <2>3, <2>4, <2>5 DEF MirrorInv, RegistryMirrorsActive
<1>2. PipeType /\ ApplyWaits /\ ActiveIsDisk /\ MirrorInv /\ [PipeNext]_pvars => MirrorInv'
  BY MirrorStep
<1>3. MirrorInv => RegistryMirrorsActive BY DEF MirrorInv
<1> QED BY <1>1, <1>2, <1>3, PipeTyped, PipeMemoryIsDisk, ApplyWaitsAlways, PTL DEF PipeSpec
=============================================================================
