------------------------------ MODULE ConfigStore ------------------------------
(***************************************************************************)
(* The staged-editing store of the sing-box configuration: the Go type     *)
(* config.Manager (internal/config/manager.go) with its write guard        *)
(* (internal/util/writeguard.go), the background writers that keep managed *)
(* blocks of the ACTIVE configuration in step (Sync*Active), and the       *)
(* sequence of separately locked calls that the HTTP handler ApplyConfig   *)
(* makes to check a draft and publish it.                                  *)
(*                                                                         *)
(* Every action is one critical section of Manager.mu, except RunCheck,    *)
(* which reads the draft file with no lock held, and the environment's     *)
(* FsChange and Restart.  A document is a body (everything an operator     *)
(* edits) and one value per managed block; JSON is left out.               *)
(***************************************************************************)
EXTENDS Naturals

CONSTANTS
    Bodies,           \* the operator-edited part of a configuration
    GoodBodies,       \* bodies that `amnezia-box check` accepts; all of them
                      \* when no binary is installed (the check is skipped)
    Blocks,           \* blocks RouteBox owns: reject, socks, awg, v2ray
    Vals,             \* values of a managed block
    DeferringBlocks,  \* blocks whose writer stands back while a draft exists
    QuietBlocks,      \* blocks whose writer trusts the standing verdict
    Clients,          \* concurrent ApplyConfig requests
    FsStates,         \* the filesystem states a run lets happen
    NoDoc,            \* "no document": a nil draft, a missing draft file
    MaxOps            \* bound: requests, managed writes and restarts

ASSUME StoreAssumption ==
    /\ GoodBodies \subseteq Bodies
    /\ DeferringBlocks \subseteq Blocks
    /\ QuietBlocks \subseteq Blocks
    /\ FsStates \subseteq {"rw", "ro", "locked", "full"}
    /\ NoDoc \notin [body : Bodies, block : [Blocks -> Vals]]
    /\ MaxOps \in Nat

VARIABLES
    active,     \* Manager.activeConfig
    draft,      \* Manager.draftConfig, NoDoc when hasDraft is false
    gen,        \* Manager.draftGen
    readOnly,   \* WriteGuard.readOnly: the standing verdict
    disk,       \* config.json
    draftFile,  \* config.json.bak
    fs,         \* what the filesystem allows now
    pc,         \* where each ApplyConfig request is
    callGen,    \* the generation it captured
    checked,    \* the document its check read, NoDoc if it found no draft
    ops         \* operations so far, bounded by MaxOps

memVars  == <<active, draft, gen, readOnly>>
diskVars == <<disk, draftFile>>
callVars == <<pc, callGen, checked>>
vars     == <<memVars, diskVars, fs, callVars, ops>>

Doc      == [body : Bodies, block : [Blocks -> Vals]]
Working  == IF draft = NoDoc THEN active ELSE draft      \* getWorkingConfig

-----------------------------------------------------------------------------
(* The filesystem and the write guard.                                       *)
(*   rw      everything works                                                *)
(*   ro      the mount is read-only: no write, no removal                    *)
(*   locked  config.json is immutable, its directory is writable: the draft  *)
(*           beside it can be written, the config cannot be replaced         *)
(*   full    ENOSPC: nothing can be written, nothing is "unwritable"         *)

Probe          == fs \in {"rw", "full"}     \* PathWritable(config.json)
DraftWritable  == fs \in {"rw", "locked"}
ActiveWritable == fs = "rw"
Removable      == fs # "ro"

\* Recheck: a negative verdict is probed again, a positive one is trusted.
Blocked == readOnly /\ ~Probe

\* One more operation of those the bound admits.
Operation == ops < MaxOps /\ ops' = ops + 1

-----------------------------------------------------------------------------
(* Writing the draft file: saveDraftToDisk.                                  *)
(* `staged` is what memory holds when the first write is tried, `final` what *)
(* it holds after the last, and n the number of writes the operation makes.  *)

DropDraft(raised) == draft' = NoDoc /\ gen' = gen + raised

\* Mutant: a write that fails on a stale verdict leaves the draft in memory.
StageKeepsRefused(staged, final, n) ==
    \/ /\ Blocked
       /\ DropDraft(1)
       /\ UNCHANGED <<draftFile, readOnly>>
    \/ /\ ~Blocked /\ DraftWritable
       /\ draft' = final /\ draftFile' = final
       /\ gen' = gen + n
       /\ readOnly' = FALSE
    \/ /\ ~Blocked /\ ~DraftWritable
       /\ draft' = staged
       /\ gen' = gen + 1
       /\ readOnly' = ~Probe
       /\ UNCHANGED draftFile

Stage(staged, final, n) ==
    \/ /\ Blocked                               \* refused before any write
       /\ DropDraft(1)
       /\ UNCHANGED <<draftFile, readOnly>>
    \/ /\ ~Blocked /\ DraftWritable
       /\ draft' = final /\ draftFile' = final
       /\ gen' = gen + n
       /\ readOnly' = FALSE
    \/ /\ ~Blocked /\ ~DraftWritable /\ ~Probe  \* the verdict was stale
       /\ DropDraft(2)
       /\ readOnly' = TRUE
       /\ UNCHANGED draftFile
    \/ /\ ~Blocked /\ ~DraftWritable /\ Probe   \* disk full: memory keeps it
       /\ draft' = staged
       /\ gen' = gen + 1
       /\ readOnly' = FALSE
       /\ UNCHANGED draftFile

\* An edit first copies active into a draft (and writes it) when there is none.
StageEdit(d) == IF draft = NoDoc THEN Stage(active, d, 2) ELSE Stage(d, d, 1)

-----------------------------------------------------------------------------
(* Writing config.json: saveLocked and applyDraftLocked.                     *)

\* Mutant: activeConfig is assigned before the write is known to have worked.
PublishEarly(d) ==
    \/ /\ Blocked
       /\ UNCHANGED <<memVars, diskVars>>
    \/ /\ ~Blocked /\ ActiveWritable
       /\ active' = d /\ disk' = d
       /\ DropDraft(1)
       /\ draftFile' = NoDoc
       /\ readOnly' = FALSE
    \/ /\ ~Blocked /\ ~ActiveWritable
       /\ active' = d
       /\ readOnly' = ~Probe
       /\ UNCHANGED <<draft, gen, diskVars>>

Publish(d) ==
    \/ /\ Blocked
       /\ UNCHANGED <<memVars, diskVars>>
    \/ /\ ~Blocked /\ ActiveWritable
       /\ active' = d /\ disk' = d
       /\ DropDraft(1)
       /\ draftFile' = NoDoc
       /\ readOnly' = FALSE
    \/ /\ ~Blocked /\ ~ActiveWritable
       /\ readOnly' = ~Probe
       /\ UNCHANGED <<active, draft, gen, diskVars>>

-----------------------------------------------------------------------------
(* Editing requests.                                                         *)

\* Create/Update/Delete/Mutate of a section, staged in the draft.
Edit(b) ==
    /\ Operation
    /\ StageEdit([Working EXCEPT !.body = b])
    /\ UNCHANGED <<active, disk, fs, callVars>>

\* An edit that finds its target gone after the draft was ensured: the fresh
\* copy of active stays behind as a draft.
EditNothing ==
    /\ Operation
    /\ draft = NoDoc
    /\ Stage(active, active, 1)
    /\ UNCHANGED <<active, disk, fs, callVars>>

\* SaveConfig, the JSON editor: the whole document is replaced.
SetDraft(d) ==
    /\ Operation
    /\ Stage(d, d, 1)
    /\ UNCHANGED <<active, disk, fs, callVars>>

\* Mutant: the discard does not raise the generation.
DiscardSilently ==
    /\ Operation
    /\ draft' = NoDoc
    /\ draftFile' = IF Removable THEN NoDoc ELSE draftFile
    /\ UNCHANGED <<active, gen, readOnly, disk, fs, callVars>>

DiscardDraft ==
    /\ Operation
    /\ DropDraft(1)
    /\ draftFile' = IF Removable THEN NoDoc ELSE draftFile
    /\ UNCHANGED <<active, readOnly, disk, fs, callVars>>

\* SaveConfigDraft: publish the draft unchecked, without touching the process.
ApplyDraft ==
    /\ Operation
    /\ draft # NoDoc
    /\ Publish(draft)
    /\ UNCHANGED <<fs, callVars>>

-----------------------------------------------------------------------------
(* A managed block is brought to value v in the ACTIVE configuration.        *)

\* The writer declines: the configuration cannot be written (a quiet writer
\* may trust a verdict up to two seconds old), a draft is pending, or the
\* block has its value already.
Declines(b, v) ==
    \/ readOnly /\ (b \in QuietBlocks \/ ~Probe) /\ UNCHANGED readOnly
    \/ /\ ~Blocked
       /\ \/ draft # NoDoc /\ b \in DeferringBlocks
          \/ active.block[b] = v
       /\ readOnly' = FALSE

\* Mutant: the writer does not look for a draft.
WritesOverDraft(b, v) ==
    /\ ~Blocked
    /\ active.block[b] # v
    /\ Publish([active EXCEPT !.block[b] = v])

Writes(b, v) ==
    /\ ~Blocked
    /\ draft = NoDoc \/ b \notin DeferringBlocks
    /\ active.block[b] # v
    /\ Publish([active EXCEPT !.block[b] = v])

SyncWrite(b, v) ==
    \/ Declines(b, v) /\ UNCHANGED <<active, draft, gen, diskVars>>
    \/ Writes(b, v)

SyncBlock(b, v) ==
    /\ Operation
    /\ SyncWrite(b, v)
    /\ UNCHANGED <<fs, callVars>>

-----------------------------------------------------------------------------
(* One ApplyConfig request, up to and including the save.                    *)

Goto(c, from, to) == pc[c] = from /\ pc' = [pc EXCEPT ![c] = to]

\* The handler answers; what it remembered is gone.
Return(c, from) ==
    /\ Goto(c, from, "idle")
    /\ callGen' = [callGen EXCEPT ![c] = 0]
    /\ checked' = [checked EXCEPT ![c] = NoDoc]

\* gen := GetDraftGen()
BeginApply(c) ==
    /\ Operation
    /\ Goto(c, "idle", "begun")
    /\ callGen' = [callGen EXCEPT ![c] = gen]
    /\ UNCHANGED <<memVars, diskVars, fs, checked>>

\* HasDraft(): with no draft the validation is skipped.
LookForDraft(c) ==
    /\ Goto(c, "begun", IF draft = NoDoc THEN "save" ELSE "capture")
    /\ UNCHANGED <<memVars, diskVars, fs, callGen, checked, ops>>

\* CheckDraft captures hasDraft, the path and the generation under the lock...
CaptureDraft(c) ==
    /\ Goto(c, "capture", IF draft = NoDoc THEN "save" ELSE "checking")
    /\ callGen' = [callGen EXCEPT ![c] = gen]
    /\ UNCHANGED <<memVars, diskVars, fs, checked, ops>>

\* ... and runs the binary on the draft FILE with the lock released.
CheckPasses == draftFile # NoDoc /\ draftFile.body \in GoodBodies

RunCheck(c) ==
    /\ \/ /\ CheckPasses
          /\ Goto(c, "checking", "save")
          /\ checked' = [checked EXCEPT ![c] = draftFile]
          /\ UNCHANGED callGen
       \/ ~CheckPasses /\ Return(c, "checking")
    /\ UNCHANGED <<memVars, diskVars, fs, ops>>

\* 400: the rule-set path pre-check names a missing local file.
RefusePaths(c) ==
    /\ Return(c, "capture")
    /\ UNCHANGED <<memVars, diskVars, fs, ops>>

\* Mutant: the generation is not compared.
GenIgnored(c) == callGen[c] <= gen

GenMatches(c) == callGen[c] = gen

\* Mutant: the draft is published without asking whether there is one.
SaveNilDraft(c) ==
    \/ ~GenMatches(c) /\ UNCHANGED <<memVars, diskVars>>
    \/ GenMatches(c) /\ Publish(draft)

\* SaveToDiskIfGen: nothing is written when the generation moved on.
SaveIfGen(c) ==
    \/ ~GenMatches(c) /\ UNCHANGED <<memVars, diskVars>>
    \/ GenMatches(c) /\ Publish(Working)

SaveApply(c) ==
    /\ Return(c, "save")
    /\ SaveIfGen(c)
    /\ UNCHANGED <<fs, ops>>

-----------------------------------------------------------------------------
(* The environment.                                                          *)

\* IsReadOnly from a status poll: a negative verdict is probed again.
StatusPoll ==
    /\ readOnly /\ Probe
    /\ readOnly' = FALSE
    /\ UNCHANGED <<active, draft, gen, diskVars, fs, callVars, ops>>

FsChange(f) ==
    /\ f # fs
    /\ fs' = f
    /\ UNCHANGED <<memVars, diskVars, callVars, ops>>

\* What NewManager (Load) and CleanupDraft make of a fresh process: each of
\* them raises the generation once.
FirstGen == 2

\* A crash or a restart of the panel: requests die, memory is read from disk.
Restart ==
    /\ Operation
    /\ active' = disk
    /\ draft' = NoDoc
    /\ draftFile' = IF Removable THEN NoDoc ELSE draftFile
    /\ gen' = FirstGen
    /\ readOnly' = ~Probe
    /\ pc' = [c \in Clients |-> "idle"]
    /\ callGen' = [c \in Clients |-> 0]
    /\ checked' = [c \in Clients |-> NoDoc]
    /\ UNCHANGED <<disk, fs>>

-----------------------------------------------------------------------------
Init ==
    /\ disk \in Doc
    /\ active = disk
    /\ draft = NoDoc /\ draftFile = NoDoc
    /\ gen = FirstGen
    /\ fs \in FsStates
    /\ readOnly = ~Probe
    /\ pc = [c \in Clients |-> "idle"]
    /\ callGen = [c \in Clients |-> 0]
    /\ checked = [c \in Clients |-> NoDoc]
    /\ ops = 0

Next ==
    \/ \E b \in Bodies : Edit(b)
    \/ EditNothing
    \/ \E d \in Doc : SetDraft(d)
    \/ DiscardDraft
    \/ ApplyDraft
    \/ \E b \in Blocks, v \in Vals : SyncBlock(b, v)
    \/ \E c \in Clients :
          \/ BeginApply(c) \/ LookForDraft(c) \/ CaptureDraft(c)
          \/ RunCheck(c) \/ RefusePaths(c) \/ SaveApply(c)
    \/ StatusPoll
    \/ \E f \in FsStates : FsChange(f)
    \/ Restart

Spec == Init /\ [][Next]_vars

-----------------------------------------------------------------------------
(* Properties.                                                               *)

\* Every variable keeps its type; a call that captured a generation captured
\* one the manager had already reached (draftGen only grows within a run of
\* the process).
TypeOK ==
    /\ active \in Doc /\ disk \in Doc
    /\ draft \in Doc \cup {NoDoc} /\ draftFile \in Doc \cup {NoDoc}
    /\ gen \in Nat /\ ops \in 0..MaxOps
    /\ readOnly \in BOOLEAN
    /\ fs \in FsStates
    /\ pc \in [Clients -> {"idle", "begun", "capture", "checking", "save"}]
    /\ callGen \in [Clients -> Nat]
    /\ checked \in [Clients -> Doc \cup {NoDoc}]

\* What the manager calls active is what config.json holds, whichever write
\* failed on the way (saveLocked and applyDraftLocked assign activeConfig only
\* after the rename went through).
ActiveIsDisk == active = disk

\* "so the manager never reports state the disk does not hold"
\* (dropDraftLocked): a draft in memory is the one in config.json.bak.
DraftIsOnDisk == draft # NoDoc => draftFile = draft

\* What ApplyConfig is about to publish is what its check read: a generation
\* that still matches when the save comes proves nobody touched the draft
\* between the check of the FILE and the write of the MEMORY.
CheckedIsDraft ==
    \A c \in Clients : pc[c] = "save" /\ GenMatches(c) => checked[c] = draft

\* An ApplyConfig that changes the published configuration publishes exactly
\* the document the binary accepted for this very request.
ApplyPublishesChecked ==
    [][\A c \in Clients :
         pc[c] = "save" /\ pc'[c] = "idle" /\ active' # active
            => active' = checked[c] /\ active'.body \in GoodBodies]_vars

\* A write of the active configuration that clears a pending draft published
\* that draft: no background writer destroys an operator's unsaved edits.
PublishKeepsDraft ==
    [][draft # NoDoc /\ draft' = NoDoc /\ active' # active
            => active' = draft]_vars

\* The store implements PublishedConfig, read on disk.
Published == INSTANCE PublishedConfig WITH live <- disk, pending <- draft
ImplementsPublished == Published!Spec
=============================================================================
