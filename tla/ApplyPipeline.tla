----------------------------- MODULE ApplyPipeline -----------------------------
(***************************************************************************)
(* From a published configuration to enforced user lifecycles: the rest of *)
(* the ApplyConfig handler after its save (internal/api/config_handlers.go)*)
(* running beside user PATCHes, the expiry ticker and the startup one-shot *)
(* that all rewrite the managed reject rule (internal/api/                 *)
(* user_lifecycle.go), the registry's Reconcile (internal/users/           *)
(* reconcile.go) and the amnezia-box process that loads config.json.       *)
(*                                                                         *)
(* The body of a configuration is the set of user names its inbounds hold; *)
(* the managed blocks are the reject rule and the v2ray_api user list.     *)
(* Every step that touches the store is an action of ConfigStore.          *)
(***************************************************************************)
EXTENDS ConfigStore

CONSTANTS
    Names,      \* panel user names
    Patchers,   \* concurrent PATCH /users requests
    ReloadMayFail \* can both the reload and the restart after it fail?

ASSUME PipelineAssumption ==
    /\ Bodies = SUBSET Names /\ Vals = SUBSET Names
    /\ GoodBodies = Bodies
    /\ Blocks = {"reject", "v2ray"}
    /\ DeferringBlocks = {"reject"}
    /\ Clients \cap Patchers = {}
    /\ ReloadMayFail \in BOOLEAN
    /\ {"ticker", "boot"} \cap (Clients \cup Patchers) = {}

VARIABLES
    reg,       \* the registry: "absent", "on" (effectively active) or "off"
    phase,     \* where each actor is after its save or its registry write
    snap,      \* the names an actor read and has not used yet
    loaded,    \* the document amnezia-box runs on, NoDoc when it is stopped
    missed,    \* history: a write nobody will follow with a reload
    unmirrored,\* history: why a publication may not be reconciled with
    revived    \* history: names a PATCH put back after they had left

histVars == <<missed, unmirrored, revived>>
pvars   == <<vars, reg, phase, snap, loaded, histVars>>
Syncers == Patchers \cup {"ticker", "boot"}
Actors  == Clients \cup Syncers

-----------------------------------------------------------------------------
\* EffectiveRejectNames and panelUserNames of the registry.
RejectNames == {n \in Names : reg[n] = "off"}
UserNames   == {n \in Names : reg[n] # "absent"}

\* Mutant: users who left the configuration stay in the registry.
ReconciledKeeps(body) ==
    [n \in Names |-> IF n \in body /\ reg[n] = "absent" THEN "on" ELSE reg[n]]

\* Reconcile: a name that left the configuration is deleted, a new one enters
\* enabled, the others keep their lifecycle.
Reconciled(body) ==
    [n \in Names |-> IF n \notin body THEN "absent"
                     ELSE IF reg[n] = "absent" THEN "on" ELSE reg[n]]

Step(a, from, to) == phase[a] = from /\ phase' = [phase EXCEPT ![a] = to]
Read(a, names)    == snap' = [snap EXCEPT ![a] = names]
Forget(a)         == Read(a, {})
Quiet(a)          == phase[a] = "none"
Serving           == Quiet("boot")     \* HTTP starts after the one-shot

-----------------------------------------------------------------------------
(* Requests that only touch the store.                                       *)

StoreRequest ==
    /\ Serving
    /\ \/ \E b \in SUBSET Names : Edit(b)
       \/ DiscardDraft
       \/ \E c \in Clients : \/ Quiet(c) /\ BeginApply(c)
                             \/ LookForDraft(c) \/ CaptureDraft(c)
                             \/ RunCheck(c) \/ RefusePaths(c)
    /\ UNCHANGED <<reg, phase, snap, loaded, histVars>>

\* SaveConfigDraft: config.json changes and nobody reloads.
SaveOnly ==
    /\ Serving
    /\ ApplyDraft
    /\ missed' = (missed \/ disk' # disk)
    /\ unmirrored' = unmirrored \cup {"saved"}
    /\ UNCHANGED <<reg, phase, snap, loaded, revived>>

-----------------------------------------------------------------------------
(* ApplyConfig after the check.                                              *)

SaveSucceeds(c) == GenMatches(c) /\ ~Blocked /\ ActiveWritable

\* Another apply has read the active configuration and not yet reconciled.
OthersHold(c) == \E d \in Clients \ {c} : phase[d] = "reconcile"

\* The save; on an error (the draft moved on, the write failed) the handler
\* returns.
Save(c) ==
    /\ SaveApply(c)
    /\ phase' = [phase EXCEPT ![c] = IF SaveSucceeds(c) THEN "mirror" ELSE "none"]
    /\ unmirrored' = IF SaveSucceeds(c) /\ OthersHold(c) THEN unmirrored \cup {"overlapped"}
                     ELSE unmirrored
    /\ UNCHANGED <<reg, snap, loaded, missed, revived>>

\* Reconcile(GetActive()): the argument is read before the registry locks.
ReadActive(c) ==
    /\ Step(c, "mirror", "reconcile")
    /\ Read(c, active.body)
    /\ unmirrored' = IF OthersHold(c) THEN unmirrored ELSE {}
    /\ UNCHANGED <<vars, reg, loaded, missed, revived>>

Reconcile(c) ==
    /\ Step(c, "reconcile", "v2names")
    /\ reg' = Reconciled(snap[c]) /\ revived' = {}
    /\ UNCHANGED <<vars, snap, loaded, missed, unmirrored>>

ReadUserNames(c) ==
    /\ Step(c, "v2names", "v2sync")
    /\ Read(c, UserNames)
    /\ UNCHANGED <<vars, reg, loaded, histVars>>

SyncV2RayAPI(c) ==
    /\ Step(c, "v2sync", "names")
    /\ SyncWrite("v2ray", snap[c])
    /\ UNCHANGED <<fs, callVars, ops, reg, snap, loaded, histVars>>

-----------------------------------------------------------------------------
(* The managed reject rule: the end of ApplyConfig, and syncRejectRule.      *)

\* UpdateUser: a copy of the user is read, and the body of the request decoded.
GetUser(p, n) ==
    /\ Serving /\ Operation
    /\ reg[n] # "absent"
    /\ Step(p, "none", "put")
    /\ Read(p, {n})
    /\ UNCHANGED <<memVars, diskVars, fs, callVars, reg, loaded, histVars>>

\* Put of that copy with the new status, whether or not the user is still
\* there; then syncRejectRule is called.
PutUser(p, n, status) ==
    /\ n \in snap[p] /\ Step(p, "put", "names")
    /\ reg' = [reg EXCEPT ![n] = status]
    /\ revived' = IF reg[n] = "absent" THEN revived \cup {n} ELSE revived
    /\ Forget(p)
    /\ UNCHANGED <<vars, loaded, missed, unmirrored>>

\* The body does not decode, or the registry cannot be saved.
PatchFails(p) ==
    /\ Step(p, "put", "none")
    /\ Forget(p)
    /\ UNCHANGED <<vars, reg, loaded, histVars>>

\* The clock passes a user's expires_at: nothing is written.
Expire(n) ==
    /\ Operation
    /\ reg[n] = "on"
    /\ reg' = [reg EXCEPT ![n] = "off"]
    /\ UNCHANGED <<memVars, diskVars, fs, callVars, phase, snap, loaded, histVars>>

Tick ==
    /\ Serving
    /\ Step("ticker", "none", "names")
    /\ UNCHANGED <<vars, reg, snap, loaded, histVars>>

\* Mutant: the names are those of an earlier pass.
ReadRejectNamesOnce(a) ==
    /\ Step(a, "names", "sync")
    /\ UNCHANGED <<vars, reg, snap, loaded, histVars>>

ReadRejectNames(a) ==
    /\ Step(a, "names", "sync")
    /\ Read(a, RejectNames)
    /\ UNCHANGED <<vars, reg, loaded, histVars>>

\* Mutant: only ApplyConfig reloads.
SyncRejectNoReload(a) ==
    /\ Step(a, "sync", IF a \in Clients THEN "reload" ELSE "none")
    /\ SyncWrite("reject", snap[a])
    /\ Forget(a)
    /\ UNCHANGED <<fs, callVars, ops, reg, loaded, histVars>>

\* ApplyConfig reloads whatever the writers did; syncRejectRule only if the
\* rule changed.
SyncReject(a) ==
    /\ SyncWrite("reject", snap[a])
    /\ Step(a, "sync", IF a \in Clients \/ active' # active
                       THEN "reload" ELSE "none")
    /\ Forget(a)
    /\ UNCHANGED <<fs, callVars, ops, reg, loaded, histVars>>

\* Reload, or its fallback Restart: amnezia-box reads config.json.
Loads == loaded' = disk /\ missed' = FALSE /\ UNCHANGED ops

\* Both fail: amnezia-box runs on as it was, or stays stopped.
LoadFails ==
    /\ ReloadMayFail /\ Operation
    /\ loaded' \in {loaded, NoDoc} /\ missed' = TRUE

Reload(a) ==
    /\ Step(a, "reload", "none")
    /\ \/ loaded = NoDoc /\ UNCHANGED <<loaded, missed, ops>>  \* not running
       \/ loaded # NoDoc /\ (Loads \/ LoadFails)
    /\ UNCHANGED <<memVars, diskVars, fs, callVars, reg, snap, unmirrored, revived>>

-----------------------------------------------------------------------------
(* The process and the panel as a whole.                                     *)

StartProcess ==
    /\ loaded = NoDoc
    /\ Loads
    /\ UNCHANGED <<memVars, diskVars, fs, callVars, reg, phase, snap, unmirrored, revived>>

\* The disk fills up or has room again.
DiskChanges ==
    /\ \E f \in FsStates : FsChange(f)
    /\ UNCHANGED <<reg, phase, snap, loaded, histVars>>

\* The panel dies and comes back: its requests are gone, amnezia-box is not.
\* Startup loads the configuration, reconciles the registry with it and runs
\* syncRejectRule once before it serves.
RestartPanel ==
    /\ Restart
    /\ reg' = Reconciled(disk.body)
    /\ phase' = [a \in Actors |-> IF a = "boot" THEN "names" ELSE "none"]
    /\ snap' = [a \in Actors |-> {}]
    /\ missed' = (missed \/ loaded \notin {NoDoc, disk})
    /\ unmirrored' = {} /\ revived' = {}
    /\ UNCHANGED loaded

-----------------------------------------------------------------------------
PipeInit ==
    /\ Init
    /\ disk.block["reject"] = {} /\ disk.block["v2ray"] = disk.body
    /\ reg = [n \in Names |-> IF n \in disk.body THEN "on" ELSE "absent"]
    /\ phase = [a \in Actors |-> "none"]
    /\ snap = [a \in Actors |-> {}]
    /\ loaded \in {NoDoc, disk}
    /\ missed = FALSE /\ unmirrored = {} /\ revived = {}

ApplyStep(c) ==
    \/ Save(c) \/ ReadActive(c) \/ Reconcile(c)
    \/ ReadUserNames(c) \/ SyncV2RayAPI(c)
EnforceStep(a) == ReadRejectNames(a) \/ SyncReject(a) \/ Reload(a)

PipeNext ==
    \/ StoreRequest
    \/ SaveOnly
    \/ \E c \in Clients : ApplyStep(c)
    \/ \E a \in Actors : EnforceStep(a)
    \/ \E p \in Patchers : \/ PatchFails(p)
                          \/ \E n \in Names : \/ GetUser(p, n)
                                             \/ \E s \in {"on", "off"} : PutUser(p, n, s)
    \/ \E n \in Names : Expire(n)
    \/ Tick
    \/ StartProcess
    \/ DiskChanges
    \/ RestartPanel

\* A started handler runs to its end, and the ticker ticks every 30 seconds.
Fairness ==
    /\ WF_pvars(Tick)
    /\ \A a \in Actors : WF_pvars(EnforceStep(a))
    /\ \A c \in Clients : WF_pvars(ApplyStep(c))

PipeSpec == PipeInit /\ [][PipeNext]_pvars /\ Fairness

-----------------------------------------------------------------------------
(* Properties.                                                               *)

\* Every variable of the pipeline keeps its type, the store's included.
PipeTypeOK ==
    /\ TypeOK
    /\ reg \in [Names -> {"absent", "on", "off"}]
    /\ phase \in [Actors -> {"none", "mirror", "reconcile", "v2names", "v2sync",
                             "put", "names", "sync", "reload"}]
    /\ snap \in [Actors -> SUBSET Names]
    /\ loaded \in Doc \cup {NoDoc}

\* Whoever writes config.json brings it to amnezia-box: with no writer on its
\* way to the reload, and no reload known to be missed, the process runs on
\* the published configuration.  Two applies, PATCHes and the ticker may
\* interleave their writes and reloads in any order (config_handlers.go "do
\* NOT add a second reload here").
RunsPublished ==
    (/\ ~missed
     /\ \A c \in Clients : Quiet(c)
     /\ \A s \in Syncers : phase[s] # "reload")
        => loaded \in {NoDoc, disk}

Mirrored == {n \in Names : reg[n] # "absent"}

ReconcilePending == \E c \in Clients : phase[c] \in {"mirror", "reconcile"}

\* "Reconcile makes the registry mirror the active config": with no apply
\* between its save and its reconcile the registry holds the names of the
\* published configuration, no more and no fewer, but for users a PATCH put
\* back from a copy older than the reconcile, and unless the configuration
\* was last published by SaveConfigDraft or while another apply had read it
\* and not yet reconciled.
RegistryMirrorsActive == unmirrored = {} /\ ~ReconcilePending => Mirrored = active.body \cup revived

\* The same without these excuses but the first.
ApplyMirrorsActive == "saved" \notin unmirrored /\ ~ReconcilePending => Mirrored = active.body

\* Disabled and expired users end up rejected in the published configuration,
\* and nobody else does, unless a draft stays pending (which defers the
\* writer) or the disk does not stay writable: stale names written by a slow
\* request and writes that failed are put right by the ticker.
EnforcedOnDisk ==
    <>[](fs = "rw") =>
    <>[](draft # NoDoc
         \/ active.block["reject"] = {n \in Names : reg[n] = "off"})

\* main.go: the ticker "Re-applies enforcement so users expire with no admin
\* action": the running process ends up rejecting them.
EnforcedInProcess ==
    <>[](draft # NoDoc \/ loaded = NoDoc
         \/ loaded.block["reject"] = {n \in Names : reg[n] = "off"})
=============================================================================
