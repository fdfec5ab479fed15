--------------------------- MODULE TelegramProxy ---------------------------
(***************************************************************************)
(* The built-in Telegram proxy: its client roster (mtproto/store.go), the  *)
(* running proxy that snapshots it (mtproto/manager.go), the expiry sweep  *)
(* and the traffic flush (mtproto/ticker.go, events.go), the handlers of   *)
(* the Telegram page (api/mtproto_handlers.go) and the SOCKS inbound and   *)
(* route rule they keep in the active configuration                        *)
(* (config/mtproto_socks.go).                                              *)
(*                                                                         *)
(* A secret is the number of its mint, a byte count is in units, a         *)
(* configuration is what the managed sync reads and writes of it.          *)
(***************************************************************************)
EXTENDS Naturals, FiniteSets

CONSTANTS
    Names,      \* client names
    Outs,       \* tags of outbounds and endpoints
    Ports,      \* loopback ports for the SOCKS inbound
    Requests,   \* concurrent requests to the handlers
    Kinds,      \* the requests a run lets happen
    Faults,     \* the failures and outside events a run lets happen
    Metered,    \* the clients whose traffic is followed
    None,       \* no client, no proxy, no inbound, the direct exit
    MaxMints, MaxOps, MaxFaults, MaxBytes   \* bounds

ASSUME TelegramAssumption ==
    /\ None \notin Outs /\ None \notin Ports /\ Ports # {}
    /\ Kinds \subseteq {"create", "delete", "update", "rotate", "settings", "enable", "disable"}
    /\ Faults \subseteq {"roster", "listen", "settings", "config", "stage", "exits",
                         "boot", "upsert"}
    /\ MaxMints \in Nat /\ MaxOps \in Nat /\ MaxFaults \in Nat /\ MaxBytes \in Nat

VARIABLES
    now,       \* 0, then 1: the deadline of clients that have one passes
    minted,    \* secrets generated so far
    mem, disk, \* the roster: Store.byName and mtproto.toml
    proxy,     \* Manager.proxy with the clients it serves, None when stopped
    cfg,       \* Manager.cfg.SocksProxy of the last start
    pending,   \* EventStream.totals
    held,      \* what the flush loop drained and has not written yet
    stored,    \* the rows of user_traffic
    carried,   \* history: what each client has sent
    set, setDisk,  \* the [mtproto] settings in memory and on disk
    active,    \* the active configuration: inbound, rule, exits, ports taken
    draft,     \* the draft, None without one
    req,       \* where each request is
    sweep,     \* the expiry loop
    stale,     \* history: the settings and the configuration could not be kept in step
    ops, faults

rosterVars  == <<minted, mem, disk>>
proxyVars   == <<proxy, cfg>>
trafficVars == <<pending, held, stored, carried>>
routeVars   == <<set, setDisk, active, draft, stale>>
teleVars    == <<now, rosterVars, proxyVars, trafficVars, routeVars, req, sweep, ops, faults>>

Client  == [secret : 1..MaxMints, enabled : BOOLEAN, until : {0, 1}]
NoBytes == [n \in Names |-> 0]
Idle    == [at |-> "idle", kind |-> "none", name |-> None, client |-> None,
            copy |-> None, prev |-> None]
Asleep  == [at |-> "idle", left |-> <<>>, changed |-> FALSE]

Fault(k) == k \in Faults /\ faults < MaxFaults /\ faults' = faults + 1
NoFault  == UNCHANGED faults

Expired(c) == c.until # 0 /\ now >= c.until

-----------------------------------------------------------------------------
(* The roster file: memory is put back when the write fails.                 *)

Stored(n, c) == mem' = [mem EXCEPT ![n] = c] /\ disk' = mem'

\* Put, and Delete with c = None.
Put(n, c) == \/ Stored(n, c) /\ NoFault
             \/ UNCHANGED <<mem, disk>> /\ Fault("roster")

-----------------------------------------------------------------------------
(* The proxy.                                                                *)

\* Store.Active
Active == {n \in Names : mem[n] # None /\ mem[n].enabled /\ ~Expired(mem[n])}

Served == IF proxy = None THEN {} ELSE DOMAIN proxy

NotStarted == proxy' = None /\ UNCHANGED <<cfg, pending>>

\* startLocked: a new event stream with each proxy; a failure leaves the old
\* stream and configuration.
Started(via) ==
    \/ /\ Active # {} /\ NoFault
       /\ proxy' = [n \in Active |-> mem[n].secret] /\ cfg' = via
       /\ pending' = NoBytes
    \/ Active = {} /\ NotStarted /\ NoFault
    \/ Active # {} /\ NotStarted /\ Fault("listen")

\* Rebuild: stop and start with the configuration of the last start.
Rebuilt == IF proxy = None THEN NoFault /\ UNCHANGED <<proxyVars, pending>>
           ELSE Started(cfg)

-----------------------------------------------------------------------------
(* The requests.                                                             *)

Reached(r, k) == req[r].at = k
Go(r, q)      == req' = [req EXCEPT ![r] = q]
To(r, s)      == Go(r, [req[r] EXCEPT !.at = s])
Done(r)       == Go(r, Idle)
Open(r, k)    == k \in Kinds /\ req[r] = Idle /\ ops < MaxOps /\ ops' = ops + 1

Mint == minted < MaxMints /\ minted' = minted + 1

\* Store().Get, and the client as it will be put back.
Create(r, n) ==
    /\ Open(r, "create") /\ mem[n] = None /\ Mint
    /\ \E t \in {0, 1} :
         Go(r, [Idle EXCEPT !.at = "put", !.kind = "create", !.name = n,
                  !.client = [secret |-> minted', enabled |-> TRUE, until |-> t]])

Delete(r, n) ==
    /\ Open(r, "delete") /\ mem[n] # None /\ UNCHANGED minted
    /\ Go(r, [Idle EXCEPT !.at = "put", !.kind = "delete", !.name = n])

Update(r, n) ==
    /\ Open(r, "update") /\ mem[n] # None /\ UNCHANGED minted
    /\ \E e \in BOOLEAN, t \in {0, 1} :
         Go(r, [Idle EXCEPT !.at = "put", !.kind = "update", !.name = n,
                  !.client = [mem[n] EXCEPT !.enabled = e, !.until = t]])

Rotate(r, n) ==
    /\ Open(r, "rotate") /\ mem[n] # None /\ Mint
    /\ Go(r, [Idle EXCEPT !.at = "put", !.kind = "rotate", !.name = n,
                !.client = [mem[n] EXCEPT !.secret = minted']])

RosterRequest(r, n) ==
    /\ Create(r, n) \/ Delete(r, n) \/ Update(r, n) \/ Rotate(r, n)
    /\ UNCHANGED <<now, mem, disk, proxyVars, trafficVars, routeVars, sweep, faults>>

PutBack(r) ==
    /\ Reached(r, "put")
    /\ Put(req[r].name, req[r].client)
    /\ IF faults' = faults THEN To(r, "rebuild") ELSE Done(r)
    /\ UNCHANGED <<now, minted, proxyVars, trafficVars, routeVars, sweep, ops>>

\* Mutant: an update of a client does not rebuild.
RebuildSelective(r) ==
    /\ Reached(r, "rebuild") /\ Done(r)
    /\ IF req[r].kind = "update" THEN NoFault /\ UNCHANGED <<proxyVars, pending>> ELSE Rebuilt
    /\ UNCHANGED <<now, rosterVars, held, stored, carried, routeVars, sweep, ops>>

\* The answer depends on the failure, the state does not.
Rebuild(r) ==
    /\ Reached(r, "rebuild") /\ Done(r)
    /\ Rebuilt
    /\ UNCHANGED <<now, rosterVars, held, stored, carried, routeVars, sweep, ops>>

-----------------------------------------------------------------------------
(* The managed inbound and rule.                                             *)

Wanted(s) == IF s.out = None THEN [port |-> None, rule |-> None]
             ELSE [port |-> s.port, rule |-> s.out]
Managed(c) == [port |-> c.port, rule |-> c.rule]
WithManaged(c, w) == [c EXCEPT !.port = w.port, !.rule = w.rule]

\* SocksProxyAddr
Via(s) == IF s.out = None THEN None ELSE s.port

Conflict(c, w) == w.port # None /\ w.port \in c.taken

\* SyncMtprotoSocksActive: deferred by a draft, refused on a port conflict or
\* a failed write, change-gated.  ok says whether it returned no error.
Synced(s, ok) ==
    LET w == Wanted(s) IN
    \/ /\ draft # None /\ ok /\ NoFault
       /\ UNCHANGED active
    \/ /\ draft = None /\ Conflict(active, w) /\ ~ok /\ NoFault
       /\ UNCHANGED active
    \/ /\ draft = None /\ ~Conflict(active, w) /\ ok /\ NoFault
       /\ active' = WithManaged(active, w)
    \/ /\ draft = None /\ ~Conflict(active, w) /\ Managed(active) # w /\ ~ok
       /\ Fault("config")
       /\ \/ UNCHANGED active                       \* the write failed
          \/ active' = WithManaged(active, w)       \* reload and restart did

\* A sync answered success, but a draft deferred it or another request has
\* changed the settings since they were read for it ...
Overtaken(r)   == Wanted(req[r].copy) # Wanted(set)
AfterSync(r)   == stale' = (Overtaken(r) \/ Managed(active') # Wanted(req[r].copy))
\* ... or an error left the configuration written.
AfterFailed(r) == stale' = (stale \/ Overtaken(r) \/ faults' # faults)

\* settings.Update of the exit and the port, one assignment under the lock.
Assigned(s, o, p) == [s EXCEPT !.out = o, !.port = p]

\* UpdateMtprotoSettings up to settings.Update: the exit must be there and no
\* draft pending; the block as it was is remembered.
Settings(r) ==
    /\ Open(r, "settings") /\ draft = None
    /\ \E o \in active.outs \cup {None}, p \in Ports :
         /\ Go(r, [Idle EXCEPT !.at = "sync", !.kind = "settings", !.prev = set,
                     !.copy = Assigned(set, o, p)])
         /\ set' = Assigned(set, o, p)
    /\ UNCHANGED <<now, rosterVars, proxyVars, trafficVars, setDisk, active, draft,
                   stale, sweep, faults>>

\* Mutant: the settings keep a route that could not be written.
SyncSettingsNoRollback(r) ==
    /\ Reached(r, "sync") /\ req[r].kind = "settings"
    /\ \/ Synced(req[r].copy, TRUE) /\ To(r, "save") /\ AfterSync(r)
       \/ Synced(req[r].copy, FALSE) /\ Done(r) /\ AfterFailed(r)
    /\ UNCHANGED set
    /\ UNCHANGED <<now, rosterVars, proxyVars, trafficVars, setDisk, draft, sweep, ops>>

\* syncMtprotoSocks with the settings just read; an error puts the exit and
\* the port back in memory.
SyncSettings(r) ==
    /\ Reached(r, "sync") /\ req[r].kind = "settings"
    /\ \/ /\ Synced(req[r].copy, TRUE) /\ To(r, "save") /\ AfterSync(r)
          /\ UNCHANGED set
       \/ /\ Synced(req[r].copy, FALSE) /\ Done(r) /\ AfterFailed(r)
          /\ set' = Assigned(set, req[r].prev.out, req[r].prev.port)
    /\ UNCHANGED <<now, rosterVars, proxyVars, trafficVars, setDisk, draft, sweep, ops>>

\* settings.Save: memory stays ahead of the file when it fails.
Saved == \/ setDisk' = set' /\ NoFault
         \/ UNCHANGED setDisk /\ Fault("settings")

SaveSettings(r) ==
    /\ Reached(r, "save") /\ UNCHANGED set
    /\ Saved
    /\ IF faults' = faults THEN To(r, "rebuild") ELSE Done(r)
    /\ UNCHANGED <<now, rosterVars, proxyVars, trafficVars, active, draft, stale, sweep, ops>>

\* EnableMtproto: sync, start, persist.
Enable(r) ==
    /\ Open(r, "enable")
    /\ Go(r, [Idle EXCEPT !.at = "sync", !.kind = "enable", !.copy = set])
    /\ UNCHANGED <<now, rosterVars, proxyVars, trafficVars, routeVars, sweep, faults>>

SyncEnable(r) ==
    /\ Reached(r, "sync") /\ req[r].kind = "enable"
    /\ \/ /\ Synced(req[r].copy, TRUE) /\ AfterSync(r)
          /\ Go(r, [req[r] EXCEPT !.at = "start", !.copy = set])
       \/ Synced(req[r].copy, FALSE) /\ Done(r) /\ AfterFailed(r)
    /\ UNCHANGED <<now, rosterVars, proxyVars, trafficVars, set, setDisk, draft, sweep, ops>>

\* Manager.Start: refused while a proxy runs.
Start(r) ==
    /\ Reached(r, "start")
    /\ IF proxy # None
         THEN NoFault /\ UNCHANGED <<proxyVars, pending>> /\ Done(r)
         ELSE /\ Started(Via(req[r].copy))
              /\ IF proxy' # None THEN To(r, "persist") ELSE Done(r)
    /\ UNCHANGED <<now, rosterVars, held, stored, carried, routeVars, sweep, ops>>

\* DisableMtproto.
Stop(r) ==
    /\ Open(r, "disable")
    /\ proxy' = None
    /\ Go(r, [Idle EXCEPT !.at = "persist", !.kind = "disable"])
    /\ UNCHANGED <<now, rosterVars, cfg, trafficVars, routeVars, sweep, faults>>

\* persistMtprotoEnabled: best effort.
Persist(r) ==
    /\ Reached(r, "persist") /\ Done(r)
    /\ set' = [set EXCEPT !.on = req[r].kind = "enable"]
    /\ Saved
    /\ UNCHANGED <<now, rosterVars, proxyVars, trafficVars, active, draft, stale, sweep, ops>>

-----------------------------------------------------------------------------
(* Other writers of the configuration.                                       *)

\* An operator stages a draft, perhaps without the managed rule or an exit.
Stage ==
    /\ draft = None /\ Fault("stage")
    /\ \E rule \in {active.rule, None}, taken \in {active.taken, {}} \cup {{p} : p \in Ports},
          outs \in IF "exits" \in Faults THEN SUBSET active.outs ELSE {active.outs} :
         /\ (rule = None \/ rule \in outs) /\ (active.port = None \/ active.port \notin taken)
         /\ draft' = [active EXCEPT !.rule = rule, !.taken = taken, !.outs = outs]
    /\ UNCHANGED <<now, rosterVars, proxyVars, trafficVars, set, setDisk, active, stale,
                   req, sweep, ops>>

Discard ==
    /\ draft # None /\ draft' = None
    /\ NoFault
    /\ UNCHANGED <<now, rosterVars, proxyVars, trafficVars, set, setDisk, active, stale,
                   req, sweep, ops>>

\* ApplyConfig: the save and the re-assertion after it; a failure of the
\* latter is only logged.
Apply ==
    /\ draft # None /\ draft' = None
    /\ LET w == Wanted(set) IN
         \/ /\ ~Conflict(draft, w) /\ NoFault
            /\ active' = WithManaged(draft, w) /\ stale' = FALSE
         \/ /\ IF Conflict(draft, w) THEN NoFault
               ELSE Managed(draft) # w /\ Fault("config")
            /\ active' = draft /\ stale' = TRUE
    /\ UNCHANGED <<now, rosterVars, proxyVars, trafficVars, set, setDisk, req, sweep, ops>>

-----------------------------------------------------------------------------
(* The expiry loop.                                                          *)

Lapse == /\ now = 0 /\ now' = 1
         /\ UNCHANGED <<rosterVars, proxyVars, trafficVars, routeVars, req, sweep, ops, faults>>

ToDisable == {n \in Names : mem[n] # None /\ mem[n].enabled /\ Expired(mem[n])}

\* SweepExpired: the list is a copy.
SweepList ==
    /\ sweep.at = "idle" /\ ToDisable # {}
    /\ sweep' = [at |-> "put", changed |-> FALSE,
                 left |-> [n \in ToDisable |-> [mem[n] EXCEPT !.enabled = FALSE]]]
    /\ UNCHANGED <<now, rosterVars, proxyVars, trafficVars, routeVars, req, ops, faults>>

SweepPut ==
    /\ sweep.at = "put"
    /\ \E n \in DOMAIN sweep.left :
         /\ Put(n, sweep.left[n])
         /\ LET left == [m \in DOMAIN sweep.left \ {n} |-> sweep.left[m]]
                ch   == sweep.changed \/ faults' = faults
            IN  sweep' = IF DOMAIN left # {} THEN [at |-> "put", left |-> left, changed |-> ch]
                         ELSE IF ch THEN [Asleep EXCEPT !.at = "rebuild"]
                         ELSE Asleep
    /\ UNCHANGED <<now, minted, proxyVars, trafficVars, routeVars, req, ops>>

\* Mutant: the sweep leaves the rebuild to somebody else.
SweepNoRebuild ==
    /\ sweep.at = "rebuild" /\ sweep' = Asleep
    /\ NoFault /\ UNCHANGED <<proxyVars, pending>>
    /\ UNCHANGED <<now, rosterVars, held, stored, carried, routeVars, req, ops>>

SweepRebuild ==
    /\ sweep.at = "rebuild" /\ sweep' = Asleep
    /\ Rebuilt
    /\ UNCHANGED <<now, rosterVars, held, stored, carried, routeVars, req, ops>>

SweepStep == SweepList \/ SweepPut \/ SweepRebuild

-----------------------------------------------------------------------------
(* Traffic.                                                                  *)

\* A matched stream of client n moves a unit.
Traffic(n) ==
    /\ n \in Served \cap Metered /\ carried[n] < MaxBytes
    /\ pending' = [pending EXCEPT ![n] = @ + 1]
    /\ carried' = [carried EXCEPT ![n] = @ + 1]
    /\ UNCHANGED <<now, rosterVars, proxyVars, held, stored, routeVars, req, sweep, ops, faults>>

\* Mutant: the counters are copied and not reset.
DrainKeeps ==
    /\ held = NoBytes /\ pending # NoBytes
    /\ held' = pending
    /\ UNCHANGED <<now, rosterVars, proxyVars, pending, stored, carried, routeVars, req,
                   sweep, ops, faults>>

\* DrainTotals of the present stream.
Drain ==
    /\ held = NoBytes /\ pending # NoBytes
    /\ held' = pending /\ pending' = NoBytes
    /\ UNCHANGED <<now, rosterVars, proxyVars, stored, carried, routeVars, req,
                   sweep, ops, faults>>

\* UpsertUser adds to the row of the minute; a failure is logged and skipped.
Upsert ==
    /\ \E n \in Names :
         /\ held[n] > 0 /\ held' = [held EXCEPT ![n] = 0]
         /\ \/ stored' = [stored EXCEPT ![n] = @ + held[n]] /\ NoFault
            \/ UNCHANGED stored /\ Fault("upsert")
    /\ UNCHANGED <<now, rosterVars, proxyVars, pending, carried, routeVars, req, sweep, ops>>

-----------------------------------------------------------------------------
(* RouteBox starts again.  The draft does not survive; the managed sync runs *)
(* before the proxy is started, and both before any request.                 *)

Boot ==
    /\ Fault("boot")
    /\ mem' = disk /\ set' = setDisk /\ draft' = None
    /\ LET w == Wanted(setDisk)
           on == {n \in Names : disk[n] # None /\ disk[n].enabled /\ ~Expired(disk[n])}
       IN  /\ active' = IF Conflict(active, w) THEN active ELSE WithManaged(active, w)
           /\ stale' = Conflict(active, w)
           /\ IF setDisk.on /\ on # {}
                THEN proxy' = [n \in on |-> disk[n].secret] /\ cfg' = Via(setDisk)
                ELSE proxy' = None /\ cfg' = None
    /\ pending' = NoBytes /\ held' = NoBytes
    /\ req' = [r \in Requests |-> Idle] /\ sweep' = Asleep
    /\ UNCHANGED <<now, minted, disk, stored, carried, setDisk, ops>>

TeleInit ==
    /\ now = 0 /\ minted = 0
    /\ mem = [n \in Names |-> None] /\ disk = mem
    /\ proxy = None /\ cfg = None
    /\ pending = NoBytes /\ held = NoBytes /\ stored = NoBytes /\ carried = NoBytes
    /\ set = [out |-> None, port |-> CHOOSE p \in Ports : TRUE, on |-> FALSE]
    /\ setDisk = set
    /\ active = [port |-> None, rule |-> None, outs |-> Outs, taken |-> {}]
    /\ draft = None /\ stale = FALSE
    /\ req = [r \in Requests |-> Idle] /\ sweep = Asleep
    /\ ops = 0 /\ faults = 0

RequestStep(r) == \/ PutBack(r) \/ Rebuild(r) \/ SyncSettings(r) \/ SaveSettings(r)
                  \/ SyncEnable(r) \/ Start(r) \/ Persist(r)

TeleNext ==
    \/ \E r \in Requests : \/ \E n \in Names : RosterRequest(r, n)
                           \/ Settings(r) \/ Enable(r) \/ Stop(r)
                           \/ RequestStep(r)
    \/ Stage \/ Discard \/ Apply
    \/ Lapse \/ SweepStep
    \/ \E n \in Names : Traffic(n)
    \/ Drain \/ Upsert
    \/ Boot

\* The 30-second ticker runs for ever, and a handler's goroutine runs on.
TeleFairness == /\ WF_teleVars(SweepStep)
                /\ \A r \in Requests : WF_teleVars(RequestStep(r))

TeleSpec == TeleInit /\ [][TeleNext]_teleVars /\ TeleFairness

-----------------------------------------------------------------------------
Setting == [out : Outs \cup {None}, port : Ports, on : BOOLEAN]
Config  == [port : Ports \cup {None}, rule : Outs \cup {None},
            outs : SUBSET Outs, taken : SUBSET Ports]

TeleTypeOK ==
    /\ mem \in [Names -> Client \cup {None}] /\ disk \in [Names -> Client \cup {None}]
    /\ Served \subseteq Names /\ (proxy # None => Served # {})
    /\ cfg \in Ports \cup {None}
    /\ set \in Setting /\ setDisk \in Setting
    /\ active \in Config /\ draft \in Config \cup {None}

Quiet == (\A r \in Requests : req[r] = Idle) /\ sweep = Asleep

\* Between requests a running proxy accepts the enabled clients of the roster
\* with their present secrets, all those that have not expired and no other
\* (Rebuild: no secret an operator revoked is still being served).
ServesRoster ==
    Quiet /\ proxy # None =>
        /\ Active \subseteq Served
        /\ \A n \in Served : mem[n] # None /\ mem[n].enabled /\ mem[n].secret = proxy[n]

\* Between requests a running proxy dials through the exit the settings name:
\* "A running proxy has to pick up the new listen address, masking domain or
\* outbound" (UpdateMtprotoSettings).
ExitFollowsSettings == Quiet /\ proxy # None => cfg = Via(set)

\* An expired client is not served for ever: the sweep disables and rebuilds,
\* whatever requests overlap with it and even when a write or a start fails.
ExpiredLeaves ==
    \A n \in Names :
        (proxy # None /\ n \in Served /\ mem[n] # None /\ Expired(mem[n]))
            ~> (n \notin Served \/ (mem[n] # None /\ ~Expired(mem[n])))

\* No unit of traffic is billed twice or to another client (DrainTotals, and
\* attribution by the client a stream authenticated as).
BilledOnce == \A n \in Names : stored[n] + held[n] + pending[n] <= carried[n]

\* Between requests and drafts the inbound and the rule in config.json are
\* what the settings call for, unless a sync could not be written or was
\* deferred (UpdateMtprotoSettings rolls the settings back, ApplyConfig and
\* the start re-assert the pair).
RoutingMatchesSettings ==
    Quiet /\ draft = None /\ ~stale => Managed(active) = Wanted(set)
=============================================================================
