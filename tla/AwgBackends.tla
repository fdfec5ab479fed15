------------------------------ MODULE AwgBackends ------------------------------
(***************************************************************************)
(* The AmneziaWG server over both backends: settings, the switch between   *)
(* the backends, configuration drafts, the clock, restarts of RouteBox and *)
(* the machine, and what the server promises.                              *)
(***************************************************************************)
EXTENDS AwgSingbox, AwgKernel

Init ==
    /\ backend \in Backends
    /\ setting \in [enabled : {FALSE}, port : Ports]
    /\ mem = IF backend = "singbox" THEN [Cold EXCEPT !.port = setting.port] ELSE Cold
    /\ store = <<>> /\ key = 0 /\ savedKey = 0 /\ keys = 0
    /\ endpoint = Nothing /\ loaded = Nothing /\ conf = Nothing /\ iface = Nothing
    /\ op = Idle /\ disable = "idle" /\ up = "idle"
    /\ draft = FALSE /\ adrift = FALSE
    /\ ops = 0 /\ faults = 0

-----------------------------------------------------------------------------
(* Settings and drafts.                                                      *)

SetPort(n) ==
    /\ Operation
    /\ n # setting.port /\ setting' = [setting EXCEPT !.port = n]
    /\ UNCHANGED <<store, key, savedKey, mem, backend, draft, endpoint, loaded,
                   conf, iface, op, disable, up, adrift, keys, faults>>

\* Status().Enabled and Busy.
Enabled == mem.enabled \/ (Kernel /\ Live)
Busy    == up # "idle" \/ op.kind = "enable"

\* UpdateSettings with awg.backend: the outgoing backend is taken down first,
\* and a reload that fails aborts the switch.
SwitchBackend ==
    /\ Operation
    /\ ~Enabled /\ ~Busy /\ ~draft
    /\ adrift' = (adrift \/ op # Idle \/ disable # "idle")
    /\ \/ /\ Kernel /\ Works /\ backend' = "singbox"
          /\ setting' = [setting EXCEPT !.enabled = FALSE]
          /\ UNCHANGED <<endpoint, loaded>>
       \/ /\ ~Kernel /\ Works /\ backend' = "kernel"
          /\ setting' = [setting EXCEPT !.enabled = FALSE]
          /\ endpoint' = Nothing
          /\ loaded' = IF endpoint = Nothing THEN loaded ELSE Nothing
       \/ /\ ~Kernel /\ endpoint # Nothing /\ Fault(1)
          /\ endpoint' = Nothing
          /\ UNCHANGED <<backend, setting, loaded>>
    /\ UNCHANGED <<store, key, savedKey, mem, draft, conf, iface, op, disable, up,
                   keys>>

StartDraft ==
    /\ Operation
    /\ ~draft /\ draft' = TRUE
    /\ UNCHANGED <<store, key, savedKey, mem, setting, backend, endpoint, loaded,
                   conf, iface, op, disable, up, adrift, keys, faults>>

DiscardDraft ==
    /\ draft /\ draft' = FALSE
    /\ UNCHANGED <<store, key, savedKey, mem, setting, backend, endpoint, loaded,
                   conf, iface, op, disable, up, adrift, keys, ops, faults>>

\* The draft holds the endpoint the active configuration had: the process loads
\* it, with what a failed operation may have left there.
ApplyDraft ==
    /\ draft /\ draft' = FALSE
    /\ loaded' = endpoint
    /\ adrift' = (adrift \/ loaded # endpoint)
    /\ UNCHANGED <<store, key, savedKey, mem, setting, backend, endpoint, conf,
                   iface, op, disable, up, keys, ops, faults>>

\* Time passes an ExpiresAt.
Expire(p) ==
    /\ p \in DOMAIN store /\ store[p].exp = "timed"
    /\ store' = [store EXCEPT ![p].exp = "past"]
    /\ UNCHANGED <<key, savedKey, mem, setting, backend, draft, endpoint, loaded,
                   conf, iface, op, disable, up, adrift, keys, ops, faults>>

-----------------------------------------------------------------------------
(* A restart of RouteBox, of amnezia-box, or of the machine.                 *)

\* RehydrateSingbox; ReconcileBackendResidue takes a leftover interface down.
RestartSingbox ==
    /\ backend = "singbox"
    /\ mem' = [enabled |-> setting.enabled /\ savedKey # 0,
               port |-> setting.port, key |-> savedKey]
    /\ iface' = IF conf = Nothing THEN iface ELSE Nothing
    /\ loaded' \in {loaded, endpoint} /\ UNCHANGED endpoint

\* Rehydrate, RestoreKernelIface; ReconcileBackendResidue drops an endpoint.
RestartKernel ==
    /\ Kernel
    /\ \E present \in {iface, Nothing, IF setting.enabled THEN conf ELSE Nothing} :
          /\ iface' = present
          /\ mem' = IF conf = Nothing THEN Cold
                    ELSE [enabled |-> present # Nothing, port |-> setting.port,
                          key |-> conf.key]
    /\ endpoint' = Nothing
    /\ loaded' = IF endpoint = Nothing THEN loaded ELSE Nothing

Restart ==
    /\ Operation
    /\ op' = Idle /\ disable' = "idle" /\ up' = "idle" /\ draft' = FALSE
    /\ key' = savedKey
    /\ RestartSingbox \/ RestartKernel
    /\ adrift' = \/ adrift \/ op # Idle \/ disable # "idle" \/ up # "idle"
                 \/ mem'.port # mem.port \/ key # savedKey \/ loaded # endpoint
    /\ UNCHANGED <<store, savedKey, setting, backend, conf, keys, faults>>

-----------------------------------------------------------------------------
Request ==
    \/ EnableSingbox \/ DisableSingbox \/ EnableKernel \/ DisableKernel
    \/ \E p \in Peers :
          \/ AddPeerSingbox(p) \/ RemovePeerSingbox(p)
          \/ AddPeerKernel(p) \/ RemovePeerKernel(p)
          \/ \E exp \in {"never", "timed"} :
                RenewPeerSingbox(p, exp) \/ RenewPeerKernel(p, exp)

OpStep ==
    \/ Render \/ Sync \/ ReloadEndpoint
    \/ SetLive \/ Strip \/ Append \/ PutPeer \/ Unconf \/ Delete

DisableStep == DisableSync \/ DisableReload
UpStep      == IfaceUp \/ EnableSweep
Sweep       == SweepSingbox \/ SweepKernel

Next ==
    \/ Request \/ OpStep \/ DisableStep \/ UpStep \/ Sweep
    \/ \E n \in Ports : SetPort(n)
    \/ SwitchBackend \/ StartDraft \/ DiscardDraft \/ ApplyDraft \/ Restart
    \/ \E p \in Peers : Expire(p)

\* A request that began runs to its end, and the ticker sweeps every 30 seconds.
Fairness == /\ WF_awgVars(OpStep) /\ WF_awgVars(DisableStep)
            /\ WF_awgVars(UpStep) /\ WF_awgVars(Sweep)

Spec == Init /\ [][Next]_awgVars /\ Fairness

-----------------------------------------------------------------------------
(* What the server promises.                                                 *)

\* Types; an address is a host's, never the server's own.
AwgTypeOK ==
    /\ DOMAIN store \subseteq Peers
    /\ \A p \in DOMAIN store : store[p] \in Peer
    /\ {key, savedKey, mem.key, conf.key, keys} \subseteq 0..(2 * MaxOps)
    /\ {mem.port, setting.port, conf.port} \subseteq Ports \cup {0}
    /\ backend \in {"kernel", "singbox"}
    /\ op.pub \in Peers \cup {NoPeer}

\* No two stored peers have one address, through suspensions, renewals,
\* rollbacks and switches: a renewed peer finds its address still its own
\* (usedFromStore, manager.go:1013-1015).
AddressesDistinct ==
    \A p, q \in DOMAIN store : store[p].addr = store[q].addr => p = q

Current == {p \in DOMAIN store : store[p].exp # "past"}

\* Every current peer is served, at its address, and no peer the store does not
\* know.  An expired one may be, until the next sweep.
ServesPeers(peers) ==
    /\ Current \subseteq DOMAIN peers
    /\ \A p \in DOMAIN peers : p \in DOMAIN store /\ peers[p] = store[p].addr

\* Between operations, what serves is what the manager describes and the store
\* lists, after any sequence of operations, sweeps and failures they compensate:
\* the commit rule of manager.go:177-233.  The failures nothing compensates, and
\* the operations that overlap one without the lock, are recorded in adrift.
Served ==
    op = Idle /\ disable = "idle" /\ up = "idle" /\ ~adrift =>
        \/ Kernel /\ ~Live
        \/ /\ Kernel
           /\ \A serving \in {iface, conf} :
                 /\ serving.port = mem.port /\ serving.key = mem.key
                 /\ ServesPeers(serving.peers)
        \/ /\ ~Kernel /\ mem.enabled /\ mem.key # 0
           /\ loaded.port = mem.port /\ loaded.key = mem.key
           /\ ServesPeers(loaded.peers)
        \/ ~Kernel /\ ~(mem.enabled /\ mem.key # 0) /\ loaded = Nothing

\* The configuration, or the interface, without expired and removed peers; the
\* managed endpoint is there exactly while the manager is enabled, with every
\* current peer.
Healed ==
    IF Kernel
    THEN DOMAIN iface.peers \subseteq Current
    ELSE IF mem.enabled /\ mem.key # 0
         THEN /\ endpoint.port = mem.port /\ endpoint.key = mem.key
              /\ DOMAIN endpoint.peers = Current
         ELSE endpoint = Nothing

\* Once requests and failures cease and no draft stays open, the sweeps settle
\* the configuration or the interface for good, whatever happened before.
EventuallyHealed == <>[]~draft => <>[]Healed

\* A RemovePeer that reports success, with no draft in its way and nothing adrift
\* before it, leaves amnezia-box without the peer (manager.go:810-812: "dropping
\* its secret would strand a live client the panel can no longer see or delete").
RemovedIsNotServed ==
    [][backend = "singbox" /\ ~draft /\ ~adrift
       /\ op.kind = "remove" /\ op' = Idle /\ faults' = faults /\ ops' = ops
           => op.pub \notin DOMAIN loaded'.peers]_awgVars

\* The server key of an enabled singbox server is in peers.toml, from where a
\* restart reads it (store.go:107: "ServerKey returns the persisted server
\* private key").
ServedKeyIsSaved ==
    backend = "singbox" /\ op = Idle /\ mem.enabled => savedKey = mem.key
=============================================================================
