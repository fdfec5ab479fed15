------------------------------ MODULE AwgSingbox ------------------------------
(***************************************************************************)
(* The singbox backend: the server is one endpoint of amnezia-box's        *)
(* configuration, rendered from the manager and the store, written by      *)
(* SyncAwgEndpointActive and loaded by a reload.  An operation is a write  *)
(* of the store or of the manager, then render, sync and reload, and its   *)
(* undoing when the sync or the reload fails.                              *)
(***************************************************************************)
EXTENDS AwgServer

sbVars == <<setting, backend, draft, conf, iface, up, keys>>

\* The handlers' guard: awgSingboxDraftBlocked.
Singbox == backend = "singbox" /\ ~draft

-----------------------------------------------------------------------------
(* What each operation writes first.  A first write that fails leaves no     *)
(* trace, but for the server key.                                            *)

AddPeerSingbox(p) ==
    /\ Singbox /\ Operation
    /\ mem.port # 0 /\ p \notin Known
    /\ Begin("add", p, NoPeer, NoPeer, "render")
    /\ \E adr \in NextFree(Reserved) : SavePeers(With(store, p, NewPeer(adr)))
    /\ UNCHANGED <<key, mem, endpoint, loaded, disable, faults, sbVars>>

RemovePeerSingbox(p) ==
    /\ Singbox /\ Operation
    /\ p \in DOMAIN store
    /\ Begin("remove", p, store[p], NoPeer, "render")
    /\ SavePeers(Without(store, p))
    /\ UNCHANGED <<key, mem, endpoint, loaded, disable, faults, sbVars>>

RenewPeerSingbox(p, exp) ==
    /\ Singbox /\ Operation
    /\ p \in DOMAIN store
    /\ Begin("renew", p, store[p], NoPeer, "render")
    /\ SavePeers([store EXCEPT ![p].exp = exp])
    /\ UNCHANGED <<key, mem, endpoint, loaded, disable, faults, sbVars>>

SweepSingbox ==
    /\ backend = "singbox"
    /\ Begin("sweep", NoPeer, NoPeer, NoPeer, "render")
    /\ UNCHANGED <<store, savedKey, ops, key, mem, endpoint, loaded, disable,
                   faults, sbVars>>

\* The stored key, else the kernel backend's, else a new one.
ServerKey == IF key # 0 THEN key ELSE IF conf.key # 0 THEN conf.key ELSE keys + 1

\* The parameters and enabled are committed before the sync that renders them.
\* SetServerKey does not roll back: a key it could not save stays in memory.
EnableSingbox ==
    /\ Singbox /\ Operation
    /\ keys' = IF ServerKey > keys THEN ServerKey ELSE keys
    /\ key' = ServerKey
    /\ \/ /\ savedKey' = IF key = 0 THEN ServerKey ELSE savedKey
          /\ mem' = [enabled |-> TRUE, port |-> setting.port, key |-> ServerKey]
          /\ Begin("enable", NoPeer, NoPeer, NoPeer, "render") /\ Works
       \/ /\ key = 0 /\ op = Idle /\ Fault(1)
          /\ UNCHANGED <<savedKey, mem, op, adrift>>
    /\ UNCHANGED <<store, setting, backend, draft, endpoint, loaded, conf, iface,
                   disable, up>>

-----------------------------------------------------------------------------
(* singboxSync and what follows it.                                          *)

Render ==
    /\ op.at = "render"
    /\ op' = [op EXCEPT !.at = "sync", !.spec = ServerSpec(mem, store)]
    /\ UNCHANGED <<store, key, savedKey, mem, endpoint, loaded, disable, adrift,
                   ops, faults, sbVars>>

\* Mutant: a failed Enable puts the parameters back but not enabled.
RestoredParams(prev) == [prev EXCEPT !.enabled = mem.enabled]

\* restoreRenderStateLocked: the whole snapshot.
Restored(prev) == prev

\* A failed sync or reload is undone: the peer's record, or the manager's whole
\* snapshot.  The undoing may fail as well.  Sweeps undo nothing, and a reload
\* they lose is lost: the next one finds nothing to change.
RollBack(lost) ==
    /\ End
    /\ \/ /\ op.pub # NoPeer
          /\ \/ SavePeers(Before) /\ Fault(1) /\ UNCHANGED adrift
             \/ UNCHANGED <<store, savedKey>> /\ Fault(2) /\ adrift' = TRUE
          /\ UNCHANGED mem
       \/ /\ op.kind = "enable" /\ Fault(1)
          /\ mem' = Restored(op.prev)
          /\ UNCHANGED <<store, savedKey, adrift>>
       \/ /\ op.kind = "sweep" /\ Fault(1)
          /\ adrift' = (adrift \/ lost)
          /\ UNCHANGED <<store, savedKey, mem>>

\* The handler of Enable persists awg.enabled.
Complete ==
    /\ End
    /\ setting' = [setting EXCEPT !.enabled = @ \/ op.kind = "enable"]
    /\ UNCHANGED <<store, savedKey, mem, faults>>

\* SyncAwgEndpointActive: refused or failed; deferred to a draft, or nothing to
\* change, which the caller takes for success also when the reload of an earlier
\* operation was lost; or written.
Sync ==
    /\ op.at = "sync"
    /\ \/ RollBack(FALSE) /\ UNCHANGED <<endpoint, setting>>
       \/ /\ draft \/ op.spec = endpoint
          /\ Complete
          /\ adrift' = (adrift \/ op.spec # endpoint \/ loaded # endpoint)
          /\ UNCHANGED endpoint
       \/ /\ ~draft /\ op.spec # endpoint
          /\ endpoint' = op.spec
          /\ Goto("reload")
          /\ UNCHANGED <<store, savedKey, mem, setting, adrift, faults>>
    /\ UNCHANGED <<key, loaded, disable, backend, draft, conf, iface, up,
                   keys, ops>>

\* applyAwgReload.  A sweep that writes and loads what the manager and the
\* settings ask for settles whatever was adrift.
ReloadEndpoint ==
    /\ op.at = "reload"
    /\ \/ /\ Complete /\ loaded' = endpoint
          /\ adrift' = (adrift /\ ~( /\ op.kind = "sweep" /\ disable = "idle"
                                     /\ setting.enabled = mem.enabled
                                     /\ endpoint = ServerSpec(mem, store)))
       \/ RollBack(TRUE) /\ UNCHANGED <<loaded, setting>>
    /\ UNCHANGED <<key, endpoint, disable, backend, draft, conf, iface, up,
                   keys, ops>>

-----------------------------------------------------------------------------
(* Disable, which does not take addMu.                                       *)

DisableSingbox ==
    /\ Singbox /\ Operation
    /\ disable = "idle" /\ disable' = "checked"
    /\ adrift' = (adrift \/ op # Idle)
    /\ UNCHANGED <<store, key, savedKey, mem, setting, backend, draft, endpoint,
                   loaded, conf, iface, op, up, keys, faults>>

MarkDisabled == mem' = [mem EXCEPT !.enabled = FALSE]

\* The removal is refused, deferred (and taken for done), idle, or written.
DisableSync ==
    /\ disable = "checked"
    /\ \/ /\ disable' = "idle" /\ Fault(1)
          /\ UNCHANGED <<mem, setting, endpoint, adrift>>
       \/ /\ draft \/ endpoint = Nothing
          /\ disable' = "idle" /\ MarkDisabled
          /\ setting' = [setting EXCEPT !.enabled = FALSE]
          /\ adrift' = (adrift \/ endpoint # Nothing)
          /\ UNCHANGED <<endpoint, faults>>
       \/ /\ ~draft /\ endpoint # Nothing
          /\ endpoint' = Nothing
          /\ disable' = "reload"
          /\ UNCHANGED <<mem, setting, adrift, faults>>
    /\ UNCHANGED <<store, key, savedKey, backend, draft, loaded, conf, iface, op,
                   up, keys, ops>>

\* markDisabled comes after the reload, whatever its outcome; awg.enabled is
\* only persisted when the reload worked.
DisableReload ==
    /\ disable = "reload" /\ disable' = "idle"
    /\ MarkDisabled
    /\ \/ /\ Works /\ loaded' = endpoint
          /\ setting' = [setting EXCEPT !.enabled = FALSE]
          /\ UNCHANGED adrift
       \/ /\ Fault(1) /\ adrift' = TRUE
          /\ UNCHANGED <<loaded, setting>>
    /\ UNCHANGED <<store, key, savedKey, backend, draft, endpoint, conf, iface,
                   op, up, keys, ops>>
=============================================================================
