------------------------------- MODULE AwgKernel -------------------------------
(***************************************************************************)
(* The kernel backend: the server is the interface awg-rb0, changed peer   *)
(* by peer with `awg set`, and the file awg-quick brings it up from.  A    *)
(* peer is admitted in three writes and suspended in two, each with its    *)
(* own failure.  Enable writes the file under addMu and restarts the       *)
(* interface without it.                                                   *)
(***************************************************************************)
EXTENDS AwgServer

krVars == <<key, draft, endpoint, loaded, disable>>

Kernel == backend = "kernel"
Live   == iface # Nothing
Taken  == Reserved \cup Range(conf.peers)

-----------------------------------------------------------------------------
(* admit: `awg set`, then the .conf without the peer's old block, then with  *)
(* its new one.                                                              *)

\* AddPeer: the address is free in the store and in the .conf.
AddPeerKernel(p) ==
    /\ Kernel /\ Live /\ Operation
    /\ mem.port # 0 /\ p \notin Known
    /\ \E adr \in NextFree(Taken) :
          /\ Begin("add", p, NoPeer, NewPeer(adr), "strip")
          /\ iface' = Serve(iface, p, adr)
    /\ UNCHANGED <<store, savedKey, mem, setting, backend, conf, up, keys,
                   faults, krVars>>

\* RenewPeer stores the new expiry first.
RenewPeerKernel(p, exp) ==
    /\ Kernel /\ Operation
    /\ p \in DOMAIN store
    /\ LET new == [store[p] EXCEPT !.exp = exp] IN
          /\ Begin("renew", p, store[p], new, "set")
          /\ SavePeers(With(store, p, new))
    /\ UNCHANGED <<mem, setting, backend, conf, iface, up, keys, faults,
                   krVars>>

\* RenewPeer puts the old record back, if it can; AddPeer stored nothing yet.
RestoreExpiry(n) ==
    \/ op.kind = "renew" /\ Fault(n) /\ SavePeers(Before)
    \/ /\ Fault(IF op.kind = "renew" THEN n + 1 ELSE n)
       /\ UNCHANGED <<store, savedKey>>

SetLive ==
    /\ op.at = "set"
    /\ \/ /\ Live /\ Works
          /\ iface' = Serve(iface, op.pub, op.new.addr)
          /\ Goto("strip") /\ UNCHANGED <<store, savedKey, adrift>>
       \/ /\ RestoreExpiry(IF Live THEN 1 ELSE 0)
          /\ adrift' = (adrift \/ store' # Before)
          /\ End /\ UNCHANGED iface
    /\ UNCHANGED <<mem, setting, backend, conf, up, keys, ops, krVars>>

\* A .conf that cannot be written: the peer is taken off the interface again,
\* also one that was there before.
Unadmit ==
    /\ End
    /\ \E n \in {1, 2} :
          /\ RestoreExpiry(n)
          /\ iface' = IF n = 1 THEN Drop(iface, op.pub) ELSE iface
          /\ adrift' = (adrift \/ n = 2 \/ op.kind = "renew")

Strip ==
    /\ op.at = "strip"
    /\ \/ /\ Works /\ conf' = Drop(conf, op.pub) /\ Goto("append")
          /\ UNCHANGED <<store, savedKey, iface, adrift>>
       \/ Unadmit /\ UNCHANGED conf
    /\ UNCHANGED <<mem, setting, backend, up, keys, ops, krVars>>

Append ==
    /\ op.at = "append"
    /\ \/ /\ Works /\ conf' = Serve(conf, op.pub, op.new.addr)
          /\ IF op.kind = "renew" THEN End ELSE Goto("put")
          /\ UNCHANGED <<store, savedKey, iface, adrift>>
       \/ Unadmit /\ UNCHANGED conf
    /\ UNCHANGED <<mem, setting, backend, up, keys, ops, krVars>>

\* Mutant: a peer that could not be stored is left live.
NotSuspended(p) == UNCHANGED <<iface, conf>> /\ Fault(1) /\ UNCHANGED adrift

\* suspend as a compensation: both writes, or the first, or none.
Suspended(p) ==
    \/ iface' = Drop(iface, p) /\ conf' = Drop(conf, p) /\ Fault(1)
       /\ UNCHANGED adrift
    \/ /\ iface' \in {iface, Drop(iface, p)} /\ UNCHANGED conf
       /\ Fault(2) /\ adrift' = TRUE

\* AddPeer's last write, the secret.
PutPeer ==
    /\ op.at = "put" /\ End
    /\ \/ /\ SavePeers(With(store, op.pub, op.new))
          /\ Works /\ UNCHANGED <<iface, conf, adrift>>
       \/ Suspended(op.pub) /\ UNCHANGED <<store, savedKey>>
    /\ UNCHANGED <<mem, setting, backend, up, keys, ops, krVars>>

-----------------------------------------------------------------------------
(* RemovePeer: suspend, then the secret.  Keys the store does not know are   *)
(* taken off as well.                                                        *)

RemovePeerKernel(p) ==
    /\ Kernel /\ Live /\ Operation
    /\ Begin("remove", p, IF p \in DOMAIN store THEN store[p] ELSE NoPeer,
             NoPeer, "unconf")
    /\ iface' = Drop(iface, p)
    /\ UNCHANGED <<store, savedKey, mem, setting, backend, conf, up, keys,
                   faults, krVars>>

\* A .conf that cannot be rewritten ends the removal half way.
Unconf ==
    /\ op.at = "unconf"
    /\ \/ conf' = Drop(conf, op.pub) /\ Works /\ Goto("delete")
          /\ UNCHANGED adrift
       \/ UNCHANGED conf /\ Fault(1) /\ End /\ adrift' = TRUE
    /\ UNCHANGED <<store, savedKey, mem, setting, backend, iface, up, keys,
                   ops, krVars>>

\* A secret that cannot be deleted puts the peer back, unless it is suspended.
Delete ==
    /\ op.at = "delete" /\ End
    /\ \/ /\ IF op.old = NoPeer THEN UNCHANGED <<store, savedKey>>
                                ELSE SavePeers(Without(store, op.pub))
          /\ Works /\ UNCHANGED <<iface, conf, adrift>>
       \/ /\ op.old # NoPeer /\ UNCHANGED <<store, savedKey>>
          /\ \/ store[op.pub].exp = "past" /\ Fault(1) /\ UNCHANGED <<iface, conf, adrift>>
             \/ /\ store[op.pub].exp # "past" /\ Live /\ Fault(1)
                /\ iface' = Serve(iface, op.pub, op.old.addr)
                /\ conf' = Serve(conf, op.pub, op.old.addr)
                /\ UNCHANGED adrift
             \/ /\ store[op.pub].exp # "past" /\ Fault(IF Live THEN 2 ELSE 1)
                /\ adrift' = TRUE /\ UNCHANGED <<iface, conf>>
    /\ UNCHANGED <<mem, setting, backend, up, keys, ops, krVars>>

-----------------------------------------------------------------------------
\* SweepExpired: expired peers leave interface and .conf, foreign ones the
\* interface; some may stay on the interface (left), others in the .conf (stale).
SweepKernel ==
    /\ Kernel /\ Live /\ op = Idle
    /\ LET gone == DOMAIN iface.peers \ DOMAIN Active(store) IN
       \E left \in SUBSET gone : \E stale \in SUBSET ((gone \cap DOMAIN store) \ left) :
          /\ gone # {} /\ Fault(Cardinality(left \cup stale))
          /\ iface' = [iface EXCEPT !.peers = Restrict(@, (DOMAIN @ \ gone) \cup left)]
          /\ conf' = [conf EXCEPT !.peers = Restrict(@,
                DOMAIN @ \ ((gone \cap DOMAIN store) \ (left \cup stale)))]
    /\ UNCHANGED <<store, savedKey, mem, setting, backend, op, up, adrift,
                   keys, ops, krVars>>

\* Enable, up to the .conf and the parameters it was rendered from.
EnableKernel ==
    /\ Kernel /\ Operation
    /\ up = "idle" /\ op = Idle
    /\ keys' = IF mem.key = 0 THEN keys + 1 ELSE keys
    /\ mem' = [mem EXCEPT !.port = setting.port,
                          !.key = IF mem.key = 0 THEN keys' ELSE @]
    /\ conf' = [port |-> mem'.port, key |-> mem'.key, peers |-> Active(store)]
    /\ up' = "up"
    /\ UNCHANGED <<store, savedKey, setting, backend, iface, op, adrift,
                   faults, krVars>>

\* iface_Up and the health gate: the interface is restarted from the .conf as
\* it is now; failing, it is torn down, if that works.
IfaceUp ==
    /\ up = "up"
    /\ \/ /\ Works /\ iface' = conf /\ up' = "sweep"
          /\ mem' = [mem EXCEPT !.enabled = TRUE]
          /\ adrift' = (adrift \/ op # Idle)
       \/ /\ up' = "idle"
          /\ mem' = [mem EXCEPT !.enabled = FALSE]
          /\ \/ /\ iface' = Nothing /\ Fault(1)
                /\ adrift' = (adrift \/ op # Idle)
             \/ UNCHANGED iface /\ Fault(2) /\ adrift' = TRUE
    /\ UNCHANGED <<store, savedKey, setting, backend, conf, op, keys, ops, krVars>>

\* The foreign sweep at Enable's end; the handler persists awg.enabled.
EnableSweep ==
    /\ up = "sweep" /\ op = Idle /\ up' = "idle"
    /\ iface' = [iface EXCEPT !.peers = Restrict(@, DOMAIN @ \cap DOMAIN store)]
    /\ setting' = [setting EXCEPT !.enabled = TRUE]
    /\ UNCHANGED <<store, savedKey, mem, backend, conf, op, adrift, keys,
                   ops, faults, krVars>>

\* Disable takes no lock; an interface that stays up is an error without effect.
DisableKernel ==
    /\ Kernel /\ Operation
    /\ iface' = Nothing
    /\ mem' = [mem EXCEPT !.enabled = FALSE]
    /\ setting' = [setting EXCEPT !.enabled = FALSE]
    /\ adrift' = (adrift \/ op # Idle \/ up # "idle")
    /\ UNCHANGED <<store, savedKey, backend, conf, op, up, keys, faults, krVars>>
=============================================================================
