------------------------------ MODULE AwgServer ------------------------------
(***************************************************************************)
(* The AmneziaWG server (internal/awg): a store of client secrets and the  *)
(* two backends that serve it, AwgSingbox and AwgKernel, which AwgBackends *)
(* composes.  This module has the state they share, the secret store and   *)
(* what a render makes of it.                                              *)
(*                                                                         *)
(* A listen port stands for all render parameters; 0 is a cold manager.    *)
(***************************************************************************)
EXTENDS FiniteSets, Functions, Integers

CONSTANTS
    Peers,     \* public keys
    MaxAddr,   \* host addresses of the subnet, in order
    Ports,     \* listen ports an operator saves in the settings
    Backends,  \* backends an installation starts with
    NoPeer,    \* no record
    MaxOps,    \* bound: requests and restarts
    MaxFaults  \* bound: failing writes, commands and reloads

Addrs  == 1..MaxAddr
Expiry == {"never", "timed", "past"}  \* ExpiresAt: 0, ahead, passed
Peer   == [addr : Addrs, exp : Expiry]

ASSUME AwgAssumption ==
    /\ MaxAddr \in Nat /\ MaxOps \in Nat /\ MaxFaults \in Nat
    /\ Ports \subseteq Nat \ {0} /\ Ports # {}
    /\ Backends \subseteq {"kernel", "singbox"}
    /\ NoPeer \notin Peers \cup Peer

VARIABLES
    store,    \* Store.byPK and peers.toml: Put and Delete roll back
    key,      \* Store.serverKey, 0 when there is none ...
    savedKey, \* ... and its copy in peers.toml
    mem,      \* Manager: enabled, port, key (serverPriv)
    setting,  \* settings.awg: enabled, port
    backend,  \* Manager.backend
    draft,    \* whether a configuration draft is pending
    endpoint, \* the managed endpoint of the active configuration
    loaded,   \* the endpoint amnezia-box runs
    conf,     \* awg-rb0.conf
    iface,    \* the live interface
    op,       \* the operation that holds addMu
    disable,  \* a singbox Disable: "idle", "checked", "reload"
    up,       \* a kernel Enable past its commit: "idle", "up", "sweep"
    adrift,   \* history: a failure that nothing compensates, see Served
    keys,     \* server keys generated
    ops, faults

awgVars == <<store, key, savedKey, mem, setting, backend, draft, endpoint,
             loaded, conf, iface, op, disable, up, adrift, keys, ops, faults>>

Nothing == [port |-> 0, key |-> 0, peers |-> <<>>]
Cold    == [enabled |-> FALSE, port |-> 0, key |-> 0]
Idle    == [kind |-> "none", pub |-> NoPeer, old |-> NoPeer, new |-> NoPeer,
            at |-> "none", spec |-> Nothing, prev |-> Cold]

Operation == ops < MaxOps /\ ops' = ops + 1
Works     == UNCHANGED faults
Fault(n)  == faults + n <= MaxFaults /\ faults' = faults + n

With(f, p, x)          == [q \in DOMAIN f \cup {p} |-> IF q = p THEN x ELSE f[q]]
Without(f, p)          == Restrict(f, DOMAIN f \ {p})
Drop(serving, p)       == [serving EXCEPT !.peers = Without(@, p)]
Serve(serving, p, adr) == [serving EXCEPT !.peers = With(@, p, adr)]

\* Mutant: expired peers are rendered too.
ActiveAll(st) == [p \in DOMAIN st |-> st[p].addr]

\* The peers a render keeps: an expired one is suspended.
Active(st) == [p \in {q \in DOMAIN st : st[q].exp # "past"} |-> st[p].addr]

\* renderServerSpec: nothing when disabled or without a key.
ServerSpec(m, st) ==
    IF m.enabled /\ m.key # 0
    THEN [port |-> m.port, key |-> m.key, peers |-> Active(st)] ELSE Nothing

\* Mutant: a suspended peer's address is given away.
ReservedLive == {store[p].addr : p \in DOMAIN Active(store)}

\* Addresses of the store are taken, those of suspended peers too.
Reserved == {store[p].addr : p \in DOMAIN store}

\* Mutant: the server's own address, the subnet's first, is given away.
FreeOrServer(taken) == (0..MaxAddr) \ taken

\* NextFree: the first free host after the server's own address.
Free(taken)     == Addrs \ taken
NextFree(taken) == {adr \in Free(taken) : \A other \in Free(taken) : adr <= other}

\* A generated key pair is new to everything that holds one.
Known == DOMAIN store \cup UNION {DOMAIN serving.peers :
                                    serving \in {conf, iface, endpoint, loaded}}

NewPeer(adr) == [addr |-> adr, exp |-> "never"]

\* saveLocked writes the server key along with the peers.
SavePeers(st) == store' = st /\ savedKey' = key

\* addMu is taken.  A singbox Disable goes on without it.
Begin(kind, p, old, new, at) ==
    /\ op = Idle
    /\ op' = [Idle EXCEPT !.kind = kind, !.pub = p, !.old = old, !.new = new,
                          !.at = at, !.prev = mem]
    /\ adrift' = (adrift \/ disable # "idle")

Goto(at) == op' = [op EXCEPT !.at = at]
End      == op' = Idle

\* What the store held of op's peer before op.
Before == IF op.old = NoPeer THEN Without(store, op.pub)
                             ELSE With(store, op.pub, op.old)
=============================================================================
