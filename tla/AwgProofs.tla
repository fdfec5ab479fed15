------------------------------ MODULE AwgProofs ------------------------------
(***************************************************************************)
(* The AmneziaWG server over both backends, for every set of peers, every  *)
(* subnet and every number of requests, restarts and failures: the address *)
(* allocation, and what serves.                                            *)
(*                                                                         *)
(* AddressesDistinct is not inductive: an operation in flight may put the  *)
(* record it holds into the store (a rollback puts the old one back, the   *)
(* kernel's AddPeer stores the new one last), so no other stored peer may  *)
(* have the address of either in the meantime (AddrInv).                   *)
(*                                                                         *)
(* Served speaks of states between operations.  Its invariant, ServeInv,   *)
(* says of every state what serves: on singbox the running configuration   *)
(* is still that of before the operation until its reload, and what was    *)
(* rendered for the sync is that of after it; on the kernel backend the    *)
(* interface and its file are each as far as the operation has come        *)
(* (IfaceHas, ConfHas).  Then every step that ends an operation, by its    *)
(* success or by its roll back, leaves what serves equal to what is        *)
(* stored.                                                                 *)
(***************************************************************************)
EXTENDS AwgBackends, TLAPS

StoreOK(st) ==
    /\ st = [p \in DOMAIN st |-> st[p]]
    /\ DOMAIN st \subseteq Peers
    /\ \A p \in DOMAIN st : st[p] \in Peer
    /\ \A p, q \in DOMAIN st : st[p].addr = st[q].addr => p = q

\* No stored peer but p has the address of record r.
Apart(st, p, r) == \A q \in DOMAIN st \ {p} : st[q].addr # r.addr

\* The operation in flight: its shape, and the records it may store.
OpOK(st) ==
    /\ op = [kind |-> op.kind, pub |-> op.pub, old |-> op.old, new |-> op.new,
             at |-> op.at, spec |-> op.spec, prev |-> op.prev]
    /\ op.pub \in Peers \cup {NoPeer}
    /\ op.old \in Peer \cup {NoPeer}
    /\ op.pub # NoPeer /\ op.old # NoPeer => Apart(st, op.pub, op.old)
    /\ op.at \in {"set", "strip", "append", "put"} =>
          op.pub \in Peers /\ op.new \in Peer /\ Apart(st, op.pub, op.new)

AddrInv == StoreOK(store) /\ OpOK(store)

-----------------------------------------------------------------------------
(* What storing and deleting a record does to a store.                       *)

\* A record apart from all others can be stored.
LEMMA WithOK ==
    ASSUME NEW st, StoreOK(st), NEW p \in Peers, NEW r \in Peer, Apart(st, p, r)
    PROVE  StoreOK(With(st, p, r))
<1> DEFINE new == With(st, p, r)
<1>1. /\ DOMAIN new = DOMAIN st \cup {p}
      /\ \A q \in DOMAIN new : new[q] = IF q = p THEN r ELSE st[q]
      /\ new = [q \in DOMAIN new |-> new[q]]
  BY DEF With
<1>2. DOMAIN new \subseteq Peers /\ \A q \in DOMAIN new : new[q] \in Peer
  BY <1>1 DEF StoreOK
<1>3. \A q, s \in DOMAIN new : new[q].addr = new[s].addr => q = s
  BY <1>1 DEF StoreOK, Apart
<1> QED BY <1>1, <1>2, <1>3 DEF StoreOK

LEMMA WithoutOK ==
    ASSUME NEW st, StoreOK(st), NEW p
    PROVE  StoreOK(Without(st, p))
BY DEF StoreOK, Without, Restrict

\* What the store held before the operation can be put back.
LEMMA BeforeOK == ASSUME AddrInv, op.pub \in Peers PROVE StoreOK(Before)
<1>1. CASE op.old = NoPeer
  BY <1>1, WithoutOK DEF AddrInv, Before
<1>2. CASE op.old # NoPeer
  <2>1. op.old \in Peer /\ Apart(store, op.pub, op.old)
    BY <1>2, AwgAssumption DEF AddrInv, OpOK
  <2> QED BY <1>2, <2>1, WithOK DEF AddrInv, Before
<1> QED BY <1>1, <1>2

\* When no operation is in flight only the store matters.
LEMMA IdleOK == ASSUME NEW st, op = Idle PROVE OpOK(st)
BY DEF OpOK, Idle

\* An address NextFree returns is a host address no stored peer has.
LEMMA NextFreeOK ==
    ASSUME NEW taken, Reserved \subseteq taken, NEW adr \in NextFree(taken), NEW p
    PROVE  NewPeer(adr) \in Peer /\ Apart(store, p, NewPeer(adr))
BY DEF NextFree, Free, Reserved, NewPeer, Peer, Expiry, Apart

\* A renewed peer keeps its address.
LEMMA RenewedOK ==
    ASSUME StoreOK(store), NEW p \in DOMAIN store, NEW exp \in Expiry
    PROVE  LET new == [store[p] EXCEPT !.exp = exp] IN
           /\ new \in Peer /\ new.addr = store[p].addr
           /\ Apart(store, p, new) /\ Apart(store, p, store[p])
           /\ StoreOK(With(store, p, new))
           /\ With(store, p, new) = [store EXCEPT ![p].exp = exp]
<1> DEFINE new == [store[p] EXCEPT !.exp = exp]
<1>1. store[p] \in Peer
  BY DEF StoreOK
<1>2. new \in Peer /\ new.addr = store[p].addr
  BY <1>1 DEF Peer
<1>3. Apart(store, p, new) /\ Apart(store, p, store[p])
  BY <1>2 DEF StoreOK, Apart
<1>4. StoreOK(With(store, p, new))
  BY <1>2, <1>3, WithOK DEF StoreOK
<1>5. With(store, p, new) = [store EXCEPT ![p].exp = exp]
  BY DEF With, StoreOK
<1> QED BY <1>2, <1>3, <1>4, <1>5

-----------------------------------------------------------------------------
(* What an operation's steps do to AddrInv.                                  *)

LEMMA BeginOK ==
    ASSUME NEW kind, NEW p \in Peers \cup {NoPeer}, NEW old \in Peer \cup {NoPeer},
           NEW new, NEW at, Begin(kind, p, old, new, at),
           p # NoPeer /\ old # NoPeer => Apart(store', p, old),
           at \in {"set", "strip", "append", "put"} =>
               p \in Peers /\ new \in Peer /\ Apart(store', p, new)
    PROVE  OpOK(store)'
<1>1. op' = [kind |-> kind, pub |-> p, old |-> old, new |-> new, at |-> at,
             spec |-> Nothing, prev |-> mem]
  BY DEF Begin, Idle
<1> QED BY <1>1 DEF OpOK, Apart

\* A step that moves the operation on and leaves the store alone.
LEMMA GotoOK ==
    ASSUME AddrInv, NEW at, NEW spec,
           op' = [op EXCEPT !.at = at, !.spec = spec],
           at = "put" => op.at \in {"set", "strip", "append", "put"},
           at \in {"set", "strip", "append"} => op.at \in {"set", "strip", "append", "put"},
           UNCHANGED store
    PROVE  AddrInv'
<1>1. op' = [kind |-> op.kind, pub |-> op.pub, old |-> op.old, new |-> op.new,
             at |-> at, spec |-> spec, prev |-> op.prev]
  BY DEF AddrInv, OpOK
<1> QED BY <1>1 DEF AddrInv, OpOK, StoreOK, Apart

\* A step that ends the operation with a sound store.
LEMMA EndOK == ASSUME End, StoreOK(store') PROVE AddrInv'
<1>1. OpOK(store)'
  BY DEF End, OpOK, Idle, Apart
<1> QED BY <1>1 DEF AddrInv, StoreOK

LEMMA SameOK == ASSUME AddrInv, UNCHANGED <<store, op>> PROVE AddrInv'
BY DEF AddrInv, OpOK, StoreOK, Apart

LEMMA SavedOK == ASSUME NEW st, SavePeers(st), StoreOK(st) PROVE StoreOK(store')
BY DEF SavePeers

-----------------------------------------------------------------------------
(* The singbox backend.                                                      *)

LEMMA SingboxOK ==
    ASSUME AddrInv,
           \/ \E p \in Peers : \/ AddPeerSingbox(p) \/ RemovePeerSingbox(p)
                               \/ \E exp \in {"never", "timed"} : RenewPeerSingbox(p, exp)
           \/ SweepSingbox \/ EnableSingbox \/ Render \/ Sync \/ ReloadEndpoint
           \/ DisableSingbox \/ DisableSync \/ DisableReload
    PROVE  AddrInv'
<1> StoreOK(store) /\ OpOK(store)
  BY DEF AddrInv
<1>1. ASSUME NEW p \in Peers, AddPeerSingbox(p) PROVE AddrInv'
  <2>1. PICK adr \in NextFree(Reserved) : SavePeers(With(store, p, NewPeer(adr)))
    BY <1>1 DEF AddPeerSingbox
  <2>2. StoreOK(store')
    BY <2>1, NextFreeOK, WithOK, SavedOK
  <2>3. OpOK(store)'
    BY <1>1, BeginOK DEF AddPeerSingbox
  <2> QED BY <2>2, <2>3 DEF AddrInv, StoreOK
<1>2. ASSUME NEW p \in Peers, RemovePeerSingbox(p) PROVE AddrInv'
  <2>1. StoreOK(store') /\ store' = Without(store, p) /\ p \in DOMAIN store
    BY <1>2, WithoutOK, SavedOK DEF RemovePeerSingbox, SavePeers
  <2>2. store[p] \in Peer /\ Apart(store', p, store[p])
    BY <2>1 DEF StoreOK, Apart, Without, Restrict
  <2>3. OpOK(store)'
    BY <1>2, <2>2, BeginOK DEF RemovePeerSingbox
  <2> QED BY <2>1, <2>3 DEF AddrInv, StoreOK
<1>3. ASSUME NEW p \in Peers, NEW exp \in {"never", "timed"}, RenewPeerSingbox(p, exp)
      PROVE  AddrInv'
  <2>1. p \in DOMAIN store /\ exp \in Expiry /\ store[p] \in Peer
    BY <1>3 DEF RenewPeerSingbox, Expiry, StoreOK
  <2>2. store' = With(store, p, [store[p] EXCEPT !.exp = exp]) /\ StoreOK(store')
    BY <1>3, <2>1, RenewedOK DEF RenewPeerSingbox, SavePeers
  <2>3. Apart(store', p, store[p])
    BY <2>1, <2>2, RenewedOK DEF Apart, With
  <2>4. OpOK(store)'
    BY <1>3, <2>1, <2>3, BeginOK DEF RenewPeerSingbox
  <2> QED BY <2>2, <2>4 DEF AddrInv, StoreOK
<1>4. CASE SweepSingbox
  <2>1. OpOK(store)'
    BY <1>4, BeginOK DEF SweepSingbox
  <2> QED BY <1>4, <2>1 DEF SweepSingbox, AddrInv, StoreOK
<1>5. CASE EnableSingbox
  <2>1. CASE UNCHANGED op
    BY <1>5, <2>1, SameOK DEF EnableSingbox
  <2>2. CASE Begin("enable", NoPeer, NoPeer, NoPeer, "render")
    <3>1. OpOK(store)'
      BY <2>2, BeginOK
    <3> QED BY <1>5, <3>1 DEF EnableSingbox, AddrInv, StoreOK
  <2> QED BY <1>5, <2>1, <2>2 DEF EnableSingbox
<1>6. CASE Render
  BY <1>6, GotoOK DEF Render
<1>7. ASSUME NEW lost, RollBack(lost) PROVE AddrInv'
  <2>1. StoreOK(store')
    BY <1>7, BeforeOK, SavedOK DEF RollBack, OpOK
  <2> QED BY <1>7, <2>1, EndOK DEF RollBack
<1>8. ASSUME Complete PROVE AddrInv'
  BY <1>8, EndOK DEF Complete
<1>9. CASE Sync
  <2>1. CASE Goto("reload") /\ UNCHANGED store
    <3>1. op' = [op EXCEPT !.at = "reload", !.spec = op.spec]
      BY <2>1 DEF Goto, OpOK
    <3> QED BY <2>1, <3>1, GotoOK
  <2> QED BY <1>7, <1>8, <1>9, <2>1 DEF Sync
<1>10. CASE ReloadEndpoint
  BY <1>7, <1>8, <1>10 DEF ReloadEndpoint
<1>11. CASE DisableSingbox \/ DisableSync \/ DisableReload
  BY <1>11, SameOK DEF DisableSingbox, DisableSync, DisableReload
<1> QED BY <1>1, <1>2, <1>3, <1>4, <1>5, <1>6, <1>9, <1>10, <1>11

-----------------------------------------------------------------------------
(* The kernel backend.                                                       *)

LEMMA KernelRequestOK ==
    ASSUME AddrInv,
           \E p \in Peers : \/ AddPeerKernel(p) \/ RemovePeerKernel(p)
                            \/ \E exp \in {"never", "timed"} : RenewPeerKernel(p, exp)
    PROVE  AddrInv'
<1> StoreOK(store) /\ OpOK(store)
  BY DEF AddrInv
<1>1. ASSUME NEW p \in Peers, AddPeerKernel(p) PROVE AddrInv'
  <2>1. PICK adr \in NextFree(Taken) : Begin("add", p, NoPeer, NewPeer(adr), "strip")
    BY <1>1 DEF AddPeerKernel
  <2>2. NewPeer(adr) \in Peer /\ Apart(store', p, NewPeer(adr))
    BY <1>1, NextFreeOK DEF AddPeerKernel, Taken
  <2>3. OpOK(store)'
    BY <2>1, <2>2, BeginOK
  <2> QED BY <1>1, <2>3 DEF AddPeerKernel, AddrInv, StoreOK
<1>2. ASSUME NEW p \in Peers, RemovePeerKernel(p) PROVE AddrInv'
  <2> DEFINE old == IF p \in DOMAIN store THEN store[p] ELSE NoPeer
  <2>1. old \in Peer \cup {NoPeer} /\ (old # NoPeer => Apart(store', p, old))
    BY <1>2 DEF RemovePeerKernel, StoreOK, Apart
  <2>2. OpOK(store)'
    BY <1>2, <2>1, BeginOK DEF RemovePeerKernel
  <2> QED BY <1>2, <2>2 DEF RemovePeerKernel, AddrInv, StoreOK
<1>3. ASSUME NEW p \in Peers, NEW exp \in {"never", "timed"}, RenewPeerKernel(p, exp)
      PROVE  AddrInv'
  <2> DEFINE new == [store[p] EXCEPT !.exp = exp]
  <2>1. /\ p \in DOMAIN store /\ exp \in Expiry /\ store[p] \in Peer
        /\ Begin("renew", p, store[p], new, "set")
        /\ store' = With(store, p, new)
    BY <1>3 DEF RenewPeerKernel, Expiry, StoreOK, SavePeers
  <2>2. /\ new \in Peer /\ StoreOK(store')
        /\ Apart(store', p, new) /\ Apart(store', p, store[p])
    BY <2>1, RenewedOK DEF Apart, With
  <2>3. OpOK(store)'
    BY <2>1, <2>2, BeginOK
  <2> QED BY <2>2, <2>3 DEF AddrInv, StoreOK
<1> QED BY <1>1, <1>2, <1>3

LEMMA KernelStepOK ==
    ASSUME AddrInv, SetLive \/ Strip \/ Append \/ PutPeer \/ Unconf \/ Delete
    PROVE  AddrInv'
<1> StoreOK(store) /\ OpOK(store)
  BY DEF AddrInv
<1>1. ASSUME NEW at, Goto(at), UNCHANGED store,
             \/ at = "strip" /\ op.at = "set"
             \/ at = "append" /\ op.at = "strip"
             \/ at = "put" /\ op.at = "append"
             \/ at = "delete"
      PROVE  AddrInv'
  <2>1. op' = [op EXCEPT !.at = at, !.spec = op.spec]
    BY <1>1 DEF Goto, OpOK
  <2> QED BY <1>1, <2>1, GotoOK
<1>2. ASSUME NEW n, RestoreExpiry(n), End, op.at \in {"set", "strip", "append"}
      PROVE  AddrInv'
  <2>1. StoreOK(store')
    BY <1>2, BeforeOK, SavedOK DEF RestoreExpiry, OpOK
  <2> QED BY <1>2, <2>1, EndOK
<1>3. CASE SetLive
  BY <1>1, <1>2, <1>3 DEF SetLive
<1>4. CASE Strip
  BY <1>1, <1>2, <1>4 DEF Strip, Unadmit
<1>5. CASE Append
  <2>1. CASE End /\ UNCHANGED store
    BY <2>1, EndOK
  <2> QED BY <1>1, <1>2, <1>5, <2>1 DEF Append, Unadmit
<1>6. CASE PutPeer
  <2>1. op.pub \in Peers /\ op.new \in Peer /\ Apart(store, op.pub, op.new)
    BY <1>6 DEF PutPeer, OpOK
  <2>2. StoreOK(store')
    BY <1>6, <2>1, WithOK, SavedOK DEF PutPeer
  <2> QED BY <1>6, <2>2, EndOK DEF PutPeer
<1>7. CASE Unconf
  BY <1>1, <1>7, EndOK DEF Unconf
<1>8. CASE Delete
  BY <1>8, WithoutOK, SavedOK, EndOK DEF Delete
<1> QED BY <1>3, <1>4, <1>5, <1>6, <1>7, <1>8

\* What leaves the store and the operation in flight alone.
LEMMA OthersOK ==
    ASSUME AddrInv,
           \/ SweepKernel \/ EnableKernel \/ DisableKernel \/ IfaceUp \/ EnableSweep
           \/ \E n \in Ports : SetPort(n)
           \/ SwitchBackend \/ StartDraft \/ DiscardDraft \/ ApplyDraft
           \/ UNCHANGED awgVars
    PROVE  AddrInv'
BY SameOK DEF SweepKernel, EnableKernel, DisableKernel, IfaceUp, EnableSweep, SetPort,
   SwitchBackend, StartDraft, DiscardDraft, ApplyDraft, awgVars

LEMMA RestartOK == ASSUME AddrInv, Restart PROVE AddrInv'
<1>1. End /\ StoreOK(store')
  BY DEF Restart, AddrInv, End
<1> QED BY <1>1, EndOK

\* Time changes no address.
LEMMA ExpireOK == ASSUME AddrInv, NEW p \in Peers, Expire(p) PROVE AddrInv'
<1> StoreOK(store) /\ p \in DOMAIN store /\ "past" \in Expiry
  BY DEF AddrInv, Expire, Expiry
<1>1. StoreOK(store') /\ store' = With(store, p, [store[p] EXCEPT !.exp = "past"])
  BY RenewedOK DEF Expire
<1>2. [store[p] EXCEPT !.exp = "past"].addr = store[p].addr
  BY RenewedOK
<1>3. ASSUME NEW r, NEW q, Apart(store, q, r) PROVE Apart(store', q, r)
  <2>1. \A s \in DOMAIN store' \ {q} : s \in DOMAIN store \ {q} /\ store'[s].addr = store[s].addr
    BY <1>1, <1>2 DEF With
  <2> QED BY <1>3, <2>1 DEF Apart
<1>4. OpOK(store)'
  BY <1>3 DEF Expire, AddrInv, OpOK, Apart
<1> QED BY <1>1, <1>4 DEF AddrInv, StoreOK

LEMMA StepOK == AddrInv /\ [Next]_awgVars => AddrInv'
<1> SUFFICES ASSUME AddrInv, [Next]_awgVars PROVE AddrInv'
  OBVIOUS
<1>1. CASE Request
  BY <1>1, SingboxOK, KernelRequestOK, OthersOK DEF Request
<1>2. CASE OpStep
  BY <1>2, SingboxOK, KernelStepOK DEF OpStep
<1>3. CASE DisableStep \/ UpStep \/ Sweep
  BY <1>3, SingboxOK, OthersOK DEF DisableStep, UpStep, Sweep
<1>4. CASE Restart
  BY <1>4, RestartOK
<1>5. ASSUME NEW p \in Peers, Expire(p) PROVE AddrInv'
  BY <1>5, ExpireOK
<1> QED BY <1>1, <1>2, <1>3, <1>4, <1>5, OthersOK DEF Next

\* For every set of peers, subnet and number of failures: no two stored peers,
\* suspended ones included, ever have one address, also through the rollbacks
\* that put a removed or renewed peer back.
THEOREM AddressesAreDistinct == Spec => []AddressesDistinct
<1>1. Init => AddrInv
  BY DEF Init, AddrInv, StoreOK, OpOK, Idle
<1>2. AddrInv => AddressesDistinct
  BY DEF AddrInv, StoreOK, AddressesDistinct
<1> QED BY <1>1, <1>2, StepOK, PTL DEF Spec

-----------------------------------------------------------------------------
(* What serves, in every state: the invariant behind Served.                 *)

Settings == [enabled : BOOLEAN, port : Nat]
Managers == [enabled : BOOLEAN, port : Nat, key : Nat]

\* A record of what serves; its peers are any function.
Form(s) == /\ s = [port |-> s.port, key |-> s.key, peers |-> s.peers]
           /\ s.port \in Nat /\ s.key \in Nat

Forms == /\ key \in Nat /\ savedKey \in Nat /\ keys \in Nat
         /\ mem \in Managers /\ op.prev \in Managers /\ setting \in Settings
         /\ Form(conf) /\ Form(iface)
         /\ disable \in {"idle", "checked", "reload"} /\ up \in {"idle", "up", "sweep"}
         /\ adrift \in BOOLEAN /\ backend \in {"kernel", "singbox"}

SingboxAt == {"render", "sync", "reload"}
Admitted  == {"strip", "append", "put"}
KernelAt  == {"set", "unconf", "delete"} \cup Admitted

\* The operation in flight, by where it is: what it does there, and what it
\* knows of its peer.
PeerKnown(st) ==
    /\ op.kind = "add" => op.old = NoPeer /\ op.pub \notin DOMAIN st
    /\ op.kind = "renew" => /\ op.pub \in DOMAIN st /\ op.new.addr = st[op.pub].addr
                            /\ op.new.exp # "past"
    /\ op.kind = "remove" => /\ op.old = NoPeer <=> op.pub \notin DOMAIN st
                             /\ op.old # NoPeer => op.old.addr = st[op.pub].addr

Shape(st) ==
    \/ op = Idle
    \/ /\ op.at \in SingboxAt
       /\ \/ op.kind \in {"add", "remove", "renew"} /\ op.pub \in Peers
          \/ op.kind \in {"sweep", "enable"} /\ op.pub = NoPeer
    \/ /\ op.at \in KernelAt /\ op.pub \in Peers
       /\ op.at = "set" => op.kind = "renew"
       /\ op.at \in {"strip", "append"} => op.kind \in {"add", "renew"}
       /\ op.at = "put" => op.kind = "add"
       /\ op.at \in {"unconf", "delete"} => op.kind = "remove"
       /\ PeerKnown(st)

\* Which backend an operation or a Disable belongs to; a switch in the middle
\* is on record.
Roles ==
    /\ ~Kernel => /\ iface = Nothing /\ up = "idle"
                  /\ mem.enabled => mem.key = key /\ key # 0
    /\ op.kind = "enable" => /\ ~Kernel
                             /\ op.prev.enabled => op.prev.key = key /\ key # 0
    /\ Kernel /\ op.at \in SingboxAt => adrift /\ ~mem.enabled /\ iface = Nothing /\ up = "idle"
    /\ ~Kernel /\ op.at \in KernelAt => adrift
    /\ disable # "idle" /\ (Kernel \/ op # Idle) => adrift

\* peers has every current peer of st, and no peer st does not list.
Serves(st, peers) ==
    /\ \A p \in DOMAIN st : st[p].exp # "past" => p \in DOMAIN peers
    /\ \A p \in DOMAIN peers : p \in DOMAIN st /\ peers[p] = st[p].addr

Answers(s, m, st) == s.port = m.port /\ s.key = m.key /\ Serves(st, s.peers)
Offers(s, m, st)  == (m.enabled => Answers(s, m, st)) /\ (~m.enabled => s = Nothing)

\* Until its reload an operation of the singbox backend has changed nothing of
\* what serves: that still is as manager and store were before it.
FormerMem   == IF op.kind = "enable" THEN op.prev ELSE mem
FormerStore == IF op.pub = NoPeer THEN store ELSE Before

SingboxServes ==
    /\ Offers(loaded, FormerMem, FormerStore)
    /\ FormerMem.enabled = setting.enabled
    /\ op.kind = "enable" => mem.enabled
    /\ op.at = "sync" => Offers(op.spec, mem, store)
    /\ op.at = "reload" => Offers(endpoint, mem, store)
    /\ disable = "reload" => endpoint = Nothing
    /\ endpoint = Nothing /\ op.at # "reload" /\ disable # "reload" => loaded = Nothing

\* An operation of the kernel backend changes interface and .conf one after
\* the other: what each of them has, by where the operation is.
IfaceHas == IF op = Idle THEN store
            ELSE IF op.at = "set" THEN Before
            ELSE IF op.at \in Admitted THEN With(store, op.pub, op.new)
            ELSE Without(store, op.pub)
ConfHas  == IF op = Idle THEN store
            ELSE IF op.at \in {"set", "strip", "unconf"} THEN Before
            ELSE IF op.at = "put" THEN With(store, op.pub, op.new)
            ELSE Without(store, op.pub)

\* Whether the interface has to serve.
Bound == Live \/ up = "sweep" \/ op.at \in KernelAt \ {"set"}

KernelServes ==
    /\ endpoint = Nothing /\ loaded = Nothing
    /\ Bound /\ up # "up" => Answers(iface, mem, IfaceHas)
    /\ Bound \/ setting.enabled \/ up # "idle" => Answers(conf, mem, ConfHas)

ServeInv ==
    /\ Forms /\ Shape(store) /\ Roles
    /\ ~Kernel /\ ~adrift => SingboxServes
    /\ Kernel /\ ~adrift => KernelServes

\* A step that changes only the peers of a record, or of nothing.
LEMMA PeersOnly ==
    ASSUME NEW s, NEW f, Form(s)
    PROVE  LET t == [s EXCEPT !.peers = f] IN
           Form(t) /\ t.port = s.port /\ t.key = s.key /\ t.peers = f
BY DEF Form

LEMMA DropForm ==
    ASSUME NEW s, NEW p, Form(s)
    PROVE  /\ Form(Drop(s, p)) /\ Drop(s, p).port = s.port /\ Drop(s, p).key = s.key
           /\ Drop(s, p).peers = Without(s.peers, p)
BY DEF Form, Drop

LEMMA ServeForm ==
    ASSUME NEW s, NEW p, NEW adr, Form(s)
    PROVE  /\ Form(Serve(s, p, adr))
           /\ Serve(s, p, adr).port = s.port /\ Serve(s, p, adr).key = s.key
           /\ Serve(s, p, adr).peers = With(s.peers, p, adr)
BY DEF Form, Serve

LEMMA NothingForm == Form(Nothing) /\ Nothing.port = 0 /\ Nothing.key = 0
BY DEF Form, Nothing

-----------------------------------------------------------------------------
(* Forms.                                                                    *)

LEMMA FormsSame ==
    ASSUME Forms, UNCHANGED <<key, savedKey, keys, mem, setting, conf, iface, disable, up,
                              adrift, backend, op>>
    PROVE  Forms'
BY DEF Forms, Form

\* A step of the operation in flight.
LEMMA FormsOp ==
    ASSUME AddrInv, Forms, op' = Idle \/ \E at, spec : op' = [op EXCEPT !.at = at, !.spec = spec]
    PROVE  op'.prev \in Managers
<1>1. Idle.prev \in Managers
  BY DEF Idle, Cold, Managers
<1>2. ASSUME NEW at, NEW spec, op' = [op EXCEPT !.at = at, !.spec = spec] PROVE op'.prev = op.prev
  BY <1>2 DEF AddrInv, OpOK
<1> QED BY <1>1, <1>2 DEF Forms

LEMMA BeginForms ==
    ASSUME Forms, NEW kind, NEW p, NEW old, NEW new, NEW at, Begin(kind, p, old, new, at)
    PROVE  op'.prev = mem /\ op'.prev \in Managers /\ adrift' \in BOOLEAN
BY DEF Begin, Forms, Idle

LEMMA FormsSingbox ==
    ASSUME AddrInv, Forms,
           \/ \E p \in Peers : \/ AddPeerSingbox(p) \/ RemovePeerSingbox(p)
                               \/ \E exp \in {"never", "timed"} : RenewPeerSingbox(p, exp)
           \/ SweepSingbox \/ EnableSingbox \/ Render \/ Sync \/ ReloadEndpoint
           \/ DisableSingbox \/ DisableSync \/ DisableReload
    PROVE  Forms'
<1>0. /\ key \in Nat /\ savedKey \in Nat /\ keys \in Nat /\ mem \in Managers /\ op.prev \in Managers
      /\ setting \in Settings /\ Form(conf) /\ Form(iface) /\ disable \in {"idle", "checked", "reload"}
      /\ up \in {"idle", "up", "sweep"} /\ adrift \in BOOLEAN /\ backend \in {"kernel", "singbox"}
  BY DEF Forms
<1>1. ASSUME UNCHANGED <<keys, conf, iface, up, backend>>, key' \in Nat, savedKey' \in Nat,
             mem' \in Managers, setting' \in Settings, op'.prev \in Managers,
             disable' \in {"idle", "checked", "reload"}, adrift' \in BOOLEAN
      PROVE  Forms'
  BY <1>0, <1>1 DEF Forms, Form
<1>2. ASSUME NEW p, NEW old, NEW new, NEW at, NEW kind, Begin(kind, p, old, new, at),
             UNCHANGED <<key, mem, disable, sbVars>>, savedKey' \in {key, savedKey}
      PROVE  Forms'
  <2>1. op'.prev \in Managers /\ adrift' \in BOOLEAN
    BY <1>2, BeginForms
  <2> QED BY <1>0, <1>1, <1>2, <2>1 DEF sbVars
<1>3. CASE \E p \in Peers : \/ AddPeerSingbox(p) \/ RemovePeerSingbox(p)
                            \/ \E exp \in {"never", "timed"} : RenewPeerSingbox(p, exp)
  BY <1>2, <1>3 DEF AddPeerSingbox, RemovePeerSingbox, RenewPeerSingbox, SavePeers
<1>4. CASE SweepSingbox
  BY <1>2, <1>4 DEF SweepSingbox
<1>5. CASE EnableSingbox
  <2>1. ServerKey \in Nat /\ keys' \in Nat /\ key' \in Nat /\ savedKey' \in Nat
    BY <1>0, <1>5 DEF EnableSingbox, ServerKey, Form
  <2>2. op'.prev \in Managers /\ adrift' \in BOOLEAN /\ mem' \in Managers
    <3>1. CASE UNCHANGED <<savedKey, mem, op, adrift>>
      BY <1>0, <3>1
    <3>2. CASE Begin("enable", NoPeer, NoPeer, NoPeer, "render")
               /\ mem' = [enabled |-> TRUE, port |-> setting.port, key |-> ServerKey]
      <4>1. setting.port \in Nat
        BY <1>0 DEF Settings
      <4>2. mem' \in Managers
        BY <3>2, <2>1, <4>1 DEF Managers
      <4> QED BY <3>2, <4>2, BeginForms
    <3> QED BY <1>5, <3>1, <3>2 DEF EnableSingbox
  <2> QED BY <1>0, <1>5, <2>1, <2>2 DEF EnableSingbox, Forms, Form
<1>6. CASE Render
  <2>1. op'.prev \in Managers
    BY <1>6, FormsOp DEF Render
  <2> QED BY <1>0, <1>1, <1>6, <2>1 DEF Render, sbVars
<1>7. ASSUME NEW lost, RollBack(lost) PROVE op'.prev \in Managers /\ savedKey' \in Nat
                                            /\ mem' \in Managers /\ (lost \in BOOLEAN => adrift' \in BOOLEAN)
  BY <1>0, <1>7, FormsOp DEF RollBack, SavePeers, Restored, End
<1>8. ASSUME Complete PROVE op'.prev \in Managers /\ savedKey' \in Nat /\ mem' \in Managers
                            /\ setting' \in Settings
  <2>1. setting' \in Settings
    BY <1>0, <1>8 DEF Complete, Settings
  <2> QED BY <1>0, <1>8, <2>1, FormsOp DEF Complete, End
<1>9. CASE Sync
  <2>1. CASE RollBack(FALSE) /\ UNCHANGED <<endpoint, setting>>
    BY <1>0, <1>1, <1>7, <1>9, <2>1 DEF Sync
  <2>2. CASE Complete /\ adrift' = (adrift \/ op.spec # endpoint \/ loaded # endpoint)
    BY <1>0, <1>1, <1>8, <1>9, <2>2 DEF Sync
  <2>3. CASE Goto("reload") /\ UNCHANGED <<store, savedKey, mem, setting, adrift, faults>>
    <3>1. op'.prev = op.prev
      BY <2>3 DEF Goto, AddrInv, OpOK
    <3> QED BY <1>0, <1>1, <1>9, <2>3, <3>1 DEF Sync
  <2> QED BY <1>9, <2>1, <2>2, <2>3 DEF Sync
<1>10. CASE ReloadEndpoint
  <2>1. CASE RollBack(TRUE) /\ UNCHANGED <<loaded, setting>>
    BY <1>0, <1>1, <1>7, <1>10, <2>1 DEF ReloadEndpoint
  <2>2. CASE Complete /\ adrift' \in BOOLEAN
    BY <1>0, <1>1, <1>8, <1>10, <2>2 DEF ReloadEndpoint
  <2> QED BY <1>10, <2>1, <2>2 DEF ReloadEndpoint
<1>11. CASE DisableSingbox
  BY <1>0, <1>1, <1>11 DEF DisableSingbox
<1>12. ASSUME MarkDisabled PROVE mem' \in Managers
  BY <1>0, <1>12 DEF MarkDisabled, Managers
<1>13. ASSUME setting' = [setting EXCEPT !.enabled = FALSE] PROVE setting' \in Settings
  BY <1>0, <1>13 DEF Settings
<1>14. CASE DisableSync
  BY <1>0, <1>1, <1>12, <1>13, <1>14 DEF DisableSync
<1>15. CASE DisableReload
  BY <1>0, <1>1, <1>12, <1>13, <1>15 DEF DisableReload
<1> QED BY <1>3, <1>4, <1>5, <1>6, <1>9, <1>10, <1>11, <1>14, <1>15

LEMMA FormsKernel ==
    ASSUME AddrInv, Forms,
           \/ \E p \in Peers : \/ AddPeerKernel(p) \/ RemovePeerKernel(p)
                               \/ \E exp \in {"never", "timed"} : RenewPeerKernel(p, exp)
           \/ SetLive \/ Strip \/ Append \/ PutPeer \/ Unconf \/ Delete
    PROVE  Forms'
<1>0. /\ key \in Nat /\ savedKey \in Nat /\ keys \in Nat /\ mem \in Managers /\ op.prev \in Managers
      /\ setting \in Settings /\ Form(conf) /\ Form(iface) /\ disable \in {"idle", "checked", "reload"}
      /\ up \in {"idle", "up", "sweep"} /\ adrift \in BOOLEAN /\ backend \in {"kernel", "singbox"}
  BY DEF Forms
<1>1. ASSUME UNCHANGED <<mem, setting, backend, up, keys, krVars>>, savedKey' \in {key, savedKey},
             Form(conf'), Form(iface'), op'.prev \in Managers, adrift' \in BOOLEAN
      PROVE  Forms'
  BY <1>0, <1>1 DEF Forms, Form, krVars
<1>2. ASSUME NEW p, NEW adr PROVE Form(Serve(iface, p, adr)) /\ Form(Serve(conf, p, adr))
                                  /\ Form(Drop(iface, p)) /\ Form(Drop(conf, p))
  BY <1>0, ServeForm, DropForm
<1>3. ASSUME NEW p, NEW old, NEW new, NEW at, NEW kind, Begin(kind, p, old, new, at)
      PROVE  op'.prev \in Managers /\ adrift' \in BOOLEAN
  BY <1>3, BeginForms
<1>4. ASSUME NEW at, Goto(at) PROVE op'.prev \in Managers
  BY <1>0, <1>4 DEF Goto, AddrInv, OpOK
<1>5. ASSUME End PROVE op'.prev \in Managers
  BY <1>5, FormsOp DEF End
<1>6. ASSUME NEW n, RestoreExpiry(n) PROVE savedKey' \in {key, savedKey}
  BY <1>6 DEF RestoreExpiry, SavePeers
<1>7. ASSUME Unadmit PROVE savedKey' \in {key, savedKey} /\ Form(iface') /\ op'.prev \in Managers
                           /\ adrift' \in BOOLEAN
  BY <1>0, <1>2, <1>5, <1>6, <1>7 DEF Unadmit
<1>8. CASE \E p \in Peers : AddPeerKernel(p) \/ RemovePeerKernel(p)
  BY <1>0, <1>1, <1>2, <1>3, <1>8 DEF AddPeerKernel, RemovePeerKernel
<1>9. CASE \E p \in Peers, exp \in {"never", "timed"} : RenewPeerKernel(p, exp)
  BY <1>0, <1>1, <1>3, <1>9 DEF RenewPeerKernel, SavePeers
<1>10. CASE SetLive
  BY <1>0, <1>1, <1>2, <1>4, <1>5, <1>6, <1>10 DEF SetLive
<1>11. CASE Strip
  BY <1>0, <1>1, <1>2, <1>4, <1>7, <1>11 DEF Strip
<1>12. CASE Append
  BY <1>0, <1>1, <1>2, <1>4, <1>5, <1>7, <1>12 DEF Append
<1>13. CASE PutPeer
  BY <1>0, <1>1, <1>2, <1>5, <1>13 DEF PutPeer, SavePeers, Suspended
<1>14. CASE Unconf
  BY <1>0, <1>1, <1>2, <1>4, <1>5, <1>14 DEF Unconf
<1>15. CASE Delete
  BY <1>0, <1>1, <1>2, <1>5, <1>15 DEF Delete, SavePeers
<1> QED BY <1>8, <1>9, <1>10, <1>11, <1>12, <1>13, <1>14, <1>15

LEMMA FormsOthers ==
    ASSUME AddrInv, Forms,
           \/ SweepKernel \/ EnableKernel \/ DisableKernel \/ IfaceUp \/ EnableSweep
           \/ \E n \in Ports : SetPort(n)
           \/ SwitchBackend \/ StartDraft \/ DiscardDraft \/ ApplyDraft \/ Restart
           \/ \E p \in Peers : Expire(p)
           \/ UNCHANGED awgVars
    PROVE  Forms'
<1>0. /\ key \in Nat /\ savedKey \in Nat /\ keys \in Nat /\ mem \in Managers /\ op.prev \in Managers
      /\ setting \in Settings /\ Form(conf) /\ Form(iface) /\ disable \in {"idle", "checked", "reload"}
      /\ up \in {"idle", "up", "sweep"} /\ adrift \in BOOLEAN /\ backend \in {"kernel", "singbox"}
  BY DEF Forms
<1>1. mem.enabled \in BOOLEAN /\ mem.port \in Nat /\ mem.key \in Nat
      /\ setting.enabled \in BOOLEAN /\ setting.port \in Nat /\ conf.key \in Nat
  BY <1>0 DEF Managers, Settings, Form
<1>2. ASSUME NEW f, NEW b \in BOOLEAN
      PROVE  /\ Form([iface EXCEPT !.peers = f]) /\ Form([conf EXCEPT !.peers = f])
             /\ [mem EXCEPT !.enabled = b] \in Managers /\ [setting EXCEPT !.enabled = b] \in Settings
  <2>1. Form([iface EXCEPT !.peers = f]) /\ Form([conf EXCEPT !.peers = f])
    BY <1>0, PeersOnly
  <2>2. [mem EXCEPT !.enabled = b] \in Managers /\ [setting EXCEPT !.enabled = b] \in Settings
    BY <1>0 DEF Managers, Settings
  <2> QED BY <2>1, <2>2
<1>3. CASE SweepKernel
  <2>1. Form(iface') /\ Form(conf') /\ adrift' \in BOOLEAN
    BY <1>0, <1>2, <1>3 DEF SweepKernel
  <2> QED BY <1>0, <1>3, <2>1 DEF SweepKernel, krVars, Forms, Form
<1>4. CASE EnableKernel
  <2>1. keys' \in Nat
    BY <1>0, <1>4 DEF EnableKernel
  <2>2. mem' \in Managers /\ mem'.port \in Nat /\ mem'.key \in Nat
    BY <1>0, <1>1, <1>4, <2>1 DEF EnableKernel, Managers
  <2>3. Form(conf')
    BY <1>4, <2>2 DEF EnableKernel, Form
  <2>4. up' \in {"idle", "up", "sweep"}
    BY <1>4 DEF EnableKernel
  <2> QED BY <1>0, <1>4, <2>1, <2>2, <2>3, <2>4 DEF EnableKernel, krVars, Forms, Form
<1>5. CASE DisableKernel
  <2>1. mem' \in Managers /\ setting' \in Settings /\ Form(iface') /\ adrift' \in BOOLEAN
    BY <1>0, <1>2, <1>5, NothingForm DEF DisableKernel
  <2> QED BY <1>0, <1>5, <2>1 DEF DisableKernel, krVars, Forms, Form
<1>6. CASE IfaceUp
  <2>1. mem' \in Managers /\ Form(iface') /\ adrift' \in BOOLEAN /\ up' \in {"idle", "up", "sweep"}
    BY <1>0, <1>2, <1>6, NothingForm DEF IfaceUp
  <2> QED BY <1>0, <1>6, <2>1 DEF IfaceUp, krVars, Forms, Form
<1>7. CASE EnableSweep
  <2>1. setting' \in Settings /\ Form(iface') /\ up' \in {"idle", "up", "sweep"}
    BY <1>0, <1>2, <1>7 DEF EnableSweep
  <2> QED BY <1>0, <1>7, <2>1 DEF EnableSweep, krVars, Forms, Form
<1>8. ASSUME NEW n \in Ports, SetPort(n) PROVE Forms'
  <2>1. setting' \in Settings
    BY <1>0, <1>8, AwgAssumption DEF SetPort, Settings
  <2> QED BY <1>0, <1>8, <2>1 DEF SetPort, Forms, Form
<1>9. CASE SwitchBackend
  <2>1. setting' \in Settings /\ adrift' \in BOOLEAN /\ backend' \in {"kernel", "singbox"}
    BY <1>0, <1>2, <1>9 DEF SwitchBackend
  <2> QED BY <1>0, <1>9, <2>1 DEF SwitchBackend, Forms, Form
<1>10. CASE StartDraft \/ DiscardDraft \/ ApplyDraft
  <2>1. adrift' \in BOOLEAN
    BY <1>0, <1>10 DEF StartDraft, DiscardDraft, ApplyDraft
  <2> QED BY <1>0, <1>10, <2>1 DEF StartDraft, DiscardDraft, ApplyDraft, Forms, Form
<1>11. CASE Restart
  <2>1. mem' \in Managers
    <3>1. CASE RestartSingbox
      BY <1>0, <1>1, <3>1 DEF RestartSingbox, Managers
    <3>2. CASE RestartKernel
      BY <1>0, <1>1, <3>2 DEF RestartKernel, Managers, Cold
    <3> QED BY <1>11, <3>1, <3>2 DEF Restart
  <2>2. Form(iface')
    BY <1>0, <1>11, NothingForm DEF Restart, RestartSingbox, RestartKernel
  <2>3. op'.prev \in Managers
    BY <1>11, FormsOp DEF Restart
  <2>4. adrift' \in BOOLEAN
    BY <1>0, <1>11 DEF Restart
  <2> QED BY <1>0, <1>11, <2>1, <2>2, <2>3, <2>4 DEF Restart, Forms, Form
<1>12. CASE \E p \in Peers : Expire(p)
  BY <1>0, <1>12, FormsSame DEF Expire
<1>13. CASE UNCHANGED awgVars
  BY <1>13, FormsSame DEF awgVars
<1> QED BY <1>3, <1>4, <1>5, <1>6, <1>7, <1>8, <1>9, <1>10, <1>11, <1>12, <1>13

LEMMA FormsKept == AddrInv /\ Forms /\ [Next]_awgVars => Forms'
BY FormsSingbox, FormsKernel, FormsOthers
   DEF Next, Request, OpStep, DisableStep, UpStep, Sweep

-----------------------------------------------------------------------------
(* The operation in flight.                                                  *)

LEMMA ShapeEnd == ASSUME op' = Idle PROVE Shape(store)'
BY DEF Shape

LEMMA ShapeSame == ASSUME Shape(store), UNCHANGED <<store, op>> PROVE Shape(store)'
BY DEF Shape, PeerKnown, Idle

\* A step that moves the operation on.
LEMMA ShapeGoto ==
    ASSUME AddrInv, Shape(store), NEW at, NEW spec, UNCHANGED store,
           op' = [op EXCEPT !.at = at, !.spec = spec],
           \/ op.at \in SingboxAt /\ at \in SingboxAt
           \/ op.at = "set" /\ at = "strip"
           \/ op.at = "strip" /\ at = "append"
           \/ op.at = "append" /\ op.kind # "renew" /\ at = "put"
           \/ op.at = "unconf" /\ at = "delete"
    PROVE  Shape(store)'
<1>1. op' = [kind |-> op.kind, pub |-> op.pub, old |-> op.old, new |-> op.new,
             at |-> at, spec |-> spec, prev |-> op.prev]
  BY DEF AddrInv, OpOK
<1>2. /\ op'.kind = op.kind /\ op'.pub = op.pub /\ op'.old = op.old /\ op'.new = op.new /\ op'.at = at
  BY <1>1
<1>3. op # Idle
  BY DEF Idle, SingboxAt
<1>4. CASE op.at \in SingboxAt
  BY <1>2, <1>3, <1>4 DEF Shape, SingboxAt, KernelAt, Admitted
<1>5. CASE op.at \in KernelAt
  <2>1. /\ op.pub \in Peers /\ PeerKnown(store)
        /\ op.at = "set" => op.kind = "renew"
        /\ op.at \in {"strip", "append"} => op.kind \in {"add", "renew"}
        /\ op.at \in {"unconf", "delete"} => op.kind = "remove"
    BY <1>3, <1>5 DEF Shape, SingboxAt, KernelAt, Admitted
  <2>2. PeerKnown(store)'
    BY <1>2, <2>1 DEF PeerKnown
  <2> QED BY <1>2, <1>5, <2>1, <2>2 DEF Shape, SingboxAt, KernelAt, Admitted
<1> QED BY <1>4, <1>5 DEF KernelAt, Admitted

LEMMA ShapeSingbox ==
    ASSUME AddrInv, Shape(store),
           \/ \E p \in Peers : \/ AddPeerSingbox(p) \/ RemovePeerSingbox(p)
                               \/ \E exp \in {"never", "timed"} : RenewPeerSingbox(p, exp)
           \/ SweepSingbox \/ EnableSingbox \/ Render \/ Sync \/ ReloadEndpoint
           \/ DisableSingbox \/ DisableSync \/ DisableReload
    PROVE  Shape(store)'
<1>1. ASSUME NEW kind, NEW p, NEW old, Begin(kind, p, old, NoPeer, "render"),
             \/ kind \in {"add", "remove", "renew"} /\ p \in Peers
             \/ kind \in {"sweep", "enable"} /\ p = NoPeer
      PROVE  Shape(store)'
  <2>1. op'.kind = kind /\ op'.pub = p /\ op'.at = "render"
    BY <1>1 DEF Begin, Idle
  <2> QED BY <1>1, <2>1 DEF Shape, SingboxAt
<1>2. ASSUME End PROVE Shape(store)'
  BY <1>2, ShapeEnd DEF End
<1>3. CASE \E p \in Peers : \/ AddPeerSingbox(p) \/ RemovePeerSingbox(p)
                            \/ \E exp \in {"never", "timed"} : RenewPeerSingbox(p, exp)
  BY <1>1, <1>3 DEF AddPeerSingbox, RemovePeerSingbox, RenewPeerSingbox
<1>4. CASE SweepSingbox
  BY <1>1, <1>4 DEF SweepSingbox
<1>5. CASE EnableSingbox
  BY <1>1, <1>5, ShapeSame DEF EnableSingbox
<1>6. CASE Render
  BY <1>6, ShapeGoto DEF Render, SingboxAt
<1>7. CASE Sync
  <2>1. CASE Goto("reload") /\ UNCHANGED store
    <3>1. op' = [op EXCEPT !.at = "reload", !.spec = op.spec]
      BY <2>1 DEF Goto, AddrInv, OpOK
    <3> QED BY <1>7, <2>1, <3>1, ShapeGoto DEF Sync, SingboxAt
  <2> QED BY <1>2, <1>7, <2>1 DEF Sync, RollBack, Complete
<1>8. CASE ReloadEndpoint
  BY <1>2, <1>8 DEF ReloadEndpoint, RollBack, Complete
<1>9. CASE DisableSingbox \/ DisableSync \/ DisableReload
  BY <1>9, ShapeSame DEF DisableSingbox, DisableSync, DisableReload
<1> QED BY <1>3, <1>4, <1>5, <1>6, <1>7, <1>8, <1>9

LEMMA ShapeKernel ==
    ASSUME AddrInv, Shape(store),
           \/ \E p \in Peers : \/ AddPeerKernel(p) \/ RemovePeerKernel(p)
                               \/ \E exp \in {"never", "timed"} : RenewPeerKernel(p, exp)
           \/ SetLive \/ Strip \/ Append \/ PutPeer \/ Unconf \/ Delete
    PROVE  Shape(store)'
<1>1. ASSUME NEW kind, NEW p, NEW old, NEW new, NEW at, Begin(kind, p, old, new, at)
      PROVE  op'.kind = kind /\ op'.pub = p /\ op'.old = old /\ op'.new = new /\ op'.at = at
  BY <1>1 DEF Begin, Idle
<1>2. ASSUME End PROVE Shape(store)'
  BY <1>2, ShapeEnd DEF End
<1>3. ASSUME NEW at, Goto(at) PROVE op' = [op EXCEPT !.at = at, !.spec = op.spec]
  BY <1>3 DEF Goto, AddrInv, OpOK
<1>4. ASSUME NEW p \in Peers, AddPeerKernel(p) PROVE Shape(store)'
  <2>1. PICK adr \in NextFree(Taken) : Begin("add", p, NoPeer, NewPeer(adr), "strip")
    BY <1>4 DEF AddPeerKernel
  <2>2. p \notin DOMAIN store' /\ PeerKnown(store)'
    BY <1>1, <1>4, <2>1 DEF AddPeerKernel, Known, PeerKnown
  <2> QED BY <1>1, <2>1, <2>2 DEF Shape, KernelAt, Admitted
<1>5. ASSUME NEW p \in Peers, RemovePeerKernel(p) PROVE Shape(store)'
  <2> DEFINE old == IF p \in DOMAIN store THEN store[p] ELSE NoPeer
  <2>1. Begin("remove", p, old, NoPeer, "unconf") /\ UNCHANGED store
    BY <1>5 DEF RemovePeerKernel
  <2>2. p \in DOMAIN store => store[p] # NoPeer
    BY <1>5, AwgAssumption DEF AddrInv, StoreOK
  <2>3. PeerKnown(store)'
    BY <1>1, <2>1, <2>2 DEF PeerKnown
  <2> QED BY <1>1, <2>1, <2>3 DEF Shape, KernelAt, Admitted
<1>6. ASSUME NEW p \in Peers, NEW exp \in {"never", "timed"}, RenewPeerKernel(p, exp)
      PROVE  Shape(store)'
  <2> DEFINE new == [store[p] EXCEPT !.exp = exp]
  <2>1. Begin("renew", p, store[p], new, "set") /\ p \in DOMAIN store /\ store' = With(store, p, new)
    BY <1>6 DEF RenewPeerKernel, SavePeers
  <2>2. new.exp = exp
    <3>1. store[p] \in Peer
      BY <2>1 DEF AddrInv, StoreOK
    <3> QED BY <3>1 DEF Peer
  <2>3. p \in DOMAIN store' /\ store'[p] = new
    BY <2>1 DEF With
  <2>4. PeerKnown(store)'
    <3>1. op'.kind = "renew" /\ op'.pub = p /\ op'.new = new /\ exp # "past"
      BY <1>1, <2>1
    <3> HIDE DEF new
    <3> QED BY <2>2, <2>3, <3>1 DEF PeerKnown
  <2> QED BY <1>1, <2>1, <2>4 DEF Shape, KernelAt, Admitted
<1>7. CASE SetLive
  BY <1>2, <1>3, <1>7, ShapeGoto DEF SetLive
<1>8. CASE Strip
  BY <1>2, <1>3, <1>8, ShapeGoto DEF Strip, Unadmit
<1>9. CASE Append
  BY <1>2, <1>3, <1>9, ShapeGoto DEF Append, Unadmit
<1>10. CASE PutPeer
  BY <1>2, <1>10 DEF PutPeer
<1>11. CASE Unconf
  BY <1>2, <1>3, <1>11, ShapeGoto DEF Unconf
<1>12. CASE Delete
  BY <1>2, <1>12 DEF Delete
<1> QED BY <1>4, <1>5, <1>6, <1>7, <1>8, <1>9, <1>10, <1>11, <1>12

LEMMA ShapeExpire == ASSUME AddrInv, Shape(store), NEW p \in Peers, Expire(p) PROVE Shape(store)'
<1>1. DOMAIN store' = DOMAIN store /\ \A q \in DOMAIN store : store'[q].addr = store[q].addr
  BY DEF Expire, AddrInv, StoreOK, Peer
<1>2. UNCHANGED op
  BY DEF Expire
<1>3. PeerKnown(store) => PeerKnown(store)'
  BY <1>1, <1>2 DEF PeerKnown
<1> QED BY <1>2, <1>3 DEF Shape, Idle

LEMMA ShapeKept == AddrInv /\ Shape(store) /\ [Next]_awgVars => Shape(store)'
<1> SUFFICES ASSUME AddrInv, Shape(store), [Next]_awgVars PROVE Shape(store)'
  OBVIOUS
<1>1. CASE \/ SweepKernel \/ EnableKernel \/ DisableKernel \/ IfaceUp \/ EnableSweep
           \/ \E n \in Ports : SetPort(n)
           \/ SwitchBackend \/ StartDraft \/ DiscardDraft \/ ApplyDraft
           \/ UNCHANGED awgVars
  BY <1>1, ShapeSame DEF SweepKernel, EnableKernel, DisableKernel, IfaceUp, EnableSweep, SetPort,
     SwitchBackend, StartDraft, DiscardDraft, ApplyDraft, awgVars
<1>2. CASE Restart
  BY <1>2, ShapeEnd DEF Restart
<1> QED BY <1>1, <1>2, ShapeSingbox, ShapeKernel, ShapeExpire
        DEF Next, Request, OpStep, DisableStep, UpStep, Sweep

-----------------------------------------------------------------------------
(* Which backend has what.                                                   *)

LEMMA DropNothing == ASSUME NEW p PROVE Drop(Nothing, p) = Nothing
<1>1. Without(<<>>, p) = <<>>
  BY DEF Without, Restrict
<1> QED BY <1>1 DEF Drop, Nothing

\* The facts of Forms and Shape the roles depend on.
LEMMA RoleFacts ==
    ASSUME AddrInv, Forms, Shape(store)
    PROVE  /\ mem.enabled \in BOOLEAN /\ op.prev.enabled \in BOOLEAN /\ setting.enabled \in BOOLEAN
           /\ op # Idle <=> op.at \in SingboxAt \cup KernelAt
           /\ op.at = "none" <=> op = Idle
           /\ op = Idle => op.kind = "none" /\ op.pub = NoPeer
           /\ op.at \in KernelAt => op.kind \in {"add", "renew", "remove"} /\ op.pub \in Peers
<1>1. mem.enabled \in BOOLEAN /\ op.prev.enabled \in BOOLEAN /\ setting.enabled \in BOOLEAN
  BY DEF Forms, Managers, Settings
<1>2. CASE op = Idle
  BY <1>1, <1>2 DEF Idle, SingboxAt, KernelAt, Admitted
<1>3. CASE op # Idle
  BY <1>1, <1>3 DEF Shape, Idle, SingboxAt, KernelAt, Admitted
<1> QED BY <1>2, <1>3

\* Steps of the operation in flight move it on within its backend, or end it.
LEMMA RolesSingbox ==
    ASSUME AddrInv, Forms, Shape(store), Roles,
           \/ \E p \in Peers : \/ AddPeerSingbox(p) \/ RemovePeerSingbox(p)
                               \/ \E exp \in {"never", "timed"} : RenewPeerSingbox(p, exp)
           \/ SweepSingbox \/ EnableSingbox \/ Render \/ Sync \/ ReloadEndpoint
           \/ DisableSingbox \/ DisableSync \/ DisableReload
    PROVE  Roles'
<1>0. /\ mem.enabled \in BOOLEAN /\ op.prev.enabled \in BOOLEAN
      /\ op # Idle <=> op.at \in SingboxAt \cup KernelAt
      /\ op.at = "none" <=> op = Idle
      /\ op = Idle => op.kind = "none" /\ op.pub = NoPeer
  BY RoleFacts
<1>1. Idle.kind = "none" /\ Idle.at = "none" /\ "none" \notin SingboxAt \cup KernelAt
      /\ SingboxAt \cap KernelAt = {}
  BY DEF Idle, SingboxAt, KernelAt, Admitted
<1>2. ASSUME NEW kind, NEW p, NEW old, Begin(kind, p, old, NoPeer, "render"), kind # "enable",
             ~Kernel, UNCHANGED <<key, mem, disable, sbVars>>
      PROVE  Roles'
  <2>1. /\ op' # Idle /\ op'.kind = kind /\ op'.at = "render" /\ adrift' = (adrift \/ disable # "idle")
    BY <1>1, <1>2 DEF Begin, Idle
  <2>2. "render" \notin KernelAt
    BY DEF KernelAt, Admitted
  <2> QED BY <1>2, <2>1, <2>2 DEF Roles, sbVars, Kernel
<1>3. CASE \E p \in Peers : \/ AddPeerSingbox(p) \/ RemovePeerSingbox(p)
                            \/ \E exp \in {"never", "timed"} : RenewPeerSingbox(p, exp)
  BY <1>2, <1>3 DEF AddPeerSingbox, RemovePeerSingbox, RenewPeerSingbox, Singbox, Kernel
<1>4. CASE SweepSingbox
  BY <1>2, <1>4 DEF SweepSingbox, Kernel
<1>5. CASE EnableSingbox
  <2>0. backend = "singbox" /\ ~Kernel
    BY <1>5 DEF EnableSingbox, Singbox, Kernel
  <2>1. /\ iface = Nothing /\ up = "idle" /\ (mem.enabled => mem.key = key /\ key # 0)
        /\ UNCHANGED <<backend, iface, up, disable>> /\ key' = ServerKey /\ ~Kernel'
    BY <1>5, <2>0 DEF EnableSingbox, Roles, Kernel
  <2>2. ServerKey # 0 /\ (key # 0 => ServerKey = key)
    BY DEF ServerKey, Forms
  <2>3. CASE Begin("enable", NoPeer, NoPeer, NoPeer, "render")
             /\ mem' = [enabled |-> TRUE, port |-> setting.port, key |-> ServerKey]
    <3>1. /\ op' # Idle /\ op'.kind = "enable" /\ op'.at = "render" /\ op'.prev = mem
          /\ adrift' = (adrift \/ disable # "idle")
      BY <1>1, <2>3 DEF Begin, Idle
    <3>2. "render" \notin KernelAt
      BY DEF KernelAt, Admitted
    <3> QED BY <2>1, <2>2, <2>3, <3>1, <3>2 DEF Roles
  <2>4. CASE key = 0 /\ op = Idle /\ UNCHANGED <<mem, op, adrift>>
    BY <1>0, <1>1, <2>1, <2>4 DEF Roles
  <2> QED BY <1>5, <2>3, <2>4 DEF EnableSingbox
<1>6. ASSUME op.at \in SingboxAt, op'.at \in SingboxAt, op'.kind = op.kind, op'.prev = op.prev,
             UNCHANGED <<key, mem, iface, up, backend, disable, adrift>>
      PROVE  Roles'
  BY <1>0, <1>1, <1>6 DEF Roles, Kernel
<1>7. ASSUME op.at \in SingboxAt, op' = Idle, UNCHANGED <<key, iface, up, backend, disable>>,
             mem' = mem \/ (op.kind = "enable" /\ mem' = op.prev),
             adrift' \/ (adrift' = adrift) \/ disable = "idle"
      PROVE  Roles'
  BY <1>0, <1>1, <1>7 DEF Roles, Kernel
<1>8. CASE Render
  <2>1. op.at \in SingboxAt /\ op'.at = "sync" /\ op'.kind = op.kind /\ op'.prev = op.prev
    BY <1>8 DEF Render, SingboxAt, AddrInv, OpOK
  <2>2. "sync" \in SingboxAt
    BY DEF SingboxAt
  <2> QED BY <1>6, <1>8, <2>1, <2>2 DEF Render, sbVars
<1>9. ASSUME NEW lost, RollBack(lost)
      PROVE  op' = Idle /\ (mem' = mem \/ (op.kind = "enable" /\ mem' = op.prev))
  BY <1>9 DEF RollBack, End, Restored
<1>10. CASE Sync
  <2>0. op.at \in SingboxAt /\ UNCHANGED <<key, iface, up, backend, disable>>
    BY <1>10 DEF Sync, SingboxAt
  <2>1. CASE RollBack(FALSE)
    <3>1. adrift' \/ adrift' = adrift
      BY <2>1 DEF RollBack, Forms
    <3> QED BY <1>7, <1>9, <2>0, <2>1, <3>1
  <2>2. CASE Complete /\ adrift' = (adrift \/ op.spec # endpoint \/ loaded # endpoint)
    <3>1. adrift' \/ adrift' = adrift
      BY <2>2 DEF Forms
    <3> QED BY <1>7, <2>0, <2>2, <3>1 DEF Complete, End
  <2>3. CASE Goto("reload") /\ UNCHANGED <<store, savedKey, mem, setting, adrift, faults>>
    <3>1. op'.at = "reload" /\ op'.kind = op.kind /\ op'.prev = op.prev /\ "reload" \in SingboxAt
      BY <2>3 DEF Goto, SingboxAt, AddrInv, OpOK
    <3> QED BY <1>6, <2>0, <2>3, <3>1
  <2> QED BY <1>10, <2>1, <2>2, <2>3 DEF Sync
<1>11. CASE ReloadEndpoint
  <2>0. op.at \in SingboxAt /\ UNCHANGED <<key, iface, up, backend, disable>>
    BY <1>11 DEF ReloadEndpoint, SingboxAt
  <2>1. CASE RollBack(TRUE)
    <3>1. adrift' \/ adrift' = adrift
      BY <2>1 DEF RollBack, Forms
    <3> QED BY <1>7, <1>9, <2>0, <2>1, <3>1
  <2>2. CASE Complete /\ adrift' = (adrift /\ ~( /\ op.kind = "sweep" /\ disable = "idle"
                                     /\ setting.enabled = mem.enabled
                                     /\ endpoint = ServerSpec(mem, store)))
    <3>1. adrift' = adrift \/ disable = "idle"
      BY <2>2 DEF Forms
    <3> QED BY <1>7, <2>0, <2>2, <3>1 DEF Complete, End
  <2> QED BY <1>11, <2>1, <2>2 DEF ReloadEndpoint
<1>12. ASSUME UNCHANGED <<key, op, iface, up, backend>>, mem' = mem \/ MarkDisabled,
              adrift' \/ adrift' = adrift, disable' = "idle" \/ disable # "idle"
       PROVE  Roles'
  <2>1. ~mem'.enabled \/ mem' = mem
    BY <1>12 DEF MarkDisabled, Forms, Managers
  <2> QED BY <1>12, <2>1 DEF Roles, Kernel
<1>13. CASE DisableSingbox
  <2>1. ~Kernel /\ UNCHANGED <<key, op, iface, up, backend, mem>> /\ adrift' = (adrift \/ op # Idle)
    BY <1>13 DEF DisableSingbox, Singbox, Kernel
  <2> QED BY <2>1 DEF Roles, Kernel
<1>14. CASE DisableSync
  <2>1. UNCHANGED <<key, op, iface, up, backend>> /\ disable # "idle" /\ (mem' = mem \/ MarkDisabled)
    BY <1>14 DEF DisableSync
  <2>2. adrift' \/ adrift' = adrift
    BY <1>14 DEF DisableSync, Forms
  <2> QED BY <1>12, <2>1, <2>2
<1>15. CASE DisableReload
  <2>1. UNCHANGED <<key, op, iface, up, backend>> /\ disable # "idle" /\ MarkDisabled
    BY <1>15 DEF DisableReload
  <2>2. adrift' \/ adrift' = adrift
    BY <1>15 DEF DisableReload, Forms
  <2> QED BY <1>12, <2>1, <2>2
<1> QED BY <1>3, <1>4, <1>5, <1>8, <1>10, <1>11, <1>13, <1>14, <1>15

LEMMA RolesKernel ==
    ASSUME AddrInv, Forms, Shape(store), Roles,
           \/ \E p \in Peers : \/ AddPeerKernel(p) \/ RemovePeerKernel(p)
                               \/ \E exp \in {"never", "timed"} : RenewPeerKernel(p, exp)
           \/ SetLive \/ Strip \/ Append \/ PutPeer \/ Unconf \/ Delete
    PROVE  Roles'
<1>0. /\ mem.enabled \in BOOLEAN /\ op.prev.enabled \in BOOLEAN
      /\ op # Idle <=> op.at \in SingboxAt \cup KernelAt
      /\ op.at = "none" <=> op = Idle
      /\ op = Idle => op.kind = "none" /\ op.pub = NoPeer
      /\ op.at \in KernelAt => op.kind # "enable"
  BY RoleFacts
<1>1. /\ Idle.kind = "none" /\ Idle.at = "none" /\ "none" \notin SingboxAt \cup KernelAt
      /\ SingboxAt \cap KernelAt = {} /\ {"set", "strip", "append", "put", "unconf", "delete"} = KernelAt
  BY DEF Idle, SingboxAt, KernelAt, Admitted
<1>2. ASSUME NEW kind, NEW p, NEW old, NEW new, NEW at, Begin(kind, p, old, new, at),
             kind # "enable", at \in KernelAt, Kernel, UNCHANGED <<mem, backend, up, krVars>>
      PROVE  Roles'
  <2>1. /\ op' # Idle /\ op'.kind = kind /\ op'.at = at /\ adrift' = (adrift \/ disable # "idle")
    BY <1>1, <1>2 DEF Begin, Idle
  <2> QED BY <1>1, <1>2, <2>1 DEF Roles, krVars, Kernel
<1>3. CASE \E p \in Peers : AddPeerKernel(p) \/ RemovePeerKernel(p)
  BY <1>1, <1>2, <1>3 DEF AddPeerKernel, RemovePeerKernel
<1>4. CASE \E p \in Peers, exp \in {"never", "timed"} : RenewPeerKernel(p, exp)
  BY <1>1, <1>2, <1>4 DEF RenewPeerKernel
\* Nothing brings an interface back that is not there.
<1>5. ASSUME op.at \in KernelAt, op' = Idle \/ (op'.at \in KernelAt /\ op'.kind = op.kind),
             UNCHANGED <<mem, backend, up, krVars>>, iface = Nothing => iface' = Nothing,
             adrift' \/ adrift' = adrift
      PROVE  Roles'
  BY <1>0, <1>1, <1>5 DEF Roles, Kernel, krVars
<1>6. ASSUME NEW at, Goto(at) PROVE op'.at = at /\ op'.kind = op.kind
  BY <1>6 DEF Goto, AddrInv, OpOK
<1>7. Drop(Nothing, op.pub) = Nothing
  BY DropNothing
<1>8. ASSUME Unadmit PROVE op' = Idle /\ (iface = Nothing => iface' = Nothing) /\ (adrift' \/ adrift' = adrift)
  <2>1. adrift' \/ adrift' = adrift
    BY <1>8 DEF Unadmit, Forms
  <2> QED BY <1>7, <1>8, <2>1 DEF Unadmit, End
<1>9. CASE SetLive
  <2>1. op.at \in KernelAt /\ UNCHANGED <<mem, backend, up, krVars>> /\ (iface = Nothing => iface' = Nothing)
    BY <1>1, <1>9 DEF SetLive, Live
  <2>2. adrift' \/ adrift' = adrift
    BY <1>9 DEF SetLive, Forms
  <2>3. op' = Idle \/ (op'.at = "strip" /\ op'.kind = op.kind)
    BY <1>6, <1>9 DEF SetLive, End
  <2> QED BY <1>1, <1>5, <2>1, <2>2, <2>3
<1>10. CASE Strip
  <2>1. op.at \in KernelAt /\ UNCHANGED <<mem, backend, up, krVars>>
    BY <1>1, <1>10 DEF Strip
  <2> QED BY <1>1, <1>5, <1>6, <1>8, <1>10, <2>1 DEF Strip
<1>11. CASE Append
  <2>1. op.at \in KernelAt /\ UNCHANGED <<mem, backend, up, krVars>>
    BY <1>1, <1>11 DEF Append
  <2> QED BY <1>1, <1>5, <1>6, <1>8, <1>11, <2>1 DEF Append, End
<1>12. CASE PutPeer
  <2>1. op.at \in KernelAt /\ UNCHANGED <<mem, backend, up, krVars>> /\ op' = Idle
        /\ (iface = Nothing => iface' = Nothing)
    BY <1>1, <1>7, <1>12 DEF PutPeer, Suspended, End
  <2>2. adrift' \/ adrift' = adrift
    BY <1>12 DEF PutPeer, Suspended
  <2> QED BY <1>5, <2>1, <2>2
<1>13. CASE Unconf
  <2>1. op.at \in KernelAt /\ UNCHANGED <<mem, backend, up, krVars, iface>>
        /\ (op' = Idle \/ (op'.at = "delete" /\ op'.kind = op.kind))
    BY <1>1, <1>6, <1>13 DEF Unconf, End
  <2>2. adrift' \/ adrift' = adrift
    BY <1>13 DEF Unconf
  <2> QED BY <1>1, <1>5, <2>1, <2>2
<1>14. CASE Delete
  <2>1. op.at \in KernelAt /\ UNCHANGED <<mem, backend, up, krVars>> /\ op' = Idle
        /\ (iface = Nothing => iface' = Nothing)
    BY <1>1, <1>14 DEF Delete, End, Live
  <2>2. adrift' \/ adrift' = adrift
    BY <1>14 DEF Delete
  <2> QED BY <1>5, <2>1, <2>2
<1> QED BY <1>3, <1>4, <1>9, <1>10, <1>11, <1>12, <1>13, <1>14

LEMMA RolesOthers ==
    ASSUME AddrInv, Forms, Shape(store), Roles,
           \/ SweepKernel \/ EnableKernel \/ DisableKernel \/ IfaceUp \/ EnableSweep
           \/ \E n \in Ports : SetPort(n)
           \/ SwitchBackend \/ StartDraft \/ DiscardDraft \/ ApplyDraft \/ Restart
           \/ \E p \in Peers : Expire(p)
           \/ UNCHANGED awgVars
    PROVE  Roles'
<1>0. /\ mem.enabled \in BOOLEAN /\ op.prev.enabled \in BOOLEAN
      /\ op # Idle <=> op.at \in SingboxAt \cup KernelAt
      /\ op.at = "none" <=> op = Idle
      /\ op = Idle => op.kind = "none" /\ op.pub = NoPeer
  BY RoleFacts
<1>1. Idle.kind = "none" /\ Idle.at = "none" /\ "none" \notin SingboxAt \cup KernelAt
      /\ SingboxAt \cap KernelAt = {}
  BY DEF Idle, SingboxAt, KernelAt, Admitted
\* A kernel step between operations.
<1>2. ASSUME Kernel, UNCHANGED <<op, backend, key, disable>>, op = Idle, adrift' \/ adrift' = adrift
      PROVE  Roles'
  BY <1>0, <1>1, <1>2 DEF Roles, Kernel
<1>3. CASE SweepKernel
  BY <1>2, <1>3 DEF SweepKernel, krVars
<1>4. CASE EnableKernel
  BY <1>2, <1>4 DEF EnableKernel, krVars
<1>5. CASE EnableSweep
  <2>1. Kernel
    BY <1>5 DEF EnableSweep, Roles
  <2> QED BY <1>2, <1>5, <2>1 DEF EnableSweep, krVars
<1>6. CASE DisableKernel
  <2>1. Kernel /\ UNCHANGED <<op, backend, key, disable, up>> /\ iface' = Nothing
    BY <1>6 DEF DisableKernel, krVars
  <2>2. ~mem'.enabled
    BY <1>6 DEF DisableKernel, Forms, Managers
  <2>3. adrift' \/ adrift' = adrift
    BY <1>6 DEF DisableKernel, Forms
  <2> QED BY <2>1, <2>2, <2>3 DEF Roles, Kernel
<1>7. CASE IfaceUp
  <2>1. Kernel /\ UNCHANGED <<op, backend, key, disable>> /\ up = "up"
    BY <1>7 DEF IfaceUp, Roles, krVars
  <2>2. op.at \notin SingboxAt
    BY <2>1 DEF Roles
  <2>3. adrift' \/ adrift' = adrift
    BY <1>7 DEF IfaceUp, Forms
  <2> QED BY <2>1, <2>2, <2>3 DEF Roles, Kernel
<1>8. ASSUME UNCHANGED <<op, backend, key, disable, iface, up, mem>>, adrift' \/ adrift' = adrift
      PROVE  Roles'
  BY <1>8 DEF Roles, Kernel
<1>9. CASE \/ \E n \in Ports : SetPort(n)
           \/ \E p \in Peers : Expire(p)
           \/ StartDraft \/ DiscardDraft \/ UNCHANGED awgVars
  BY <1>8, <1>9 DEF SetPort, Expire, StartDraft, DiscardDraft, awgVars
<1>10. CASE ApplyDraft
  <2>1. adrift' \/ adrift' = adrift
    BY <1>10 DEF ApplyDraft, Forms
  <2> QED BY <1>8, <1>10, <2>1 DEF ApplyDraft
<1>11. CASE SwitchBackend
  <2>1. /\ UNCHANGED <<op, key, disable, iface, up, mem>> /\ up = "idle" /\ op.kind # "enable"
        /\ ~mem.enabled /\ (Kernel => iface = Nothing)
    BY <1>11 DEF SwitchBackend, Enabled, Busy, Live
  <2>2. iface = Nothing
    BY <2>1 DEF Roles
  <2>3. adrift' \/ (adrift' = adrift /\ op = Idle /\ disable = "idle")
    BY <1>11 DEF SwitchBackend, Forms
  <2> QED BY <1>0, <1>1, <2>1, <2>2, <2>3 DEF Roles, Kernel
<1>12. CASE Restart
  <2>1. op' = Idle /\ disable' = "idle" /\ up' = "idle" /\ UNCHANGED backend /\ key' = savedKey
    BY <1>12 DEF Restart
  <2>2. ~Kernel' => iface' = Nothing
    <3>1. CASE RestartSingbox
      BY <1>12, <3>1 DEF RestartSingbox, Restart, Roles, Kernel
    <3>2. CASE RestartKernel
      BY <2>1, <3>2 DEF RestartKernel, Kernel
    <3> QED BY <1>12, <3>1, <3>2 DEF Restart
  <2>3. ~Kernel' /\ mem'.enabled => mem'.key = key' /\ key' # 0
    <3>1. CASE RestartSingbox
      BY <2>1, <3>1 DEF RestartSingbox
    <3>2. CASE RestartKernel
      BY <2>1, <3>2 DEF RestartKernel, Kernel
    <3> QED BY <1>12, <3>1, <3>2 DEF Restart
  <2> QED BY <1>1, <2>1, <2>2, <2>3 DEF Roles
<1> QED BY <1>3, <1>4, <1>5, <1>6, <1>7, <1>9, <1>10, <1>11, <1>12

LEMMA RolesKept == AddrInv /\ Forms /\ Shape(store) /\ Roles /\ [Next]_awgVars => Roles'
BY RolesSingbox, RolesKernel, RolesOthers
   DEF Next, Request, OpStep, DisableStep, UpStep, Sweep

-----------------------------------------------------------------------------
(* What serves whom.                                                         *)

\* Two stores that differ in p at most.
SameBut(st, other, p) ==
    \A q : q # p => /\ q \in DOMAIN st <=> q \in DOMAIN other
                    /\ q \in DOMAIN st => st[q] = other[q]

LEMMA WithSame ==
    ASSUME NEW st, NEW p, NEW r
    PROVE  /\ SameBut(st, With(st, p, r), p) /\ p \in DOMAIN With(st, p, r) /\ With(st, p, r)[p] = r
           /\ SameBut(st, Without(st, p), p) /\ p \notin DOMAIN Without(st, p)
BY DEF SameBut, With, Without, Restrict

LEMMA SameTrans ==
    ASSUME NEW st, NEW other, NEW third, NEW p, SameBut(st, other, p), SameBut(st, third, p)
    PROVE  SameBut(other, third, p)
BY DEF SameBut

\* A store is put back by undoing the one change that was made to it.
LEMMA Undone ==
    ASSUME NEW st, StoreOK(st), NEW p, NEW r
    PROVE  /\ p \notin DOMAIN st => /\ Without(With(st, p, r), p) = st
                                    /\ Without(st, p) = st
           /\ p \in DOMAIN st => /\ With(With(st, p, r), p, st[p]) = st
                                 /\ With(Without(st, p), p, st[p]) = st
                                 /\ With(st, p, st[p]) = st
<1>1. st = [q \in DOMAIN st |-> st[q]]
  BY DEF StoreOK
<1>2. ASSUME p \notin DOMAIN st PROVE Without(With(st, p, r), p) = st /\ Without(st, p) = st
  BY <1>1, <1>2 DEF With, Without, Restrict
<1>3. ASSUME p \in DOMAIN st
      PROVE  /\ With(With(st, p, r), p, st[p]) = st
             /\ With(Without(st, p), p, st[p]) = st
             /\ With(st, p, st[p]) = st
  BY <1>1, <1>3 DEF With, Without, Restrict
<1> QED BY <1>2, <1>3

LEMMA DropAnswers ==
    ASSUME NEW s, Form(s), NEW m, NEW st, NEW other, NEW p, Answers(s, m, st),
           SameBut(st, other, p), p \notin DOMAIN other
    PROVE  Answers(Drop(s, p), m, other)
<1>1. Serves(other, Without(s.peers, p))
  BY DEF Answers, Serves, SameBut, Without, Restrict
<1> QED BY <1>1, DropForm DEF Answers

LEMMA ServeAnswers ==
    ASSUME NEW s, Form(s), NEW m, NEW st, NEW other, NEW p, Answers(s, m, st),
           SameBut(st, other, p), p \in DOMAIN other
    PROVE  Answers(Serve(s, p, other[p].addr), m, other)
<1>1. Serves(other, With(s.peers, p, other[p].addr))
  BY DEF Answers, Serves, SameBut, With
<1> QED BY <1>1, ServeForm DEF Answers

\* A render serves what it was rendered from.
LEMMA ActiveServes == ASSUME NEW st PROVE Serves(st, Active(st))
BY DEF Serves, Active

LEMMA SpecOffers ==
    ASSUME NEW m, NEW st, m.enabled => m.key # 0, m.enabled \in BOOLEAN
    PROVE  Offers(ServerSpec(m, st), m, st)
BY ActiveServes DEF Offers, Answers, ServerSpec

\* The same records, of which some expired.
Ages(st, other) ==
    /\ DOMAIN other = DOMAIN st
    /\ \A q \in DOMAIN st : /\ other[q].addr = st[q].addr
                            /\ other[q].exp # "past" => st[q].exp # "past"

\* What serves a store serves it when records have expired meanwhile.
LEMMA AgedAnswers ==
    ASSUME NEW s, NEW m, NEW st, NEW other, Answers(s, m, st), Ages(st, other)
    PROVE  Answers(s, m, other)
BY DEF Answers, Serves, Ages

LEMMA AgedStores ==
    ASSUME NEW st, NEW other, NEW p, NEW r, Ages(st, other)
    PROVE  Ages(With(st, p, r), With(other, p, r)) /\ Ages(Without(st, p), Without(other, p))
<1>1. Ages(With(st, p, r), With(other, p, r))
  BY DEF Ages, With
<1>2. Ages(Without(st, p), Without(other, p))
  BY DEF Ages, Without, Restrict
<1> QED BY <1>1, <1>2

-----------------------------------------------------------------------------
(* The singbox backend serves.                                               *)

Serving == /\ ~Kernel /\ ~adrift => SingboxServes
           /\ Kernel /\ ~adrift => KernelServes

LEMMA SingboxSame ==
    ASSUME Serving, UNCHANGED <<store, mem, setting, backend, endpoint, loaded, conf, iface, op,
                                disable, up>>, adrift' \/ adrift' = adrift
    PROVE  Serving'
<1>1. ~Kernel /\ ~adrift' => ~Kernel' /\ SingboxServes'
  BY DEF Serving, SingboxServes, FormerMem, FormerStore, Before, Offers, Answers, Serves, Kernel
<1>2. Kernel /\ ~adrift' => Kernel' /\ KernelServes'
  BY DEF Serving, KernelServes, Bound, Live, Answers, Serves, IfaceHas, ConfHas, Before, Kernel
<1> QED BY <1>1, <1>2 DEF Serving, Kernel

\* The first write of an operation.
LEMMA SingboxBegins ==
    ASSUME AddrInv, Forms, Shape(store), Roles, Serving, ~Kernel,
           NEW kind, NEW p \in Peers \cup {NoPeer}, NEW old, Begin(kind, p, old, NoPeer, "render"),
           UNCHANGED <<setting, backend, endpoint, loaded, disable>>,
           p = NoPeer => store' = store, p # NoPeer => Before' = store,
           kind = "enable" => mem'.enabled, kind # "enable" => mem' = mem
    PROVE  Serving'
<1>1. op = Idle /\ op'.kind = kind /\ op'.pub = p /\ op'.at = "render" /\ op'.prev = mem
      /\ adrift' = (adrift \/ disable # "idle")
  BY DEF Begin, Idle
<1>2. ~Kernel'
  BY DEF Kernel
<1>3. ASSUME ~adrift' PROVE SingboxServes'
  <2>1. SingboxServes /\ disable = "idle"
    BY <1>1, <1>3 DEF Serving
  <2>2. FormerMem = mem /\ FormerStore = store
    BY <1>1 DEF FormerMem, FormerStore, Idle
  <2>3. FormerMem' = mem
    BY <1>1 DEF FormerMem
  <2>4. FormerStore' = store
    BY <1>1 DEF FormerStore
  <2>5. op.at # "reload"
    BY <1>1 DEF Idle
  <2> QED BY <1>1, <2>1, <2>2, <2>3, <2>4, <2>5 DEF SingboxServes
<1> QED BY <1>2, <1>3 DEF Serving

LEMMA ServingSingbox ==
    ASSUME AddrInv, Forms, Shape(store), Roles, Serving,
           \/ \E p \in Peers : \/ AddPeerSingbox(p) \/ RemovePeerSingbox(p)
                               \/ \E exp \in {"never", "timed"} : RenewPeerSingbox(p, exp)
           \/ SweepSingbox \/ EnableSingbox \/ Render \/ Sync \/ ReloadEndpoint
           \/ DisableSingbox \/ DisableSync \/ DisableReload
    PROVE  Serving'
<1>0. /\ mem.enabled \in BOOLEAN /\ op.prev.enabled \in BOOLEAN /\ setting.enabled \in BOOLEAN
      /\ op # Idle <=> op.at \in SingboxAt \cup KernelAt
      /\ op.at = "none" <=> op = Idle
      /\ op = Idle => op.kind = "none" /\ op.pub = NoPeer
  BY RoleFacts
<1>1. StoreOK(store) /\ NoPeer \notin Peers
  BY AwgAssumption DEF AddrInv
<1>2. ASSUME NEW p \in Peers, AddPeerSingbox(p) PROVE Serving'
  <2>1. PICK adr \in NextFree(Reserved) : store' = With(store, p, NewPeer(adr))
    BY <1>2 DEF AddPeerSingbox, SavePeers
  <2>2. op'.old = NoPeer /\ op'.pub = p /\ p \notin DOMAIN store
    BY <1>2 DEF AddPeerSingbox, Begin, Idle, Known
  <2>3. Before' = store
    BY <1>1, <2>1, <2>2, Undone DEF Before
  <2> QED BY <1>1, <1>2, <2>3, SingboxBegins DEF AddPeerSingbox, Singbox, Kernel, sbVars
<1>3. ASSUME NEW p \in Peers, RemovePeerSingbox(p) PROVE Serving'
  <2>1. store' = Without(store, p) /\ p \in DOMAIN store /\ store[p] # NoPeer
    BY <1>1, <1>3, AwgAssumption DEF RemovePeerSingbox, SavePeers, StoreOK
  <2>2. op'.old = store[p] /\ op'.pub = p
    BY <1>3 DEF RemovePeerSingbox, Begin, Idle
  <2>3. Before' = store
    BY <1>1, <2>1, <2>2, Undone DEF Before
  <2> QED BY <1>1, <1>3, <2>3, SingboxBegins DEF RemovePeerSingbox, Singbox, Kernel, sbVars
<1>4. ASSUME NEW p \in Peers, NEW exp \in {"never", "timed"}, RenewPeerSingbox(p, exp) PROVE Serving'
  <2>1. p \in DOMAIN store /\ store[p] # NoPeer /\ exp \in Expiry
    BY <1>1, <1>4, AwgAssumption DEF RenewPeerSingbox, StoreOK, Expiry
  <2>2. store' = With(store, p, [store[p] EXCEPT !.exp = exp])
    BY <1>1, <1>4, <2>1, RenewedOK DEF RenewPeerSingbox, SavePeers
  <2>3. op'.old = store[p] /\ op'.pub = p
    BY <1>4 DEF RenewPeerSingbox, Begin, Idle
  <2>4. Before' = store
    BY <1>1, <2>1, <2>2, <2>3, Undone DEF Before
  <2> QED BY <1>1, <1>4, <2>4, SingboxBegins DEF RenewPeerSingbox, Singbox, Kernel, sbVars
<1>5. CASE SweepSingbox
  BY <1>1, <1>5, SingboxBegins DEF SweepSingbox, Kernel, sbVars
<1>6. CASE EnableSingbox
  <2>1. CASE Begin("enable", NoPeer, NoPeer, NoPeer, "render")
             /\ mem' = [enabled |-> TRUE, port |-> setting.port, key |-> ServerKey]
    BY <1>1, <1>6, <2>1, SingboxBegins DEF EnableSingbox, Singbox, Kernel
  <2>2. CASE UNCHANGED <<savedKey, mem, op, adrift>>
    BY <1>6, <2>2, SingboxSame DEF EnableSingbox
  <2> QED BY <1>6, <2>1, <2>2 DEF EnableSingbox
\* What an operation under way may rely on.
<1>7. ASSUME op.at \in SingboxAt, ~adrift
      PROVE  /\ ~Kernel /\ SingboxServes /\ disable = "idle"
             /\ mem.enabled => mem.key # 0
             /\ op.kind # "enable" => FormerMem = mem
             /\ op.kind = "enable" => FormerMem = op.prev /\ mem.enabled /\ op.pub = NoPeer
             /\ op.pub # NoPeer => FormerStore = Before /\ op.kind # "enable"
             /\ op.pub = NoPeer => FormerStore = store
  <2>1. ~Kernel /\ SingboxServes /\ op # Idle
    BY <1>0, <1>7 DEF Roles, Serving
  <2>2. op.kind = "enable" <=> op.pub = NoPeer /\ op.kind # "sweep"
    BY <1>1, <1>7, <2>1 DEF Shape, KernelAt, SingboxAt, Admitted
  <2> QED BY <1>7, <2>1, <2>2 DEF Roles, SingboxServes, FormerMem, FormerStore
<1>8. CASE Render
  <2>1. /\ op.at = "render" /\ op'.at = "sync" /\ op'.kind = op.kind /\ op'.prev = op.prev
        /\ op'.pub = op.pub /\ op'.old = op.old /\ op'.spec = ServerSpec(mem, store)
        /\ UNCHANGED <<store, mem, endpoint, loaded, disable, adrift, setting, backend>>
    BY <1>8 DEF Render, sbVars, AddrInv, OpOK
  <2>2. ASSUME ~adrift PROVE ~Kernel' /\ SingboxServes'
    <3>1. ~Kernel /\ SingboxServes /\ (mem.enabled => mem.key # 0)
      BY <1>7, <2>1, <2>2 DEF SingboxAt
    <3>2. FormerMem' = FormerMem /\ FormerStore' = FormerStore
      BY <2>1 DEF FormerMem, FormerStore, Before
    <3>3. Offers(ServerSpec(mem, store), mem, store)
      BY <1>0, <3>1, SpecOffers
    <3> QED BY <2>1, <3>1, <3>2, <3>3 DEF SingboxServes, Kernel
  <2> QED BY <2>1, <2>2 DEF Serving
\* An operation that ends has what was loaded, or loads, serve.
<1>9. ASSUME ~adrift', op' = Idle, ~Kernel', Offers(loaded', mem', store'),
             mem'.enabled = setting'.enabled, endpoint' = Nothing => loaded' = Nothing, disable' = "idle"
      PROVE  Serving'
  <2>1. FormerMem' = mem' /\ FormerStore' = store' /\ op'.at # "sync" /\ op'.at # "reload" /\ op'.kind # "enable"
    BY <1>9 DEF FormerMem, FormerStore, Idle
  <2> QED BY <1>9, <2>1 DEF Serving, SingboxServes
<1>10. ASSUME NEW lost \in BOOLEAN, RollBack(lost), op.at \in {"sync", "reload"}, lost = (op.at = "reload"),
              UNCHANGED <<endpoint, loaded, setting, disable, backend>>
       PROVE  Serving'
  <2>1. adrift => adrift'
    BY <1>10 DEF RollBack
  <2>2. SUFFICES ASSUME ~adrift' PROVE Serving'
    BY DEF Serving
  <2>3. /\ ~Kernel /\ ~Kernel' /\ SingboxServes /\ disable' = "idle"
    BY <1>7, <1>10, <2>1, <2>2 DEF SingboxAt, Kernel
  <2>4. Offers(loaded', mem', store') /\ mem'.enabled = setting'.enabled
    <3>1. CASE op.pub # NoPeer /\ SavePeers(Before) /\ UNCHANGED mem
      BY <1>7, <1>10, <2>1, <2>2, <3>1 DEF SingboxServes, SavePeers, SingboxAt
    <3>2. CASE op.kind = "enable" /\ mem' = op.prev /\ UNCHANGED store
      BY <1>7, <1>10, <2>1, <2>2, <3>2 DEF SingboxServes, SingboxAt
    <3>3. CASE op.kind = "sweep" /\ UNCHANGED <<store, mem>> /\ op.pub = NoPeer
      BY <1>7, <1>10, <2>1, <2>2, <3>3 DEF SingboxServes, SingboxAt
    <3>4. op.kind = "sweep" => op.pub = NoPeer
      BY <1>0, <1>10 DEF Shape, SingboxAt, KernelAt, Admitted
    <3> QED BY <1>10, <2>2, <3>1, <3>2, <3>3, <3>4 DEF RollBack, Restored
  <2>5. endpoint' = Nothing => loaded' = Nothing
    <3>1. CASE op.at = "sync"
      BY <1>7, <1>10, <2>1, <2>2, <3>1 DEF SingboxServes, SingboxAt
    <3>2. CASE op.at = "reload" /\ endpoint = Nothing
      <4>1. Offers(endpoint, mem, store) /\ Offers(loaded, FormerMem, FormerStore) /\ (mem.enabled => mem.key # 0)
        BY <1>7, <2>1, <2>2, <3>2 DEF SingboxServes, SingboxAt
      <4>2. ~mem.enabled
        BY <3>2, <4>1, NothingForm DEF Offers, Answers
      <4>3. FormerMem = mem
        BY <1>7, <2>1, <2>2, <3>2, <4>2 DEF SingboxAt
      <4> QED BY <1>10, <4>1, <4>2, <4>3 DEF Offers
    <3> QED BY <1>10, <3>1, <3>2
  <2> QED BY <1>9, <1>10, <2>2, <2>3, <2>4, <2>5 DEF RollBack, End
\* The settings follow an Enable.
<1>11. ASSUME Complete, op.at \in SingboxAt, ~adrift PROVE mem'.enabled = setting'.enabled /\ op' = Idle
  <2>1. setting'.enabled = (setting.enabled \/ op.kind = "enable")
    BY <1>11 DEF Complete, Forms, Settings
  <2>2. CASE op.kind = "enable"
    BY <1>0, <1>7, <1>11, <2>1, <2>2 DEF Complete, End
  <2>3. CASE op.kind # "enable"
    <3>1. mem.enabled = setting.enabled
      BY <1>7, <1>11, <2>3 DEF SingboxServes
    <3> QED BY <1>0, <1>11, <2>1, <2>3, <3>1 DEF Complete, End
  <2> QED BY <2>2, <2>3
<1>12. CASE Sync
  <2>0. op.at = "sync" /\ UNCHANGED <<loaded, disable, backend>>
    BY <1>12 DEF Sync
  <2>1. CASE RollBack(FALSE) /\ UNCHANGED <<endpoint, setting>>
    BY <1>10, <2>0, <2>1
  <2>2. CASE Complete /\ adrift' = (adrift \/ op.spec # endpoint \/ loaded # endpoint) /\ UNCHANGED endpoint
    <3>1. SUFFICES ASSUME ~adrift' PROVE Serving'
      BY DEF Serving
    <3>2. ~adrift /\ op.spec = endpoint /\ loaded = endpoint
      BY <2>2, <3>1
    <3>3. ~Kernel' /\ SingboxServes /\ disable' = "idle"
      BY <1>7, <2>0, <3>2 DEF SingboxAt, Kernel
    <3>4. Offers(loaded', mem', store')
      BY <2>0, <2>2, <3>2, <3>3 DEF SingboxServes, Complete
    <3>5. mem'.enabled = setting'.enabled /\ op' = Idle
      BY <1>11, <2>0, <2>2, <3>2 DEF SingboxAt
    <3> QED BY <1>9, <2>0, <2>2, <3>1, <3>2, <3>3, <3>4, <3>5
  <2>3. CASE /\ ~draft /\ op.spec # endpoint /\ endpoint' = op.spec /\ Goto("reload")
             /\ UNCHANGED <<store, savedKey, mem, setting, adrift, faults>>
    <3>1. SUFFICES ASSUME ~adrift' PROVE Serving'
      BY DEF Serving
    <3>2. /\ op'.at = "reload" /\ op'.kind = op.kind /\ op'.prev = op.prev
          /\ op'.pub = op.pub /\ op'.old = op.old
      BY <2>3 DEF Goto, AddrInv, OpOK
    <3>3. ~adrift /\ ~Kernel /\ ~Kernel' /\ SingboxServes /\ disable' = "idle"
      BY <1>7, <2>0, <2>3, <3>1 DEF SingboxAt, Kernel
    <3>4. FormerMem' = FormerMem /\ FormerStore' = FormerStore
      BY <2>3, <3>2 DEF FormerMem, FormerStore, Before
    <3> QED BY <2>0, <2>3, <3>2, <3>3, <3>4 DEF SingboxServes, Serving
  <2> QED BY <1>12, <2>1, <2>2, <2>3 DEF Sync
<1>13. CASE ReloadEndpoint
  <2>0. op.at = "reload" /\ UNCHANGED <<endpoint, disable, backend>>
    BY <1>13 DEF ReloadEndpoint
  <2>1. CASE RollBack(TRUE) /\ UNCHANGED <<loaded, setting>>
    BY <1>10, <2>0, <2>1
  <2> DEFINE settled == /\ op.kind = "sweep" /\ disable = "idle" /\ setting.enabled = mem.enabled
                        /\ endpoint = ServerSpec(mem, store)
  <2>2. CASE Complete /\ loaded' = endpoint /\ adrift' = (adrift /\ ~settled)
    <3>1. SUFFICES ASSUME ~adrift' PROVE Serving'
      BY DEF Serving
    <3>2. CASE ~adrift
      <4>1. ~Kernel' /\ SingboxServes /\ disable' = "idle"
        BY <1>7, <2>0, <3>2 DEF SingboxAt, Kernel
      <4>2. Offers(loaded', mem', store')
        BY <2>0, <2>2, <4>1 DEF SingboxServes, Complete
      <4>3. mem'.enabled = setting'.enabled /\ op' = Idle
        BY <1>11, <2>0, <2>2, <3>2 DEF SingboxAt
      <4> QED BY <1>9, <2>0, <2>2, <3>1, <4>1, <4>2, <4>3
    <3>3. CASE adrift
      <4>1. settled
        BY <2>2, <3>1, <3>3
      <4>2. setting' = setting
        <5>1. op.kind # "enable"
          BY <4>1
        <5>2. setting'.enabled = setting.enabled /\ setting' = [setting EXCEPT !.enabled = @ \/ FALSE]
          BY <1>0, <2>2, <5>1 DEF Complete, Forms, Settings
        <5> QED BY <1>0, <5>2 DEF Forms, Settings
      <4>3. mem' = mem /\ store' = store /\ op' = Idle /\ disable' = "idle"
        BY <2>0, <2>2, <4>1 DEF Complete, End
      <4>4. CASE ~Kernel
        <5>1. mem.enabled => mem.key # 0
          BY <4>4 DEF Roles
        <5>2. Offers(loaded', mem', store')
          BY <1>0, <2>2, <4>1, <4>3, <5>1, SpecOffers
        <5>3. ~Kernel' /\ mem'.enabled = setting'.enabled
          BY <2>0, <4>1, <4>2, <4>3, <4>4 DEF Kernel
        <5> QED BY <1>9, <2>0, <2>2, <3>1, <4>3, <5>2, <5>3
      <4>5. CASE Kernel
        <5>1. ~mem.enabled /\ iface = Nothing /\ up = "idle"
          BY <2>0, <4>5 DEF Roles, SingboxAt
        <5>2. endpoint = Nothing /\ ~setting.enabled
          BY <4>1, <5>1 DEF ServerSpec
        <5>3. UNCHANGED <<iface, up>>
          BY <1>13 DEF ReloadEndpoint
        <5>4. ~Bound' /\ ~setting'.enabled /\ up' = "idle"
          BY <4>2, <4>3, <5>1, <5>2, <5>3 DEF Bound, Live, Idle, KernelAt, Admitted
        <5>5. KernelServes'
          BY <2>0, <2>2, <5>2, <5>4 DEF KernelServes
        <5>6. Kernel'
          BY <2>0, <4>5 DEF Kernel
        <5> QED BY <5>5, <5>6 DEF Serving
      <4> QED BY <4>4, <4>5
    <3> QED BY <3>2, <3>3
  <2> QED BY <1>13, <2>1, <2>2 DEF ReloadEndpoint
<1>14. ASSUME disable # "idle", ~adrift PROVE ~Kernel /\ op = Idle /\ SingboxServes /\ FormerMem = mem /\ FormerStore = store
  BY <1>0, <1>14 DEF Roles, Serving, FormerMem, FormerStore
<1>15. CASE DisableSingbox
  <2>1. /\ adrift' = (adrift \/ op # Idle) /\ disable = "idle" /\ disable' = "checked" /\ backend = "singbox"
        /\ UNCHANGED <<store, mem, setting, backend, endpoint, loaded, op>>
    BY <1>15 DEF DisableSingbox, Singbox
  <2>2. ASSUME ~adrift' PROVE ~Kernel' /\ SingboxServes'
    <3>1. ~Kernel /\ SingboxServes
      BY <2>1, <2>2 DEF Serving, Kernel
    <3>2. FormerMem' = FormerMem /\ FormerStore' = FormerStore
      BY <2>1 DEF FormerMem, FormerStore, Before
    <3> QED BY <2>1, <3>1, <3>2 DEF SingboxServes, Kernel
  <2> QED BY <2>2 DEF Serving
<1>16. ASSUME MarkDisabled PROVE ~mem'.enabled
  BY <1>16 DEF MarkDisabled, Forms, Managers
<1>17. ASSUME setting' = [setting EXCEPT !.enabled = FALSE] PROVE setting'.enabled = FALSE
  BY <1>17 DEF Forms, Settings
<1>18. CASE DisableSync
  <2>0. disable = "checked" /\ UNCHANGED <<store, backend, loaded, op>>
    BY <1>18 DEF DisableSync
  <2>1. SUFFICES ASSUME ~adrift' PROVE Serving'
    BY DEF Serving
  <2>2. ~adrift
    BY <1>18, <2>1 DEF DisableSync
  <2>3. ~Kernel /\ ~Kernel' /\ op' = Idle /\ op = Idle /\ SingboxServes /\ FormerMem = mem /\ FormerStore = store
    BY <1>14, <2>0, <2>2 DEF Kernel
  <2>4. CASE disable' = "idle" /\ UNCHANGED <<mem, setting, endpoint, adrift>>
    <3>1. Offers(loaded', mem', store') /\ mem'.enabled = setting'.enabled /\ (endpoint' = Nothing => loaded' = Nothing)
      BY <1>0, <2>0, <2>3, <2>4 DEF SingboxServes, SingboxAt
    <3> QED BY <1>9, <2>1, <2>3, <2>4, <3>1
  <2>5. CASE /\ disable' = "idle" /\ MarkDisabled /\ setting' = [setting EXCEPT !.enabled = FALSE]
             /\ adrift' = (adrift \/ endpoint # Nothing) /\ UNCHANGED endpoint
    <3>1. endpoint = Nothing /\ op.at # "reload"
      BY <1>0, <2>1, <2>3, <2>5 DEF SingboxAt
    <3>2. loaded' = Nothing
      BY <2>0, <2>3, <3>1 DEF SingboxServes
    <3>3. mem'.enabled \in BOOLEAN
      BY <2>5 DEF MarkDisabled, Forms, Managers
    <3>4. ~mem'.enabled /\ mem'.enabled = setting'.enabled
      BY <1>16, <1>17, <2>5, <3>3
    <3>5. Offers(loaded', mem', store')
      BY <3>2, <3>4 DEF Offers
    <3> QED BY <1>9, <2>1, <2>3, <2>5, <3>2, <3>4, <3>5
  <2>6. CASE endpoint' = Nothing /\ disable' = "reload" /\ UNCHANGED <<mem, setting, adrift, faults>>
    <3>1. FormerMem' = FormerMem /\ FormerStore' = FormerStore /\ op'.at # "sync" /\ op'.at # "reload" /\ op'.kind # "enable"
      BY <2>0, <2>3, <2>6 DEF FormerMem, FormerStore, Before, Idle
    <3> QED BY <2>0, <2>3, <2>6, <3>1 DEF SingboxServes, Serving
  <2> QED BY <1>18, <2>4, <2>5, <2>6 DEF DisableSync
<1>19. CASE DisableReload
  <2>0. disable = "reload" /\ disable' = "idle" /\ MarkDisabled /\ UNCHANGED <<store, backend, endpoint, op>>
    BY <1>19 DEF DisableReload
  <2>1. SUFFICES ASSUME ~adrift' PROVE Serving'
    BY DEF Serving
  <2>2. ~adrift /\ loaded' = endpoint /\ setting' = [setting EXCEPT !.enabled = FALSE]
    BY <1>19, <2>1 DEF DisableReload
  <2>3. ~Kernel' /\ op' = Idle /\ SingboxServes
    BY <1>14, <2>0, <2>2 DEF Kernel
  <2>4. loaded' = Nothing
    BY <2>0, <2>2, <2>3 DEF SingboxServes
  <2>5. mem'.enabled \in BOOLEAN
    BY <2>0 DEF MarkDisabled, Forms, Managers
  <2>6. ~mem'.enabled /\ mem'.enabled = setting'.enabled
    BY <1>16, <1>17, <2>0, <2>2, <2>5
  <2>7. Offers(loaded', mem', store')
    BY <2>4, <2>6 DEF Offers
  <2> QED BY <1>9, <2>0, <2>1, <2>3, <2>4, <2>6, <2>7
<1> QED BY <1>2, <1>3, <1>4, <1>5, <1>6, <1>8, <1>12, <1>13, <1>15, <1>18, <1>19

-----------------------------------------------------------------------------
(* The kernel backend serves.                                                *)

LEMMA BeforeSame == ASSUME NEW r PROVE SameBut(Before, With(store, op.pub, r), op.pub)
                                       /\ SameBut(Before, Without(store, op.pub), op.pub)
BY DEF Before, SameBut, With, Without, Restrict

LEMMA SameTurned == ASSUME NEW st, NEW other, NEW p, SameBut(st, other, p) PROVE SameBut(other, st, p)
BY DEF SameBut

LEMMA ServingRequest ==
    ASSUME AddrInv, Forms, Shape(store), Roles, Serving,
           \E p \in Peers : \/ AddPeerKernel(p) \/ RemovePeerKernel(p)
                            \/ \E exp \in {"never", "timed"} : RenewPeerKernel(p, exp)
    PROVE  Serving'
<1>1. StoreOK(store) /\ NoPeer \notin Peers /\ Form(iface) /\ Form(conf)
  BY AwgAssumption DEF AddrInv, Forms
<1>2. ASSUME NEW kind, NEW p, NEW old, NEW new, NEW at, Begin(kind, p, old, new, at), Kernel, ~adrift'
      PROVE  /\ op'.kind = kind /\ op'.pub = p /\ op'.old = old /\ op'.new = new /\ op'.at = at
             /\ op = Idle /\ op.at \notin KernelAt
             /\ endpoint = Nothing /\ loaded = Nothing
             /\ (Live \/ up = "sweep") /\ up # "up" => Answers(iface, mem, store)
             /\ Live \/ up = "sweep" \/ setting.enabled \/ up # "idle" => Answers(conf, mem, store)
  <2>1. /\ op'.kind = kind /\ op'.pub = p /\ op'.old = old /\ op'.new = new /\ op'.at = at
        /\ op = Idle /\ op.at \notin KernelAt /\ ~adrift
    BY <1>2 DEF Begin, Idle, KernelAt, Admitted
  <2> QED BY <1>2, <2>1 DEF Serving, KernelServes, Bound, IfaceHas, ConfHas
<1>3. ASSUME NEW p \in Peers, AddPeerKernel(p) PROVE Serving'
  <2>1. PICK adr \in NextFree(Taken) : /\ Begin("add", p, NoPeer, NewPeer(adr), "strip")
                                       /\ iface' = Serve(iface, p, adr)
    BY <1>3 DEF AddPeerKernel
  <2>2. /\ Kernel /\ Kernel' /\ Live /\ p \notin DOMAIN store
        /\ UNCHANGED <<store, mem, setting, conf, up, endpoint, loaded>>
    BY <1>3 DEF AddPeerKernel, Known, krVars, Kernel
  <2>3. SUFFICES ASSUME ~adrift' PROVE KernelServes'
    BY <2>2 DEF Serving
  <2>4. /\ op'.pub = p /\ op'.old = NoPeer /\ op'.new = NewPeer(adr) /\ op'.at = "strip" /\ op' # Idle
        /\ endpoint = Nothing /\ loaded = Nothing
        /\ up # "up" => Answers(iface, mem, store)
        /\ Answers(conf, mem, store)
    BY <1>2, <2>1, <2>2, <2>3 DEF Idle
  <2>5. IfaceHas' = With(store, p, NewPeer(adr)) /\ ConfHas' = store
    <3>1. Without(store, p) = store
      BY <1>1, <2>2, Undone
    <3> QED BY <2>2, <2>4, <3>1 DEF IfaceHas, ConfHas, Before, Admitted
  <2>6. up # "up" => Answers(iface', mem, With(store, p, NewPeer(adr)))
    <3> DEFINE new == NewPeer(adr)
    <3>1. /\ SameBut(store, With(store, p, new), p) /\ p \in DOMAIN With(store, p, new)
          /\ With(store, p, new)[p].addr = adr
      BY WithSame DEF NewPeer
    <3> QED BY <1>1, <2>1, <2>4, <3>1, ServeAnswers
  <2> QED BY <2>2, <2>4, <2>5, <2>6 DEF KernelServes
<1>4. ASSUME NEW p \in Peers, RemovePeerKernel(p) PROVE Serving'
  <2> DEFINE old == IF p \in DOMAIN store THEN store[p] ELSE NoPeer
  <2>1. /\ Begin("remove", p, old, NoPeer, "unconf") /\ iface' = Drop(iface, p)
        /\ Kernel /\ Kernel' /\ Live
        /\ UNCHANGED <<store, mem, setting, conf, up, endpoint, loaded>>
    BY <1>4 DEF RemovePeerKernel, krVars, Kernel
  <2>2. SUFFICES ASSUME ~adrift' PROVE KernelServes'
    BY <2>1 DEF Serving
  <2>3. /\ op'.pub = p /\ op'.old = old /\ op'.at = "unconf" /\ op' # Idle
        /\ endpoint = Nothing /\ loaded = Nothing
        /\ up # "up" => Answers(iface, mem, store)
        /\ Answers(conf, mem, store)
    BY <1>2, <2>1, <2>2 DEF Idle
  <2>4. (IF old = NoPeer THEN Without(store, p) ELSE With(store, p, old)) = store
    <3>1. p \in DOMAIN store => store[p] # NoPeer
      BY <1>1, AwgAssumption DEF StoreOK
    <3> QED BY <1>1, <3>1, Undone
  <2>5. IfaceHas' = Without(store, p) /\ ConfHas' = store
    BY <2>1, <2>3, <2>4 DEF IfaceHas, ConfHas, Before, Admitted
  <2>6. up # "up" => Answers(iface', mem, Without(store, p))
    BY <1>1, <2>1, <2>3, WithSame, DropAnswers
  <2> QED BY <2>1, <2>3, <2>5, <2>6 DEF KernelServes
<1>5. ASSUME NEW p \in Peers, NEW exp \in {"never", "timed"}, RenewPeerKernel(p, exp) PROVE Serving'
  <2> DEFINE new == [store[p] EXCEPT !.exp = exp]
  <2>1. /\ Begin("renew", p, store[p], new, "set") /\ store' = With(store, p, new) /\ p \in DOMAIN store
        /\ Kernel /\ Kernel' /\ UNCHANGED <<mem, setting, conf, iface, up, endpoint, loaded>>
    BY <1>5 DEF RenewPeerKernel, SavePeers, krVars, Kernel
  <2>2. SUFFICES ASSUME ~adrift' PROVE KernelServes'
    BY <2>1 DEF Serving
  <2>3. /\ op'.pub = p /\ op'.old = store[p] /\ op'.at = "set" /\ op' # Idle
        /\ endpoint = Nothing /\ loaded = Nothing
        /\ (Live \/ up = "sweep") /\ up # "up" => Answers(iface, mem, store)
        /\ Live \/ up = "sweep" \/ setting.enabled \/ up # "idle" => Answers(conf, mem, store)
    BY <1>2, <2>1, <2>2 DEF Idle
  <2>4. store[p] # NoPeer
    BY <1>1, <2>1, AwgAssumption DEF StoreOK
  <2>5. With(store', p, store[p]) = store
    BY <1>1, <2>1, Undone
  <2>6. IfaceHas' = store /\ ConfHas' = store
    BY <2>3, <2>4, <2>5 DEF IfaceHas, ConfHas, Before
  <2>7. Bound' => Live \/ up = "sweep"
    BY <2>1, <2>3 DEF Bound, Live
  <2> QED BY <2>1, <2>3, <2>6, <2>7 DEF KernelServes
<1> QED BY <1>3, <1>4, <1>5

LEMMA ServingStep ==
    ASSUME AddrInv, Forms, Shape(store), Roles, Serving,
           SetLive \/ Strip \/ Append \/ PutPeer \/ Unconf \/ Delete
    PROVE  Serving'
<1>1. StoreOK(store) /\ NoPeer \notin Peer /\ Form(iface) /\ Form(conf)
  BY AwgAssumption DEF AddrInv, Forms
<1>2. op.at \in KernelAt /\ op # Idle
  <2>1. op.at \in KernelAt
    BY DEF SetLive, Strip, Append, PutPeer, Unconf, Delete, KernelAt, Admitted
  <2> QED BY <2>1 DEF Idle, KernelAt, Admitted
<1>3. /\ op.pub \in Peers /\ PeerKnown(store)
      /\ op.at \in {"strip", "append"} => op.kind \in {"add", "renew"}
      /\ op.at = "put" => op.kind = "add"
      /\ op.at = "set" => op.kind = "renew"
      /\ op.at \in {"unconf", "delete"} => op.kind = "remove"
  BY <1>2 DEF Shape, SingboxAt, KernelAt, Admitted
<1>4. UNCHANGED <<mem, setting, backend, up, endpoint, loaded>> /\ (adrift => adrift')
  <2>1. UNCHANGED <<mem, setting, backend, up, endpoint, loaded>>
    BY DEF SetLive, Strip, Append, PutPeer, Unconf, Delete, krVars
  <2>2. adrift => adrift'
    BY Zenon DEF SetLive, Strip, Append, PutPeer, Unconf, Delete, Unadmit, Suspended
  <2> QED BY <2>1, <2>2
<1>5. SUFFICES ASSUME ~adrift' PROVE Kernel' /\ KernelServes'
  BY DEF Serving
\* What an operation under way may rely on.
<1>6. /\ Kernel /\ Kernel' /\ endpoint = Nothing /\ loaded = Nothing
      /\ Bound /\ up # "up" => Answers(iface, mem, IfaceHas)
      /\ Bound \/ setting.enabled \/ up # "idle" => Answers(conf, mem, ConfHas)
      /\ op.at # "set" => Bound
  BY <1>2, <1>4, <1>5 DEF Serving, Roles, KernelServes, Bound, Kernel
\* The store apart from the peer of the operation.
<1>7. /\ op.kind = "add" => Before = store /\ Without(store, op.pub) = store /\ op.pub \notin DOMAIN store
      /\ op.kind = "remove" /\ op.old = NoPeer => Without(store, op.pub) = store
  BY <1>1, <1>3, Undone DEF PeerKnown, Before
<1>8. With(store, op.pub, op.new)[op.pub] = op.new /\ op.pub \in DOMAIN With(store, op.pub, op.new)
      /\ op.pub \notin DOMAIN Without(store, op.pub)
  BY WithSame
<1>9. /\ SameBut(store, Without(store, op.pub), op.pub)
      /\ SameBut(Without(store, op.pub), store, op.pub)
      /\ SameBut(Without(store, op.pub), With(store, op.pub, op.new), op.pub)
      /\ SameBut(With(store, op.pub, op.new), store, op.pub)
      /\ SameBut(Before, With(store, op.pub, op.new), op.pub)
      /\ SameBut(Before, Without(store, op.pub), op.pub)
  BY WithSame, SameTrans, SameTurned, BeforeSame
\* A step that ends the operation.
<1>10. ASSUME op' = Idle, Bound /\ up # "up" => Answers(iface', mem, store'),
              Bound \/ setting.enabled \/ up # "idle" => Answers(conf', mem, store'),
              Bound' => Bound
       PROVE  Kernel' /\ KernelServes'
  BY <1>4, <1>6, <1>10 DEF KernelServes, IfaceHas, ConfHas
<1>11. ASSUME op' = Idle, op.at # "set" \/ iface' = iface PROVE Bound' => Bound
  BY <1>4, <1>6, <1>11 DEF Bound, Live, Idle, KernelAt, Admitted
\* A step that moves it on.
<1>12. ASSUME NEW at \in KernelAt, at # "set", Goto(at), UNCHANGED store
       PROVE  /\ op'.at = at /\ op'.pub = op.pub /\ op'.old = op.old /\ op'.new = op.new /\ op' # Idle
              /\ Before' = Before
  <2>1. op'.at = at /\ op'.pub = op.pub /\ op'.old = op.old /\ op'.new = op.new
    BY <1>12 DEF Goto, AddrInv, OpOK
  <2> QED BY <1>12, <2>1 DEF Before, Idle, KernelAt, Admitted
<1>13. CASE SetLive
  <2>0. op.at = "set" /\ UNCHANGED conf /\ IfaceHas = Before /\ ConfHas = Before
    BY <1>2, <1>13 DEF SetLive, IfaceHas, ConfHas
  <2>1. CASE Live /\ iface' = Serve(iface, op.pub, op.new.addr) /\ Goto("strip") /\ UNCHANGED store
    <3>1. Bound
      BY <2>1 DEF Bound
    <3>2. "strip" \in KernelAt /\ "strip" \in Admitted
      BY DEF KernelAt, Admitted
    <3>3. IfaceHas' = With(store, op.pub, op.new) /\ ConfHas' = Before
      BY <1>12, <2>1, <3>2 DEF IfaceHas, ConfHas
    <3>4. up # "up" => Answers(iface', mem, With(store, op.pub, op.new))
      BY <1>1, <1>6, <1>8, <1>9, <2>0, <2>1, <3>1, ServeAnswers
    <3> QED BY <1>4, <1>6, <2>0, <3>1, <3>3, <3>4 DEF KernelServes
  <2>2. CASE adrift' = (adrift \/ store' # Before) /\ End /\ UNCHANGED iface
    <3>1. store' = Before /\ op' = Idle
      BY <1>5, <2>2 DEF End
    <3> QED BY <1>6, <1>10, <1>11, <2>0, <2>2, <3>1
  <2> QED BY <1>13, <2>1, <2>2 DEF SetLive
\* Without a failure that nothing compensates only an addition is undone here.
<1>14. ASSUME Unadmit, UNCHANGED conf, op.at \in {"strip", "append"} PROVE Kernel' /\ KernelServes'
  <2>1. op.kind = "add" /\ UNCHANGED store /\ iface' = Drop(iface, op.pub) /\ op' = Idle
    BY <1>3, <1>5, <1>14 DEF Unadmit, RestoreExpiry, End
  <2>2. IfaceHas = With(store, op.pub, op.new) /\ ConfHas = store /\ Bound
    BY <1>2, <1>6, <1>7, <1>14, <2>1 DEF IfaceHas, ConfHas, Admitted
  <2>3. up # "up" => Answers(iface', mem, store)
    BY <1>1, <1>6, <1>7, <1>9, <2>1, <2>2, DropAnswers
  <2> QED BY <1>6, <1>10, <1>14, <2>1, <2>2, <2>3
<1>15. CASE Strip
  <2>1. CASE conf' = Drop(conf, op.pub) /\ Goto("append") /\ UNCHANGED <<store, iface>>
    <3>1. "append" \in KernelAt /\ "append" \in Admitted /\ op.at = "strip" /\ Bound
      BY <1>6, <1>15 DEF KernelAt, Admitted, Strip
    <3>2. /\ IfaceHas = With(store, op.pub, op.new) /\ IfaceHas' = With(store, op.pub, op.new)
          /\ ConfHas = Before /\ ConfHas' = Without(store, op.pub)
      BY <1>2, <1>12, <2>1, <3>1 DEF IfaceHas, ConfHas, Admitted
    <3>3. Answers(conf', mem, Without(store, op.pub))
      BY <1>1, <1>6, <1>8, <1>9, <2>1, <3>1, <3>2, DropAnswers
    <3> QED BY <1>4, <1>6, <2>1, <3>1, <3>2, <3>3 DEF KernelServes
  <2> QED BY <1>14, <1>15, <2>1 DEF Strip
<1>16. CASE Append
  <2>0. /\ op.at = "append" /\ Bound /\ IfaceHas = With(store, op.pub, op.new)
        /\ ConfHas = Without(store, op.pub)
    BY <1>2, <1>6, <1>16 DEF Append, IfaceHas, ConfHas, Admitted
  <2>1. CASE conf' = Serve(conf, op.pub, op.new.addr) /\ op.kind = "renew" /\ End /\ UNCHANGED <<store, iface>>
    <3>1. op.pub \in DOMAIN store /\ op.new.addr = store[op.pub].addr /\ op.new.exp # "past"
      BY <1>3, <2>1 DEF PeerKnown
    <3>2. Answers(conf', mem, store)
      BY <1>1, <1>6, <1>9, <2>0, <2>1, <3>1, ServeAnswers
    <3>3. Ages(With(store, op.pub, op.new), store)
      BY <3>1 DEF With, Ages
    <3>4. up # "up" => Answers(iface', mem, store)
      BY <1>6, <2>0, <2>1, <3>3, AgedAnswers
    <3> QED BY <1>10, <2>0, <2>1, <3>2, <3>4 DEF End
  <2>2. CASE conf' = Serve(conf, op.pub, op.new.addr) /\ op.kind # "renew" /\ Goto("put")
             /\ UNCHANGED <<store, iface>>
    <3>1. "put" \in KernelAt /\ "put" \in Admitted
      BY DEF KernelAt, Admitted
    <3>2. IfaceHas' = With(store, op.pub, op.new) /\ ConfHas' = With(store, op.pub, op.new)
      BY <1>12, <2>2, <3>1 DEF IfaceHas, ConfHas
    <3>3. Answers(conf', mem, With(store, op.pub, op.new))
      BY <1>1, <1>6, <1>8, <1>9, <2>0, <2>2, ServeAnswers
    <3> QED BY <1>4, <1>6, <2>0, <2>2, <3>2, <3>3 DEF KernelServes
  <2>3. CASE Unadmit /\ UNCHANGED conf
    BY <1>14, <2>0, <2>3
  <2> QED BY <1>16, <2>1, <2>2, <2>3 DEF Append
<1>17. CASE PutPeer
  <2>0. /\ op.at = "put" /\ Bound /\ op' = Idle /\ op.kind = "add" /\ IfaceHas = With(store, op.pub, op.new)
        /\ ConfHas = With(store, op.pub, op.new)
    BY <1>2, <1>3, <1>6, <1>17 DEF PutPeer, IfaceHas, ConfHas, Admitted, End
  <2>1. CASE SavePeers(With(store, op.pub, op.new)) /\ UNCHANGED <<iface, conf>>
    BY <1>6, <1>10, <2>0, <2>1 DEF SavePeers
  <2>2. CASE Suspended(op.pub) /\ UNCHANGED store
    <3>1. iface' = Drop(iface, op.pub) /\ conf' = Drop(conf, op.pub)
      BY <1>5, <2>2 DEF Suspended
    <3>2. up # "up" => Answers(iface', mem, store)
      BY <1>1, <1>6, <1>7, <1>9, <2>0, <3>1, DropAnswers
    <3>3. Answers(conf', mem, store)
      BY <1>1, <1>6, <1>7, <1>9, <2>0, <3>1, DropAnswers
    <3> QED BY <1>10, <2>0, <2>2, <3>2, <3>3
  <2> QED BY <1>17, <2>1, <2>2 DEF PutPeer
<1>18. CASE Unconf
  <2>1. /\ conf' = Drop(conf, op.pub) /\ Goto("delete") /\ UNCHANGED <<store, iface>> /\ op.at = "unconf" /\ Bound
    BY <1>5, <1>6, <1>18 DEF Unconf
  <2>2. "delete" \in KernelAt /\ "delete" \notin Admitted
    BY DEF KernelAt, Admitted
  <2>3. /\ IfaceHas = Without(store, op.pub) /\ IfaceHas' = Without(store, op.pub)
        /\ ConfHas = Before /\ ConfHas' = Without(store, op.pub)
    BY <1>2, <1>12, <2>1, <2>2 DEF IfaceHas, ConfHas, Admitted
  <2>4. Answers(conf', mem, Without(store, op.pub))
    BY <1>1, <1>6, <1>8, <1>9, <2>1, <2>3, DropAnswers
  <2> QED BY <1>4, <1>6, <2>1, <2>3, <2>4 DEF KernelServes
<1>19. CASE Delete
  <2>0. /\ op.at = "delete" /\ Bound /\ op' = Idle /\ op.kind = "remove"
        /\ IfaceHas = Without(store, op.pub) /\ ConfHas = Without(store, op.pub)
    BY <1>2, <1>3, <1>6, <1>19 DEF Delete, IfaceHas, ConfHas, Admitted, End
  <2>1. CASE (IF op.old = NoPeer THEN UNCHANGED <<store, savedKey>> ELSE SavePeers(Without(store, op.pub)))
             /\ UNCHANGED <<iface, conf>>
    <3>1. store' = Without(store, op.pub)
      BY <1>7, <2>0, <2>1 DEF SavePeers
    <3> QED BY <1>6, <1>10, <2>0, <2>1, <3>1
  <2>2. ASSUME op.old # NoPeer
        PROVE  op.pub \in DOMAIN store /\ op.old.addr = store[op.pub].addr
    BY <1>3, <2>0, <2>2 DEF PeerKnown
  <2>3. CASE op.old # NoPeer /\ UNCHANGED store /\ store[op.pub].exp = "past" /\ UNCHANGED <<iface, conf>>
    <3>1. ASSUME NEW s, Answers(s, mem, Without(store, op.pub)) PROVE Answers(s, mem, store)
      BY <2>2, <2>3, <3>1 DEF Answers, Serves, Without, Restrict
    <3> QED BY <1>6, <1>10, <2>0, <2>3, <3>1
  <2>4. CASE op.old # NoPeer /\ UNCHANGED store /\ iface' = Serve(iface, op.pub, op.old.addr)
             /\ conf' = Serve(conf, op.pub, op.old.addr)
    <3>1. up # "up" => Answers(iface', mem, store)
      BY <1>1, <1>6, <1>9, <2>0, <2>2, <2>4, ServeAnswers
    <3>2. Answers(conf', mem, store)
      BY <1>1, <1>6, <1>9, <2>0, <2>2, <2>4, ServeAnswers
    <3> QED BY <1>10, <2>0, <2>4, <3>1, <3>2
  <2> QED BY <1>5, <1>19, <2>1, <2>3, <2>4 DEF Delete
<1> QED BY <1>13, <1>15, <1>16, <1>17, <1>18, <1>19

-----------------------------------------------------------------------------
(* The other steps.                                                          *)

\* What a sweep, or a restart of the interface, takes off serves nobody.
LEMMA SweptAnswers ==
    ASSUME NEW s, Form(s), NEW m, NEW st, NEW kept, Answers(s, m, st),
           \A q \in DOMAIN st : st[q].exp # "past" => q \in kept
    PROVE  Answers([s EXCEPT !.peers = Restrict(@, DOMAIN @ \cap kept)], m, st)
<1> DEFINE peers == Restrict(s.peers, DOMAIN s.peers \cap kept)
<1>1. Serves(st, peers)
  BY DEF Answers, Serves, Restrict
<1> HIDE DEF peers
<1>2. LET t == [s EXCEPT !.peers = peers] IN t.port = s.port /\ t.key = s.key /\ t.peers = peers
  BY PeersOnly
<1>3. Answers([s EXCEPT !.peers = peers], m, st)
  BY <1>1, <1>2 DEF Answers
<1> QED BY <1>3 DEF peers

LEMMA ServingKernel ==
    ASSUME AddrInv, Forms, Shape(store), Roles, Serving,
           SweepKernel \/ EnableKernel \/ DisableKernel \/ IfaceUp \/ EnableSweep
    PROVE  Serving'
<1>1. mem.enabled \in BOOLEAN /\ Form(iface) /\ Form(conf) /\ mem \in Managers /\ setting \in Settings
  BY RoleFacts DEF Forms
<1>2. Kernel /\ Kernel' /\ UNCHANGED <<store, op, endpoint, loaded>> /\ (adrift => adrift')
  <2>1. Kernel /\ Kernel' /\ UNCHANGED <<store, op, endpoint, loaded>>
    BY DEF SweepKernel, EnableKernel, DisableKernel, IfaceUp, EnableSweep, krVars, Roles, Kernel
  <2>2. adrift => adrift'
    BY Zenon DEF SweepKernel, EnableKernel, DisableKernel, IfaceUp, EnableSweep
  <2> QED BY <2>1, <2>2
<1>3. SUFFICES ASSUME ~adrift' PROVE KernelServes'
  BY <1>2 DEF Serving
<1>4. /\ endpoint = Nothing /\ loaded = Nothing /\ endpoint' = Nothing /\ loaded' = Nothing
      /\ Bound /\ up # "up" => Answers(iface, mem, IfaceHas)
      /\ Bound \/ setting.enabled \/ up # "idle" => Answers(conf, mem, ConfHas)
  BY <1>2, <1>3 DEF Serving, KernelServes
<1>5. op = Idle /\ IfaceHas = store /\ ConfHas = store /\ IfaceHas' = store /\ ConfHas' = store
      /\ op.at \notin KernelAt
  <2>1. op = Idle
    BY <1>3 DEF SweepKernel, EnableKernel, DisableKernel, IfaceUp, EnableSweep
  <2> QED BY <1>2, <2>1 DEF IfaceHas, ConfHas, Idle, KernelAt, Admitted
\* A manager that changes only whether it is enabled serves as before.
<1>6. ASSUME NEW b \in BOOLEAN, NEW s, Answers(s, mem, store) PROVE Answers(s, [mem EXCEPT !.enabled = b], store)
  BY <1>1, <1>6 DEF Answers, Managers
<1>7. CASE SweepKernel
  <2> DEFINE gone == DOMAIN iface.peers \ DOMAIN Active(store)
  <2>1. PICK left \in SUBSET gone : \E stale \in SUBSET ((gone \cap DOMAIN store) \ left) :
          /\ iface' = [iface EXCEPT !.peers = Restrict(@, (DOMAIN @ \ gone) \cup left)]
          /\ conf' = [conf EXCEPT !.peers = Restrict(@,
                DOMAIN @ \ ((gone \cap DOMAIN store) \ (left \cup stale)))]
    BY <1>7 DEF SweepKernel
  <2>2. PICK stale \in SUBSET ((gone \cap DOMAIN store) \ left) :
          /\ iface' = [iface EXCEPT !.peers = Restrict(@, (DOMAIN @ \ gone) \cup left)]
          /\ conf' = [conf EXCEPT !.peers = Restrict(@,
                DOMAIN @ \ ((gone \cap DOMAIN store) \ (left \cup stale)))]
    BY <2>1
  <2>3. Bound /\ UNCHANGED <<mem, setting, up>>
    BY <1>7 DEF SweepKernel, Bound
  <2> DEFINE keptI == (DOMAIN iface.peers \ gone) \cup left \cup DOMAIN Active(store)
             out   == (gone \cap DOMAIN store) \ (left \cup stale)
             keptC == (DOMAIN conf.peers \ out) \cup DOMAIN Active(store)
  <2>4. \A q \in DOMAIN store : store[q].exp # "past" => q \in keptI /\ q \in keptC
    BY DEF Active
  <2>5. (DOMAIN iface.peers \ gone) \cup left = DOMAIN iface.peers \cap keptI
    OBVIOUS
  <2>6. DOMAIN conf.peers \ out = DOMAIN conf.peers \cap keptC
    OBVIOUS
  <2>7. /\ iface' = [iface EXCEPT !.peers = Restrict(@, DOMAIN @ \cap keptI)]
        /\ conf' = [conf EXCEPT !.peers = Restrict(@, DOMAIN @ \cap keptC)]
    BY <2>2, <2>5, <2>6
  <2> HIDE DEF keptI, keptC, out, gone
  <2>8. up # "up" => Answers(iface', mem, store)
    BY <1>1, <1>4, <1>5, <2>3, <2>4, <2>7, SweptAnswers
  <2>9. Answers(conf', mem, store)
    BY <1>1, <1>4, <1>5, <2>3, <2>4, <2>7, SweptAnswers
  <2> QED BY <1>4, <1>5, <2>3, <2>8, <2>9 DEF KernelServes
<1>8. CASE EnableKernel
  <2>1. up' = "up" /\ conf' = [port |-> mem'.port, key |-> mem'.key, peers |-> Active(store)]
    BY <1>8 DEF EnableKernel
  <2>2. Answers(conf', mem', store)
    BY <2>1, ActiveServes DEF Answers
  <2> QED BY <1>4, <1>5, <2>1, <2>2 DEF KernelServes
<1>9. CASE DisableKernel
  <2>1. iface' = Nothing /\ up' = "idle" /\ setting' = [setting EXCEPT !.enabled = FALSE]
    BY <1>3, <1>9 DEF DisableKernel
  <2>2. ~setting'.enabled
    BY <1>1, <2>1 DEF Settings
  <2>3. ~Bound'
    BY <1>2, <1>5, <2>1 DEF Bound, Live, KernelAt, Admitted
  <2> QED BY <1>4, <2>1, <2>2, <2>3 DEF KernelServes
<1>10. CASE IfaceUp
  <2>1. up = "up" /\ Answers(conf, mem, store) /\ UNCHANGED <<conf, setting>>
    BY <1>4, <1>5, <1>10 DEF IfaceUp
  <2>2. \E b \in BOOLEAN : mem' = [mem EXCEPT !.enabled = b]
    BY <1>10 DEF IfaceUp
  <2>3. Answers(conf', mem', store)
    BY <1>6, <2>1, <2>2
  <2>4. CASE iface' = conf /\ up' = "sweep"
    <3>1. Answers(iface', mem', store)
      BY <2>1, <2>3, <2>4
    <3> QED BY <1>4, <1>5, <2>3, <3>1 DEF KernelServes
  <2>5. CASE up' = "idle" /\ iface' = Nothing
    <3>1. ~Bound'
      BY <1>2, <1>5, <2>5 DEF Bound, Live, KernelAt, Admitted
    <3> QED BY <1>4, <1>5, <2>3, <3>1 DEF KernelServes
  <2> QED BY <1>3, <1>10, <2>4, <2>5 DEF IfaceUp
<1>11. CASE EnableSweep
  <2>1. up = "sweep" /\ iface' = [iface EXCEPT !.peers = Restrict(@, DOMAIN @ \cap DOMAIN store)]
        /\ UNCHANGED <<mem, conf>> /\ Bound
    BY <1>11 DEF EnableSweep, Bound
  <2>2. Answers(iface', mem, store)
    BY <1>1, <1>4, <1>5, <2>1, SweptAnswers
  <2> QED BY <1>4, <1>5, <2>1, <2>2 DEF KernelServes
<1> QED BY <1>7, <1>8, <1>9, <1>10, <1>11

\* SingboxServes and KernelServes while no operation is in flight.
LEMMA Settled ==
    ASSUME op = Idle
    PROVE  /\ SingboxServes <=>
              /\ Offers(loaded, mem, store) /\ mem.enabled = setting.enabled
              /\ disable = "reload" => endpoint = Nothing
              /\ endpoint = Nothing /\ disable # "reload" => loaded = Nothing
           /\ KernelServes <=>
              /\ endpoint = Nothing /\ loaded = Nothing
              /\ (Live \/ up = "sweep") /\ up # "up" => Answers(iface, mem, store)
              /\ Live \/ setting.enabled \/ up # "idle" => Answers(conf, mem, store)
<1>1. op.kind = "none" /\ op.at = "none" /\ op.pub = NoPeer
  BY DEF Idle
<1>2. FormerMem = mem /\ FormerStore = store /\ op.at \notin KernelAt
  BY <1>1 DEF FormerMem, FormerStore, KernelAt, Admitted
<1>3. SingboxServes <=>
              /\ Offers(loaded, mem, store) /\ mem.enabled = setting.enabled
              /\ disable = "reload" => endpoint = Nothing
              /\ endpoint = Nothing /\ disable # "reload" => loaded = Nothing
  BY <1>1, <1>2 DEF SingboxServes
<1>4. KernelServes <=>
              /\ endpoint = Nothing /\ loaded = Nothing
              /\ (Live \/ up = "sweep") /\ up # "up" => Answers(iface, mem, store)
              /\ Live \/ setting.enabled \/ up # "idle" => Answers(conf, mem, store)
  BY <1>2 DEF KernelServes, Bound, IfaceHas, ConfHas
<1> QED BY <1>3, <1>4

LEMMA ServingSwitch == ASSUME AddrInv, Forms, Shape(store), Roles, Serving, SwitchBackend PROVE Serving'
<1>1. /\ mem.enabled = FALSE /\ up = "idle" /\ (Kernel => ~Live)
      /\ UNCHANGED <<store, mem, conf, iface, op, disable, up>>
  BY RoleFacts DEF SwitchBackend, Enabled, Busy
<1>2. SUFFICES ASSUME ~adrift' PROVE Serving'
  BY DEF Serving
<1>3. ~adrift /\ op = Idle /\ op' = Idle /\ disable = "idle"
  BY <1>1, <1>2 DEF SwitchBackend
<1>4. ~Kernel => ~Live
  BY DEF Roles, Live
<1>5. setting' = [setting EXCEPT !.enabled = FALSE] => setting'.enabled = FALSE
  BY DEF Forms, Settings
<1>6. CASE Kernel /\ backend' = "singbox" /\ setting' = [setting EXCEPT !.enabled = FALSE]
           /\ UNCHANGED <<endpoint, loaded>>
  <2>1. endpoint = Nothing /\ loaded = Nothing
    BY <1>3, <1>6 DEF Serving, KernelServes
  <2>2. SingboxServes'
    <3>1. op'.kind = "none" /\ op'.at = "none" /\ op'.pub = NoPeer
      BY <1>3 DEF Idle
    <3> QED BY <1>1, <1>3, <1>5, <1>6, <2>1, <3>1 DEF SingboxServes, FormerMem, FormerStore, Offers
  <2> QED BY <1>6, <2>2 DEF Serving, Kernel
\* A manager that is not enabled has nothing loaded.
<1>7. ~Kernel => loaded = Nothing /\ setting.enabled = FALSE
  BY <1>1, <1>3, RoleFacts, Settled DEF Serving, Offers
<1>8. CASE ~Kernel /\ backend' = "kernel" /\ setting' = [setting EXCEPT !.enabled = FALSE]
           /\ endpoint' = Nothing /\ loaded' = (IF endpoint = Nothing THEN loaded ELSE Nothing)
  <2>1. loaded' = Nothing /\ endpoint' = Nothing /\ ~setting'.enabled /\ up' = "idle"
    BY <1>1, <1>5, <1>7, <1>8
  <2>2. ~Bound'
    <3>1. op'.at = "none"
      BY <1>3 DEF Idle
    <3>2. ~Live'
      BY <1>1, <1>4, <1>8 DEF Live
    <3> QED BY <2>1, <3>1, <3>2 DEF Bound, KernelAt, Admitted
  <2>3. KernelServes'
    BY <2>1, <2>2 DEF KernelServes
  <2> QED BY <1>8, <2>3 DEF Serving, Kernel
<1>9. CASE ~Kernel /\ endpoint' = Nothing /\ UNCHANGED <<backend, setting, loaded>>
  <2>1. op'.kind = "none" /\ op'.at = "none" /\ op'.pub = NoPeer
    BY <1>3 DEF Idle
  <2>2. SingboxServes'
    BY <1>1, <1>3, <1>7, <1>9, <2>1 DEF SingboxServes, FormerMem, FormerStore, Offers
  <2> QED BY <1>9, <2>2 DEF Serving, Kernel
<1> QED BY <1>6, <1>8, <1>9 DEF SwitchBackend

\* After a restart the manager describes what was serving.
LEMMA ServingRestart == ASSUME AddrInv, Forms, Shape(store), Roles, Serving, Restart PROVE Serving'
<1>1. /\ op' = Idle /\ disable' = "idle" /\ up' = "idle"
      /\ UNCHANGED <<store, savedKey, setting, backend, conf>>
  BY DEF Restart
<1>2. SUFFICES ASSUME ~adrift' PROVE Serving'
  BY DEF Serving
<1>3. /\ ~adrift /\ op = Idle /\ disable = "idle" /\ up = "idle"
      /\ mem'.port = mem.port /\ key = savedKey /\ loaded = endpoint
  BY <1>2 DEF Restart
<1>4. op'.kind = "none" /\ op'.at = "none" /\ op'.pub = NoPeer /\ op'.at \notin KernelAt
  BY <1>1 DEF Idle, KernelAt, Admitted
<1>5. mem.enabled \in BOOLEAN /\ setting.enabled \in BOOLEAN
  BY RoleFacts
<1>6. CASE RestartSingbox
  <2>1. /\ ~Kernel /\ ~Kernel' /\ loaded' = loaded /\ endpoint' = endpoint
        /\ mem'.enabled = (setting.enabled /\ savedKey # 0) /\ mem'.key = savedKey
    BY <1>1, <1>3, <1>6 DEF RestartSingbox, Kernel
  <2>2. Offers(loaded, mem, store) /\ mem.enabled = setting.enabled /\ (mem.enabled => mem.key = key /\ key # 0)
    BY <1>3, <2>1, Settled DEF Serving, Roles
  <2>3. mem'.enabled = mem.enabled /\ (mem.enabled => mem'.key = mem.key)
    BY <1>3, <1>5, <2>1, <2>2
  <2>4. Offers(loaded', mem', store')
    BY <1>1, <1>3, <2>1, <2>2, <2>3 DEF Offers, Answers
  <2>5. SingboxServes'
    BY <1>1, <1>3, <1>4, <2>1, <2>2, <2>3, <2>4 DEF SingboxServes, FormerMem, FormerStore
  <2> QED BY <2>1, <2>5 DEF Serving
<1>7. CASE RestartKernel
  <2>1. PICK present \in {iface, Nothing, IF setting.enabled THEN conf ELSE Nothing} :
          /\ iface' = present
          /\ mem' = IF conf = Nothing THEN Cold
                    ELSE [enabled |-> present # Nothing, port |-> setting.port, key |-> conf.key]
    BY <1>7 DEF RestartKernel
  <2>2. /\ endpoint = Nothing /\ loaded = Nothing
        /\ Live => Answers(iface, mem, store)
        /\ Live \/ setting.enabled => Answers(conf, mem, store)
        /\ Kernel /\ Kernel'
    BY <1>1, <1>3, <1>7, Settled DEF RestartKernel, Serving, Kernel
  <2>3. endpoint' = Nothing /\ loaded' = Nothing
    BY <1>7, <2>2 DEF RestartKernel
  <2>4. mem'.key = conf.key
    BY <2>1, NothingForm DEF Cold
  <2>5. Live \/ setting.enabled => mem.key = conf.key
    BY <2>2 DEF Answers
  <2>6. Bound' => present # Nothing
    BY <1>1, <1>4, <2>1 DEF Bound, Live
  <2>7. present # Nothing => /\ Live \/ setting.enabled
                             /\ Answers(present, mem, store)
    BY <2>1, <2>2 DEF Live
  <2>8. Bound' => Answers(iface', mem', store)
    BY <1>3, <2>1, <2>4, <2>5, <2>6, <2>7 DEF Answers
  <2>9. Bound' \/ setting.enabled => Answers(conf', mem', store)
    BY <1>1, <1>3, <2>2, <2>4, <2>5, <2>6, <2>7 DEF Answers
  <2>10. KernelServes'
    BY <1>1, <2>3, <2>8, <2>9 DEF KernelServes, IfaceHas, ConfHas
  <2> QED BY <2>2, <2>10 DEF Serving
<1> QED BY <1>6, <1>7 DEF Restart

LEMMA ServingExpire ==
    ASSUME AddrInv, Serving, NEW p \in Peers, Expire(p)
    PROVE  Serving'
<1>1. Ages(store, store')
  BY DEF Expire, AddrInv, StoreOK, Peer, Ages
<1>2. UNCHANGED <<mem, setting, backend, endpoint, loaded, conf, iface, op, disable, up, adrift>>
  BY DEF Expire
<1>3. Ages(Before, Before') /\ Ages(With(store, op.pub, op.new), With(store, op.pub, op.new)')
      /\ Ages(Without(store, op.pub), Without(store, op.pub)')
  BY <1>1, <1>2, AgedStores DEF Before
<1>4. Ages(FormerStore, FormerStore') /\ Ages(IfaceHas, IfaceHas') /\ Ages(ConfHas, ConfHas')
      /\ FormerMem' = FormerMem
  BY <1>1, <1>2, <1>3 DEF FormerStore, FormerMem, IfaceHas, ConfHas
<1>5. ASSUME NEW s, NEW m, NEW st, NEW other, Offers(s, m, st), Ages(st, other) PROVE Offers(s, m, other)
  BY <1>5, AgedAnswers DEF Offers
<1>6. ~Kernel /\ ~adrift => SingboxServes'
  BY <1>1, <1>2, <1>4, <1>5 DEF Serving, SingboxServes
<1>7. Kernel /\ ~adrift => KernelServes'
  BY <1>2, <1>4, AgedAnswers DEF Serving, KernelServes, Bound, Live
<1> QED BY <1>2, <1>6, <1>7 DEF Serving, Kernel

LEMMA ServingSettings ==
    ASSUME Forms, Serving,
           (\E n \in Ports : SetPort(n)) \/ StartDraft \/ DiscardDraft \/ ApplyDraft \/ UNCHANGED awgVars
    PROVE  Serving'
<1>1. ASSUME NEW n \in Ports, SetPort(n) PROVE Serving'
  <2>1. setting'.enabled = setting.enabled /\ UNCHANGED <<store, mem, backend, endpoint, loaded, conf, iface, op,
                                                          disable, up, adrift>>
    BY <1>1 DEF SetPort, Forms, Settings
  <2>2. ~Kernel /\ ~adrift => SingboxServes'
    BY <2>1 DEF Serving, SingboxServes, FormerMem, FormerStore, Before
  <2>3. Kernel /\ ~adrift => KernelServes'
    BY <2>1 DEF Serving, KernelServes, Bound, Live, IfaceHas, ConfHas, Before
  <2> QED BY <2>1, <2>2, <2>3 DEF Serving, Kernel
<1>2. CASE ApplyDraft
  <2>1. SUFFICES ASSUME ~adrift' PROVE Serving'
    BY DEF Serving
  <2>2. loaded' = loaded /\ adrift' = adrift
    BY <1>2, <2>1 DEF ApplyDraft, Forms
  <2> QED BY <1>2, <2>2, SingboxSame DEF ApplyDraft
<1>3. CASE StartDraft \/ DiscardDraft \/ UNCHANGED awgVars
  BY <1>3, SingboxSame DEF StartDraft, DiscardDraft, awgVars
<1> QED BY <1>1, <1>2, <1>3

LEMMA ServeInvKept == AddrInv /\ ServeInv /\ [Next]_awgVars => ServeInv'
<1> SUFFICES ASSUME AddrInv, ServeInv, [Next]_awgVars PROVE ServeInv'
  OBVIOUS
<1>1. Forms /\ Shape(store) /\ Roles /\ Serving
  BY DEF ServeInv, Serving
<1>2. Forms' /\ Shape(store)' /\ Roles'
  BY <1>1, FormsKept, ShapeKept, RolesKept
<1>3. Serving'
  BY <1>1, ServingSingbox, ServingRequest, ServingStep, ServingKernel, ServingSwitch, ServingRestart,
     ServingExpire, ServingSettings
     DEF Next, Request, OpStep, DisableStep, UpStep, Sweep
<1> QED BY <1>2, <1>3 DEF ServeInv, Serving

\* For every number of peers, requests, restarts and failures and on both
\* backends: between operations, and as long as nothing went adrift, what serves
\* is what the manager describes, with every current peer and none the store does
\* not list (the commit rule, manager.go:177-233).  So a roll back undoes all of
\* what its operation did, at whichever step that failed.
THEOREM WhatServesIsListed == Spec => []Served
<1>1. Init => AddrInv
  BY DEF Init, AddrInv, StoreOK, OpOK, Idle
<1>2. Init => ServeInv
  <2> SUFFICES ASSUME Init PROVE ServeInv
    OBVIOUS
  <2>1. /\ op = Idle /\ op.kind = "none" /\ op.at = "none" /\ op.prev = Cold /\ backend \in {"kernel", "singbox"}
        /\ endpoint = Nothing /\ loaded = Nothing /\ conf = Nothing /\ iface = Nothing
        /\ disable = "idle" /\ up = "idle" /\ adrift = FALSE /\ key = 0 /\ savedKey = 0 /\ keys = 0
    BY AwgAssumption DEF Init, Idle
  <2>2. setting.enabled = FALSE /\ setting.port \in Nat /\ setting \in Settings
    BY AwgAssumption DEF Init, Settings
  <2>3. mem \in Managers /\ mem.enabled = FALSE /\ Cold \in Managers
    BY <2>2 DEF Init, Managers, Cold
  <2>4. Forms
    BY <2>1, <2>2, <2>3, NothingForm DEF Forms
  <2>5. Shape(store) /\ Roles
    BY <2>1, <2>3 DEF Shape, Roles, SingboxAt, KernelAt, Admitted
  <2>6. SingboxServes /\ (Kernel => KernelServes)
    BY <2>1, <2>2, <2>3, Settled DEF Offers, Live
  <2> QED BY <2>4, <2>5, <2>6 DEF ServeInv
<1>3. AddrInv /\ ServeInv => Served
  <2> SUFFICES ASSUME AddrInv, ServeInv, op = Idle, disable = "idle", up = "idle", ~adrift
               PROVE  \/ Kernel /\ ~Live
                      \/ /\ Kernel
                         /\ \A serving \in {iface, conf} :
                               /\ serving.port = mem.port /\ serving.key = mem.key
                               /\ ServesPeers(serving.peers)
                      \/ /\ ~Kernel /\ mem.enabled /\ mem.key # 0
                         /\ loaded.port = mem.port /\ loaded.key = mem.key
                         /\ ServesPeers(loaded.peers)
                      \/ ~Kernel /\ ~(mem.enabled /\ mem.key # 0) /\ loaded = Nothing
    BY DEF Served
  <2>1. ASSUME NEW s, Answers(s, mem, store) PROVE s.port = mem.port /\ s.key = mem.key /\ ServesPeers(s.peers)
    BY <2>1 DEF Answers, Serves, ServesPeers, Current
  <2>2. CASE Kernel
    BY <2>1, <2>2, Settled DEF ServeInv
  <2>3. CASE ~Kernel
    BY <2>1, <2>3, Settled, RoleFacts DEF ServeInv, Offers, Roles
  <2> QED BY <2>2, <2>3
<1> QED BY <1>1, <1>2, <1>3, StepOK, ServeInvKept, PTL DEF Spec

-----------------------------------------------------------------------------
(* Types.                                                                    *)

\* Only a request generates a key, and one at most; every key in use is one that
\* was generated, and every port one of the settings.
Counts ==
    /\ ops \in 0..MaxOps /\ keys \in 0..ops
    /\ key \in 0..keys /\ savedKey \in 0..keys /\ mem.key \in 0..keys
    /\ op.prev.key \in 0..keys /\ conf.key \in 0..keys
    /\ mem.port \in Ports \cup {0} /\ op.prev.port \in Ports \cup {0}
    /\ setting.port \in Ports /\ conf.port \in Ports \cup {0}

\* A step that generates no key.
Copies ==
    /\ (ops' = ops \/ Operation)
    /\ key' \in {key, savedKey} /\ savedKey' \in {key, savedKey} /\ keys' = keys
    /\ \/ mem' = mem
       \/ mem' = op.prev
       \/ /\ mem'.key \in {mem.key, savedKey, conf.key, 0}
          /\ mem'.port \in {mem.port, setting.port, 0}
    /\ op'.prev \in {op.prev, mem, Cold}
    /\ conf'.key = conf.key /\ conf'.port = conf.port
    /\ setting'.port \in Ports

LEMMA CountsCopied == ASSUME Counts, Copies PROVE Counts'
<1>1. ops' \in 0..MaxOps /\ ops <= ops'
  BY AwgAssumption DEF Counts, Copies, Operation
<1>2. Cold.key = 0 /\ Cold.port = 0
  BY DEF Cold
<1> QED BY <1>1, <1>2 DEF Counts, Copies

LEMMA CountsSingbox ==
    ASSUME AddrInv, Forms, Counts,
           \/ \E p \in Peers : \/ AddPeerSingbox(p) \/ RemovePeerSingbox(p)
                               \/ \E exp \in {"never", "timed"} : RenewPeerSingbox(p, exp)
           \/ SweepSingbox \/ EnableSingbox \/ Render \/ Sync \/ ReloadEndpoint
           \/ DisableSingbox \/ DisableSync \/ DisableReload
    PROVE  Counts'
<1>1. setting.port \in Ports /\ op.prev \in Managers /\ mem \in Managers
  BY DEF Counts, Forms
<1>2. \A b \in BOOLEAN : [setting EXCEPT !.enabled = b].port = setting.port
  BY DEF Forms, Settings
<1>3. ASSUME NEW kind, NEW p, NEW old, NEW new, NEW at, Begin(kind, p, old, new, at) PROVE op'.prev = mem
  BY <1>3, BeginForms
<1>4. ASSUME End PROVE op'.prev = Cold
  BY <1>4 DEF End, Idle
<1>5. CASE \E p \in Peers : \/ AddPeerSingbox(p) \/ RemovePeerSingbox(p)
                            \/ \E exp \in {"never", "timed"} : RenewPeerSingbox(p, exp)
  <2>1. Copies
    BY <1>1, <1>3, <1>5 DEF AddPeerSingbox, RemovePeerSingbox, RenewPeerSingbox, SavePeers, sbVars, Copies
  <2> QED BY <2>1, CountsCopied
<1>6. CASE SweepSingbox
  <2>1. Copies
    BY <1>1, <1>3, <1>6 DEF SweepSingbox, sbVars, Copies
  <2> QED BY <2>1, CountsCopied
<1>7. CASE EnableSingbox
  <2>1. Operation
    BY <1>7 DEF EnableSingbox
  <2>2. ServerKey \in 0..(keys + 1)
    BY DEF ServerKey, Counts
  <2>3. keys' \in 0..(keys + 1) /\ keys <= keys' /\ ServerKey <= keys' /\ key' = ServerKey
    BY <1>7, <2>2 DEF EnableSingbox, Counts
  <2>4. ops' \in 0..MaxOps /\ ops' = ops + 1
    BY <2>1, AwgAssumption DEF Operation, Counts
  <2>5. UNCHANGED <<conf, setting>> /\ savedKey' \in {savedKey, ServerKey}
    BY <1>7 DEF EnableSingbox
  <2>6. CASE UNCHANGED <<savedKey, mem, op, adrift>>
    BY <2>2, <2>3, <2>4, <2>5, <2>6 DEF Counts
  <2>7. CASE Begin("enable", NoPeer, NoPeer, NoPeer, "render")
             /\ mem' = [enabled |-> TRUE, port |-> setting.port, key |-> ServerKey]
    <3>1. op'.prev = mem /\ mem'.port = setting.port /\ mem'.key = ServerKey
      BY <1>3, <2>7
    <3> QED BY <2>2, <2>3, <2>4, <2>5, <3>1 DEF Counts
  <2> QED BY <1>7, <2>6, <2>7 DEF EnableSingbox
<1>8. CASE Render
  <2>1. op'.prev = op.prev
    BY <1>8 DEF Render, AddrInv, OpOK
  <2>2. Copies
    BY <1>1, <1>8, <2>1 DEF Render, sbVars, Copies
  <2> QED BY <2>2, CountsCopied
<1>9. ASSUME NEW lost, RollBack(lost)
      PROVE  op'.prev = Cold /\ savedKey' \in {key, savedKey} /\ (mem' = mem \/ mem' = op.prev)
  BY <1>4, <1>9 DEF RollBack, SavePeers, Restored
<1>10. ASSUME Complete PROVE op'.prev = Cold /\ UNCHANGED <<savedKey, mem>> /\ setting'.port = setting.port
  <2>1. setting' = [setting EXCEPT !.enabled = @ \/ op.kind = "enable"]
    BY <1>10 DEF Complete
  <2> QED BY <1>4, <1>10, <2>1 DEF Complete, Forms, Settings
<1>11. CASE Sync
  <2>1. op'.prev \in {op.prev, Cold} /\ savedKey' \in {key, savedKey} /\ (mem' = mem \/ mem' = op.prev)
        /\ setting'.port = setting.port
    <3>1. Goto("reload") => op'.prev = op.prev
      BY DEF Goto, AddrInv, OpOK
    <3>2. ASSUME UNCHANGED setting PROVE setting'.port = setting.port
      BY <3>2
    <3>3. CASE RollBack(FALSE) /\ UNCHANGED setting
      BY <1>9, <3>2, <3>3
    <3>4. CASE Complete
      BY <1>10, <3>4
    <3>5. CASE Goto("reload") /\ UNCHANGED <<savedKey, mem, setting>>
      <4>1. UNCHANGED savedKey /\ UNCHANGED mem /\ UNCHANGED setting
        BY <3>5
      <4> QED BY <3>1, <3>2, <3>5, <4>1
    <3>6. \/ RollBack(FALSE) /\ UNCHANGED setting
          \/ Complete
          \/ Goto("reload") /\ UNCHANGED <<savedKey, mem, setting>>
      BY <1>11, Zenon DEF Sync
    <3> QED BY <3>3, <3>4, <3>5, <3>6
  <2>2. Copies
    BY <1>1, <1>11, <2>1 DEF Sync, Copies
  <2> QED BY <2>2, CountsCopied
<1>12. CASE ReloadEndpoint
  <2>1. op'.prev = Cold /\ savedKey' \in {key, savedKey} /\ (mem' = mem \/ mem' = op.prev)
        /\ setting'.port = setting.port
    <3>1. ASSUME UNCHANGED setting PROVE setting'.port = setting.port
      BY <3>1
    <3>2. CASE RollBack(TRUE) /\ UNCHANGED setting
      BY <1>9, <3>1, <3>2
    <3>3. CASE Complete
      BY <1>10, <3>3
    <3>4. Complete \/ (RollBack(TRUE) /\ UNCHANGED setting)
      BY <1>12, Zenon DEF ReloadEndpoint
    <3> QED BY <3>2, <3>3, <3>4
  <2>2. Copies
    BY <1>1, <1>12, <2>1 DEF ReloadEndpoint, Copies
  <2> QED BY <2>2, CountsCopied
<1>13. ASSUME MarkDisabled PROVE mem'.key = mem.key /\ mem'.port = mem.port
  BY <1>1, <1>13 DEF MarkDisabled, Managers
<1>14. CASE DisableSingbox \/ DisableSync \/ DisableReload
  <2>1. Copies
    BY <1>1, <1>2, <1>13, <1>14 DEF DisableSingbox, DisableSync, DisableReload, Copies
  <2> QED BY <2>1, CountsCopied
<1> QED BY <1>5, <1>6, <1>7, <1>8, <1>11, <1>12, <1>14

LEMMA CountsKernel ==
    ASSUME AddrInv, Forms, Counts,
           \/ \E p \in Peers : \/ AddPeerKernel(p) \/ RemovePeerKernel(p)
                               \/ \E exp \in {"never", "timed"} : RenewPeerKernel(p, exp)
           \/ SetLive \/ Strip \/ Append \/ PutPeer \/ Unconf \/ Delete
    PROVE  Counts'
<1>1. setting.port \in Ports /\ op.prev \in Managers /\ mem \in Managers /\ Form(conf)
  BY DEF Counts, Forms
<1>2. ASSUME NEW p, NEW adr
      PROVE  /\ Drop(conf, p).key = conf.key /\ Drop(conf, p).port = conf.port
             /\ Serve(conf, p, adr).key = conf.key /\ Serve(conf, p, adr).port = conf.port
  BY <1>1, DropForm, ServeForm
<1>3. ASSUME NEW kind, NEW p, NEW old, NEW new, NEW at, Begin(kind, p, old, new, at) PROVE op'.prev = mem
  BY <1>3, BeginForms
<1>4. ASSUME End PROVE op'.prev = Cold
  BY <1>4 DEF End, Idle
<1>5. ASSUME NEW at, Goto(at) PROVE op'.prev = op.prev
  BY <1>5 DEF Goto, AddrInv, OpOK
<1>6. CASE \E p \in Peers : \/ AddPeerKernel(p) \/ RemovePeerKernel(p)
                            \/ \E exp \in {"never", "timed"} : RenewPeerKernel(p, exp)
  <2>1. Copies
    BY <1>1, <1>3, <1>6 DEF AddPeerKernel, RemovePeerKernel, RenewPeerKernel, SavePeers, krVars, Copies
  <2> QED BY <2>1, CountsCopied
<1>7. ASSUME NEW n, RestoreExpiry(n) PROVE savedKey' \in {key, savedKey}
  BY <1>7 DEF RestoreExpiry, SavePeers
<1>8. ASSUME Unadmit PROVE op'.prev = Cold /\ savedKey' \in {key, savedKey}
  BY <1>4, <1>7, <1>8 DEF Unadmit
<1>9. ASSUME SetLive \/ Strip \/ Append \/ PutPeer \/ Unconf \/ Delete PROVE Copies
  <2>1. CASE SetLive
    BY <1>1, <1>4, <1>5, <1>7, <2>1 DEF SetLive, krVars, Copies
  <2>2. CASE Strip
    BY <1>1, <1>2, <1>5, <1>8, <2>2 DEF Strip, krVars, Copies
  <2>3. CASE Append
    BY <1>1, <1>2, <1>4, <1>5, <1>8, <2>3 DEF Append, krVars, Copies
  <2>4. CASE PutPeer
    BY <1>1, <1>2, <1>4, <2>4 DEF PutPeer, Suspended, SavePeers, krVars, Copies
  <2>5. CASE Unconf
    BY <1>1, <1>2, <1>4, <1>5, <2>5 DEF Unconf, krVars, Copies
  <2>6. CASE Delete
    BY <1>1, <1>2, <1>4, <2>6 DEF Delete, SavePeers, krVars, Copies
  <2> QED BY <1>9, <2>1, <2>2, <2>3, <2>4, <2>5, <2>6
<1> QED BY <1>6, <1>9, CountsCopied

LEMMA CountsOthers ==
    ASSUME AddrInv, Forms, Counts,
           \/ SweepKernel \/ EnableKernel \/ DisableKernel \/ IfaceUp \/ EnableSweep
           \/ \E n \in Ports : SetPort(n)
           \/ SwitchBackend \/ StartDraft \/ DiscardDraft \/ ApplyDraft \/ Restart
           \/ \E p \in Peers : Expire(p)
           \/ UNCHANGED awgVars
    PROVE  Counts'
<1>1. setting.port \in Ports /\ op.prev \in Managers /\ mem \in Managers /\ Form(conf)
  BY DEF Counts, Forms
<1>2. ASSUME NEW b \in BOOLEAN
      PROVE  /\ [setting EXCEPT !.enabled = b].port = setting.port
             /\ [mem EXCEPT !.enabled = b].port = mem.port /\ [mem EXCEPT !.enabled = b].key = mem.key
  BY DEF Forms, Settings, Managers
<1>3. CASE SweepKernel
  <2>1. \E peers : conf' = [conf EXCEPT !.peers = peers]
    BY <1>3 DEF SweepKernel
  <2>2. conf'.key = conf.key /\ conf'.port = conf.port
    BY <1>1, <2>1, PeersOnly
  <2>3. Copies
    BY <1>1, <1>3, <2>2 DEF SweepKernel, krVars, Copies
  <2> QED BY <2>3, CountsCopied
<1>4. CASE EnableKernel
  <2>1. ops' = ops + 1 /\ ops' \in 0..MaxOps
    BY <1>4, AwgAssumption DEF EnableKernel, Operation, Counts
  <2>2. keys' = (IF mem.key = 0 THEN keys + 1 ELSE keys) /\ UNCHANGED <<key, savedKey, op, setting>>
    BY <1>4 DEF EnableKernel, krVars
  <2>3. mem'.port = setting.port /\ mem'.key = (IF mem.key = 0 THEN keys' ELSE mem.key)
    BY <1>1, <1>4 DEF EnableKernel, Managers
  <2>4. conf'.port = mem'.port /\ conf'.key = mem'.key
    BY <1>4 DEF EnableKernel
  <2> QED BY <2>1, <2>2, <2>3, <2>4 DEF Counts
<1>5. CASE DisableKernel \/ IfaceUp \/ EnableSweep
  <2>1. Copies
    BY <1>1, <1>2, <1>5 DEF DisableKernel, IfaceUp, EnableSweep, krVars, Copies
  <2> QED BY <2>1, CountsCopied
<1>6. ASSUME NEW n \in Ports, SetPort(n) PROVE Counts'
  <2>1. setting'.port = n
    BY <1>6 DEF SetPort, Forms, Settings
  <2>2. Copies
    BY <1>6, <2>1 DEF SetPort, Copies
  <2> QED BY <2>2, CountsCopied
<1>7. CASE SwitchBackend
  <2>1. setting'.port = setting.port
    BY <1>2, <1>7 DEF SwitchBackend
  <2>2. Copies
    BY <1>1, <1>7, <2>1 DEF SwitchBackend, Copies
  <2> QED BY <2>2, CountsCopied
<1>8. CASE StartDraft \/ DiscardDraft \/ ApplyDraft \/ UNCHANGED awgVars \/ \E p \in Peers : Expire(p)
  <2>1. Copies
    BY <1>1, <1>8 DEF StartDraft, DiscardDraft, ApplyDraft, Expire, awgVars, Copies
  <2> QED BY <2>1, CountsCopied
<1>9. CASE Restart
  <2>1. mem'.key \in {savedKey, conf.key, 0} /\ mem'.port \in {setting.port, 0}
    BY <1>9 DEF Restart, RestartSingbox, RestartKernel, Cold
  <2>2. op'.prev = Cold
    BY <1>9 DEF Restart, Idle
  <2>3. Copies
    BY <1>1, <1>9, <2>1, <2>2 DEF Restart, Copies
  <2> QED BY <2>3, CountsCopied
<1> QED BY <1>3, <1>4, <1>5, <1>6, <1>7, <1>8, <1>9

\* Type correctness (AwgTypeOK): a stored address is a host's, never the
\* server's own; a key in use is one that a request generated, and a request
\* generates one at most; a port in use is one an operator has set.
THEOREM AwgTyped == Spec => []AwgTypeOK
<1>1. Init => AddrInv
  BY DEF Init, AddrInv, StoreOK, OpOK, Idle
<1>2. Init => Forms /\ Counts
  <2> SUFFICES ASSUME Init PROVE Forms /\ Counts
    OBVIOUS
  <2>1. /\ op = Idle /\ op.prev = Cold /\ backend \in {"kernel", "singbox"}
        /\ conf = Nothing /\ iface = Nothing /\ ops = 0
        /\ disable = "idle" /\ up = "idle" /\ adrift = FALSE /\ key = 0 /\ savedKey = 0 /\ keys = 0
    BY AwgAssumption DEF Init, Idle
  <2>2. setting.port \in Ports /\ setting.port \in Nat /\ setting \in Settings
    BY AwgAssumption DEF Init, Settings
  <2>3. /\ mem \in Managers /\ Cold \in Managers /\ Cold.key = 0 /\ Cold.port = 0
        /\ mem.key = 0 /\ mem.port \in {0, setting.port}
    BY <2>2 DEF Init, Managers, Cold
  <2>4. Forms
    BY <2>1, <2>2, <2>3, NothingForm DEF Forms
  <2> QED BY <2>1, <2>2, <2>3, <2>4, NothingForm, AwgAssumption DEF Counts
<1>3. AddrInv /\ Forms /\ Counts /\ [Next]_awgVars => Counts'
  BY CountsSingbox, CountsKernel, CountsOthers
     DEF Next, Request, OpStep, DisableStep, UpStep, Sweep
<1>4. AddrInv /\ Forms /\ Counts => AwgTypeOK
  <2> SUFFICES ASSUME AddrInv, Forms, Counts PROVE AwgTypeOK
    OBVIOUS
  <2>1. \A k \in {key, savedKey, mem.key, conf.key, keys} : k \in 0..(2 * MaxOps)
    BY AwgAssumption DEF Counts
  <2>2. DOMAIN store \subseteq Peers /\ \A p \in DOMAIN store : store[p] \in Peer
    BY DEF AddrInv, StoreOK
  <2>3. backend \in {"kernel", "singbox"} /\ op.pub \in Peers \cup {NoPeer}
    BY DEF AddrInv, OpOK, Forms
  <2> QED BY <2>1, <2>2, <2>3 DEF AwgTypeOK, Counts
<1> QED BY <1>1, <1>2, <1>3, <1>4, StepOK, FormsKept, PTL DEF Spec

=============================================================================
