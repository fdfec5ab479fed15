--------------------------- MODULE TelegramProofs ---------------------------
(***************************************************************************)
(* The roster a proxy serves and the traffic it is billed, for any         *)
(* clients, overlapping requests, failures and restarts of the panel.      *)
(*                                                                         *)
(* ServesRoster is not inductive: between a write of the roster and the    *)
(* rebuild it calls for the proxy is behind, so the invariant says that    *)
(* somebody is then on the way to rebuild.                                 *)
(***************************************************************************)
EXTENDS TelegramProxy, TLAPS

Kind == {"none", "create", "delete", "update", "rotate", "settings", "enable", "disable"}

RequestType ==
    [at : {"idle", "put", "rebuild", "sync", "save", "start", "persist"}, kind : Kind,
     name : Names \cup {None}, client : Client \cup {None},
     copy : Setting \cup {None}, prev : Setting \cup {None}]

\* A request has what its next step uses.
Ready(q) ==
    /\ q.at = "put" => q.name \in Names
    /\ q.at \in {"sync", "save", "start"} => q.copy \in Setting
    /\ q.at = "sync" /\ q.kind = "settings" => q.prev \in Setting

ReqOK == req \in [Requests -> RequestType] /\ \A r \in Requests : Ready(req[r])

SweepOK ==
    /\ sweep.at \in {"idle", "put", "rebuild"} /\ sweep.changed \in BOOLEAN
    /\ sweep.changed => sweep.at = "put"
    /\ sweep.at = "put" => /\ DOMAIN sweep.left \subseteq Names
                           /\ \A n \in DOMAIN sweep.left : sweep.left[n] \in Client

RosterOK ==
    /\ mem \in [Names -> Client \cup {None}] /\ disk \in [Names -> Client \cup {None}]
    /\ minted \in 0..MaxMints /\ now \in {0, 1} /\ faults \in Nat

RouteOK ==
    /\ set \in Setting /\ setDisk \in Setting
    /\ active \in Config /\ draft \in Config \cup {None}

ProxyOK ==
    /\ Served \subseteq Names /\ (proxy # None => Served # {})
    /\ cfg \in Ports \cup {None}

TypeInv == ReqOK /\ SweepOK /\ RosterOK /\ RouteOK /\ ProxyOK

-----------------------------------------------------------------------------
(* What the shared steps do.                                                 *)

LEMMA FaultCounts == ASSUME RosterOK, NEW k, Fault(k) PROVE faults' \in Nat /\ faults' # faults
BY DEF RosterOK, Fault

\* A write of the roster that succeeds is the only one that raises no fault.
LEMMA PutTyped ==
    ASSUME RosterOK, NEW n \in Names, NEW c \in Client \cup {None}, Put(n, c)
    PROVE  /\ mem' \in [Names -> Client \cup {None}] /\ disk' \in [Names -> Client \cup {None}]
           /\ faults' \in Nat
           /\ faults' # faults => UNCHANGED <<mem, disk>>
BY FaultCounts DEF Put, Stored, NoFault, RosterOK

LEMMA StartedTyped ==
    ASSUME RosterOK, ProxyOK, NEW via \in Ports \cup {None}, Started(via)
    PROVE  ProxyOK' /\ faults' \in Nat
<1>1. faults' \in Nat
  BY FaultCounts DEF Started, NoFault, RosterOK
<1>2. CASE NotStarted
  BY <1>1, <1>2 DEF NotStarted, ProxyOK, Served
<1>3. CASE proxy' = [n \in Active |-> mem[n].secret] /\ Active # {} /\ cfg' = via
  <2>1. DOMAIN proxy' = Active
    BY <1>3
  <2>2. Active \subseteq Names
    BY DEF Active
  <2>3. Served' \subseteq Names /\ (proxy' # None => Served' # {})
    BY <1>3, <2>1, <2>2 DEF Served
  <2> QED BY <1>1, <1>3, <2>3 DEF ProxyOK
<1> QED BY <1>1, <1>2, <1>3 DEF Started

LEMMA RebuiltTyped ==
    ASSUME RosterOK, ProxyOK, Rebuilt
    PROVE  ProxyOK' /\ faults' \in Nat
<1>1. CASE proxy = None
  BY <1>1 DEF Rebuilt, NoFault, proxyVars, ProxyOK, Served, RosterOK
<1>2. CASE proxy # None
  BY <1>2, StartedTyped DEF Rebuilt, ProxyOK
<1> QED BY <1>1, <1>2

LEMMA SyncedTyped ==
    ASSUME RosterOK, RouteOK, NEW s \in Setting, NEW ok \in BOOLEAN, Synced(s, ok)
    PROVE  active' \in Config /\ faults' \in Nat
<1>1. WithManaged(active, Wanted(s)) \in Config
  BY DEF RouteOK, WithManaged, Wanted, Setting, Config
<1> QED BY <1>1, FaultCounts DEF Synced, NoFault, RouteOK, RosterOK

\* A request moves on, or ends.
LEMMA GoTyped ==
    ASSUME ReqOK, NEW r \in Requests, NEW q \in RequestType, Ready(q), Go(r, q)
    PROVE  ReqOK' /\ req'[r] = q
BY DEF ReqOK, Go

LEMMA ToTyped ==
    ASSUME ReqOK, NEW r \in Requests, To(r, "rebuild") \/ To(r, "persist")
    PROVE  ReqOK' /\ req'[r].at \in {"rebuild", "persist"}
           /\ (To(r, "rebuild") => req'[r].at = "rebuild")
<1> DEFINE q(s) == [req[r] EXCEPT !.at = s]
<1>1. \A s \in {"rebuild", "persist"} : q(s) \in RequestType /\ q(s).at = s /\ Ready(q(s))
  BY DEF ReqOK, RequestType, Ready
<1> QED BY <1>1, GoTyped DEF To

LEMMA DoneTyped == ASSUME ReqOK, NEW r \in Requests, Done(r) PROVE ReqOK'
<1>1. Idle \in RequestType /\ Ready(Idle)
  BY DEF Idle, RequestType, Ready, Kind
<1> QED BY <1>1, GoTyped DEF Done

-----------------------------------------------------------------------------
(* Type correctness, request by request.                                     *)

LEMMA RosterRequestTyped ==
    ASSUME TypeInv, NEW r \in Requests, NEW n \in Names, RosterRequest(r, n)
    PROVE  TypeInv'
<1> USE TelegramAssumption
<1>1. minted' \in 0..MaxMints
  <2>1. Mint \/ UNCHANGED minted
    BY DEF RosterRequest, Create, Delete, Update, Rotate
  <2>2. minted \in 0..MaxMints /\ MaxMints \in Nat
    BY DEF TypeInv, RosterOK
  <2> QED BY <2>1, <2>2 DEF Mint
<1>2. mem[n] \in Client \cup {None} /\ 0 \in {0, 1}
  BY DEF TypeInv, RosterOK
<1>3. ReqOK'
  <2>1. CASE Create(r, n)
    <3>1. PICK t \in {0, 1} :
             Go(r, [Idle EXCEPT !.at = "put", !.kind = "create", !.name = n,
                      !.client = [secret |-> minted', enabled |-> TRUE, until |-> t]])
      BY <2>1 DEF Create
    <3> DEFINE c == [secret |-> minted', enabled |-> TRUE, until |-> t]
               q == [Idle EXCEPT !.at = "put", !.kind = "create", !.name = n, !.client = c]
    <3>2. minted' \in 1..MaxMints
      BY <2>1 DEF Create, Mint, TypeInv, RosterOK
    <3>3. c \in Client
      BY <3>2 DEF Client
    <3> HIDE DEF c
    <3>4. q \in RequestType /\ Ready(q)
      BY <3>3 DEF Idle, RequestType, Ready, Kind
    <3> QED BY <3>1, <3>4, GoTyped DEF c, TypeInv
  <2>2. CASE Delete(r, n)
    <3> DEFINE q == [Idle EXCEPT !.at = "put", !.kind = "delete", !.name = n]
    <3>1. q \in RequestType /\ Ready(q)
      BY DEF Idle, RequestType, Ready, Kind
    <3> QED BY <2>2, <3>1, GoTyped DEF Delete, TypeInv
  <2>3. CASE Update(r, n)
    <3>1. PICK e \in BOOLEAN, t \in {0, 1} :
             Go(r, [Idle EXCEPT !.at = "put", !.kind = "update", !.name = n,
                      !.client = [mem[n] EXCEPT !.enabled = e, !.until = t]])
      BY <2>3 DEF Update
    <3> DEFINE c == [mem[n] EXCEPT !.enabled = e, !.until = t]
               q == [Idle EXCEPT !.at = "put", !.kind = "update", !.name = n, !.client = c]
    <3>2. mem[n] \in Client
      BY <1>2, <2>3 DEF Update
    <3>3. c \in Client
      BY <3>2 DEF Client
    <3> HIDE DEF c
    <3>4. q \in RequestType /\ Ready(q)
      BY <3>3 DEF Idle, RequestType, Ready, Kind
    <3> QED BY <3>1, <3>4, GoTyped DEF c, TypeInv
  <2>4. CASE Rotate(r, n)
    <3> DEFINE c == [mem[n] EXCEPT !.secret = minted']
               q == [Idle EXCEPT !.at = "put", !.kind = "rotate", !.name = n, !.client = c]
    <3>1. minted' \in 1..MaxMints /\ mem[n] \in Client
      BY <1>2, <2>4 DEF Rotate, Mint, TypeInv, RosterOK
    <3>2. c \in Client
      BY <3>1 DEF Client
    <3>3. Go(r, q)
      BY <2>4 DEF Rotate
    <3> HIDE DEF c
    <3>4. q \in RequestType /\ Ready(q)
      BY <3>2 DEF Idle, RequestType, Ready, Kind
    <3> QED BY <3>3, <3>4, GoTyped DEF TypeInv
  <2> QED BY <2>1, <2>2, <2>3, <2>4 DEF RosterRequest
<1> QED BY <1>1, <1>3
        DEF RosterRequest, TypeInv, SweepOK, RosterOK, RouteOK, ProxyOK, Served, proxyVars, routeVars

LEMMA RosterWriteTyped ==
    ASSUME TypeInv, NEW r \in Requests, PutBack(r) \/ Rebuild(r)
    PROVE  TypeInv'
<1>1. CASE PutBack(r)
  <2>1. req[r].name \in Names /\ req[r].client \in Client \cup {None}
    BY <1>1 DEF PutBack, Reached, TypeInv, ReqOK, Ready, RequestType
  <2>2. RosterOK'
    BY <1>1, <2>1, PutTyped DEF PutBack, TypeInv, RosterOK
  <2>3. ReqOK'
    BY <1>1, ToTyped, DoneTyped DEF PutBack, TypeInv
  <2> QED BY <1>1, <2>2, <2>3
          DEF PutBack, TypeInv, SweepOK, RouteOK, ProxyOK, Served, proxyVars, routeVars
<1>2. CASE Rebuild(r)
  <2>1. ReqOK' /\ ProxyOK' /\ faults' \in Nat
    BY <1>2, RebuiltTyped, DoneTyped DEF Rebuild, TypeInv
  <2> QED BY <1>2, <2>1 DEF Rebuild, TypeInv, SweepOK, RosterOK, RouteOK, rosterVars, routeVars
<1> QED BY <1>1, <1>2

LEMMA SettingsTyped ==
    ASSUME TypeInv, NEW r \in Requests,
           Settings(r) \/ SyncSettings(r) \/ SaveSettings(r)
    PROVE  TypeInv'
<1>0. /\ \A s \in Setting, o \in Outs \cup {None}, q \in Ports : Assigned(s, o, q) \in Setting
      /\ \A s \in Setting : s.out \in Outs \cup {None} /\ s.port \in Ports
  BY DEF Setting, Assigned
<1>1. CASE Settings(r)
  <2>1. PICK o \in active.outs \cup {None}, p \in Ports :
           /\ Go(r, [Idle EXCEPT !.at = "sync", !.kind = "settings", !.prev = set,
                       !.copy = Assigned(set, o, p)])
           /\ set' = Assigned(set, o, p)
    BY <1>1 DEF Settings
  <2> DEFINE q == [Idle EXCEPT !.at = "sync", !.kind = "settings", !.prev = set,
                     !.copy = Assigned(set, o, p)]
  <2>2. Assigned(set, o, p) \in Setting /\ set \in Setting
    BY <1>0 DEF TypeInv, RouteOK, Config
  <2>3. q \in RequestType /\ Ready(q)
    BY <2>2 DEF Idle, RequestType, Ready, Kind
  <2>4. ReqOK'
    BY <2>1, <2>3, GoTyped DEF TypeInv
  <2> QED BY <1>1, <2>1, <2>2, <2>4
          DEF Settings, TypeInv, SweepOK, RosterOK, RouteOK, ProxyOK, Served, rosterVars, proxyVars
<1>2. CASE SyncSettings(r)
  <2>1. req[r].copy \in Setting /\ req[r].prev \in Setting
    BY <1>2 DEF SyncSettings, Reached, TypeInv, ReqOK, Ready
  <2>2. active' \in Config /\ faults' \in Nat
    BY <1>2, <2>1, SyncedTyped DEF SyncSettings, TypeInv
  <2>3. set' \in Setting
    BY <1>0, <1>2, <2>1 DEF SyncSettings, TypeInv, RouteOK
  <2>4. ReqOK'
    <3> DEFINE q == [req[r] EXCEPT !.at = "save"]
    <3>1. q \in RequestType /\ Ready(q)
      BY <2>1 DEF TypeInv, ReqOK, RequestType, Ready
    <3> QED BY <1>2, <3>1, GoTyped, DoneTyped DEF SyncSettings, To, TypeInv
  <2> QED BY <1>2, <2>2, <2>3, <2>4
          DEF SyncSettings, TypeInv, SweepOK, RosterOK, RouteOK, ProxyOK, Served, rosterVars, proxyVars
<1>3. CASE SaveSettings(r)
  <2>1. set' \in Setting /\ setDisk' \in Setting /\ faults' \in Nat
    BY <1>3, FaultCounts DEF SaveSettings, Saved, NoFault, TypeInv, RouteOK, RosterOK
  <2>2. ReqOK'
    BY <1>3, ToTyped, DoneTyped DEF SaveSettings, TypeInv
  <2> QED BY <1>3, <2>1, <2>2
          DEF SaveSettings, TypeInv, SweepOK, RosterOK, RouteOK, ProxyOK, Served, rosterVars, proxyVars
<1> QED BY <1>1, <1>2, <1>3

LEMMA SwitchTyped ==
    ASSUME TypeInv, NEW r \in Requests,
           Enable(r) \/ SyncEnable(r) \/ Start(r) \/ Stop(r) \/ Persist(r)
    PROVE  TypeInv'
<1>1. CASE Enable(r)
  <2> DEFINE q == [Idle EXCEPT !.at = "sync", !.kind = "enable", !.copy = set]
  <2>1. q \in RequestType /\ Ready(q)
    BY DEF Idle, RequestType, Ready, Kind, TypeInv, RouteOK
  <2>2. ReqOK'
    BY <1>1, <2>1, GoTyped DEF Enable, TypeInv
  <2> QED BY <1>1, <2>2 DEF Enable, TypeInv, SweepOK, RosterOK, RouteOK, ProxyOK, Served,
                            rosterVars, proxyVars, routeVars
<1>2. CASE SyncEnable(r)
  <2>1. req[r].copy \in Setting
    BY <1>2 DEF SyncEnable, Reached, TypeInv, ReqOK, Ready
  <2>2. active' \in Config /\ faults' \in Nat
    BY <1>2, <2>1, SyncedTyped DEF SyncEnable, TypeInv
  <2>3. ReqOK'
    <3> DEFINE q == [req[r] EXCEPT !.at = "start", !.copy = set]
    <3>1. q \in RequestType /\ Ready(q)
      BY DEF TypeInv, ReqOK, RequestType, Ready, RouteOK
    <3> QED BY <1>2, <3>1, GoTyped, DoneTyped DEF SyncEnable, TypeInv
  <2> QED BY <1>2, <2>2, <2>3
          DEF SyncEnable, TypeInv, SweepOK, RosterOK, RouteOK, ProxyOK, Served, rosterVars, proxyVars
<1>3. CASE Start(r)
  <2>1. Via(req[r].copy) \in Ports \cup {None}
    BY <1>3 DEF Start, Reached, Via, TypeInv, ReqOK, Ready, Setting
  <2>2. ProxyOK' /\ faults' \in Nat
    BY <1>3, <2>1, StartedTyped DEF Start, NoFault, TypeInv, ProxyOK, Served, proxyVars, RosterOK
  <2>3. ReqOK'
    BY <1>3, ToTyped, DoneTyped DEF Start, TypeInv
  <2> QED BY <1>3, <2>2, <2>3 DEF Start, TypeInv, SweepOK, RosterOK, RouteOK, rosterVars, routeVars
<1>4. CASE Stop(r)
  <2> DEFINE q == [Idle EXCEPT !.at = "persist", !.kind = "disable"]
  <2>1. q \in RequestType /\ Ready(q)
    BY DEF Idle, RequestType, Ready, Kind
  <2>2. ReqOK'
    BY <1>4, <2>1, GoTyped DEF Stop, TypeInv
  <2> QED BY <1>4, <2>2 DEF Stop, TypeInv, SweepOK, RosterOK, RouteOK, ProxyOK, Served,
                            rosterVars, routeVars
<1>5. CASE Persist(r)
  <2>1. set' \in Setting /\ setDisk' \in Setting /\ faults' \in Nat
    <3>1. set' \in Setting
      BY <1>5 DEF Persist, TypeInv, RouteOK, Setting
    <3> QED BY <1>5, <3>1, FaultCounts DEF Persist, Saved, NoFault, TypeInv, RouteOK, RosterOK
  <2>2. ReqOK'
    BY <1>5, DoneTyped DEF Persist, TypeInv
  <2> QED BY <1>5, <2>1, <2>2
          DEF Persist, TypeInv, SweepOK, RosterOK, RouteOK, ProxyOK, Served, rosterVars, proxyVars
<1> QED BY <1>1, <1>2, <1>3, <1>4, <1>5

-----------------------------------------------------------------------------
(* Type correctness of the other steps.                                      *)

LEMMA DraftTyped == ASSUME TypeInv, Stage \/ Discard \/ Apply PROVE TypeInv'
<1>1. faults' \in Nat
  BY FaultCounts DEF Stage, Discard, Apply, NoFault, TypeInv, RosterOK
<1>2. active' \in Config /\ draft' \in Config \cup {None}
  <2>1. CASE Stage
    <3>1. PICK rule \in {active.rule, None}, taken \in {active.taken, {}} \cup {{p} : p \in Ports},
               outs \in IF "exits" \in Faults THEN SUBSET active.outs ELSE {active.outs} :
             draft' = [active EXCEPT !.rule = rule, !.taken = taken, !.outs = outs]
      BY <2>1 DEF Stage
    <3>2. /\ active \in Config /\ rule \in Outs \cup {None} /\ taken \subseteq Ports
          /\ outs \subseteq Outs
      BY <3>1 DEF TypeInv, RouteOK, Config
    <3>3. draft' \in Config
      BY <3>1, <3>2 DEF Config
    <3> QED BY <2>1, <3>3 DEF Stage, TypeInv, RouteOK
  <2>2. CASE Discard
    BY <2>2 DEF Discard, TypeInv, RouteOK
  <2>3. CASE Apply
    <3>1. draft \in Config /\ set \in Setting
      BY <2>3 DEF Apply, TypeInv, RouteOK
    <3>2. WithManaged(draft, Wanted(set)) \in Config
      BY <3>1 DEF WithManaged, Wanted, Setting, Config
    <3> QED BY <2>3, <3>1, <3>2 DEF Apply
  <2> QED BY <2>1, <2>2, <2>3
<1> QED BY <1>1, <1>2 DEF Stage, Discard, Apply, TypeInv, ReqOK, SweepOK, RosterOK, RouteOK,
                          ProxyOK, Served, rosterVars, proxyVars

LEMMA SweepTyped == ASSUME TypeInv, Lapse \/ SweepStep PROVE TypeInv'
<1>0. Asleep.at = "idle" /\ Asleep.changed = FALSE
  BY DEF Asleep
<1>1. CASE Lapse
  BY <1>1 DEF Lapse, TypeInv, ReqOK, SweepOK, RosterOK, RouteOK, ProxyOK, Served,
              rosterVars, proxyVars, routeVars
<1>2. CASE SweepList
  <2> DEFINE left == [n \in ToDisable |-> [mem[n] EXCEPT !.enabled = FALSE]]
  <2>1. DOMAIN left = ToDisable /\ ToDisable \subseteq Names
    BY DEF ToDisable
  <2>2. \A n \in ToDisable : left[n] \in Client
    BY DEF ToDisable, TypeInv, RosterOK, Client
  <2> HIDE DEF left
  <2>3. sweep' = [at |-> "put", changed |-> FALSE, left |-> left]
    BY <1>2 DEF SweepList, left
  <2>4. SweepOK'
    BY <2>1, <2>2, <2>3 DEF SweepOK
  <2> QED BY <1>2, <2>4 DEF SweepList, TypeInv, ReqOK, RosterOK, RouteOK, ProxyOK, Served,
                            rosterVars, proxyVars, routeVars
<1>3. CASE SweepPut
  <2>1. PICK n \in DOMAIN sweep.left :
          /\ Put(n, sweep.left[n])
          /\ LET left == [m \in DOMAIN sweep.left \ {n} |-> sweep.left[m]]
                 ch   == sweep.changed \/ faults' = faults
             IN  sweep' = IF DOMAIN left # {} THEN [at |-> "put", left |-> left, changed |-> ch]
                          ELSE IF ch THEN [Asleep EXCEPT !.at = "rebuild"]
                          ELSE Asleep
    BY <1>3 DEF SweepPut
  <2>2. n \in Names /\ sweep.left[n] \in Client
    BY <1>3 DEF SweepPut, TypeInv, SweepOK
  <2>3. RosterOK'
    BY <1>3, <2>1, <2>2, PutTyped DEF SweepPut, TypeInv, RosterOK
  <2>4. SweepOK'
    <3> DEFINE left == [m \in DOMAIN sweep.left \ {n} |-> sweep.left[m]]
    <3>1. DOMAIN left \subseteq Names /\ \A m \in DOMAIN left : left[m] \in Client
      BY <1>3 DEF SweepPut, TypeInv, SweepOK
    <3> QED BY <1>0, <2>1, <3>1 DEF SweepOK, TypeInv, Asleep
  <2> QED BY <1>3, <2>3, <2>4 DEF SweepPut, TypeInv, ReqOK, RouteOK, ProxyOK, Served,
                                  proxyVars, routeVars
<1>4. CASE SweepRebuild
  <2>1. ProxyOK' /\ faults' \in Nat
    BY <1>4, RebuiltTyped DEF SweepRebuild, TypeInv
  <2> QED BY <1>0, <1>4, <2>1 DEF SweepRebuild, TypeInv, ReqOK, SweepOK, RosterOK, RouteOK,
                            rosterVars, routeVars
<1> QED BY <1>1, <1>2, <1>3, <1>4 DEF SweepStep

LEMMA TrafficTyped ==
    ASSUME TypeInv, Drain \/ Upsert \/ \E n \in Names : Traffic(n)
    PROVE  TypeInv'
<1>1. faults' \in Nat
  BY FaultCounts DEF Drain, Upsert, Traffic, NoFault, TypeInv, RosterOK
<1> QED BY <1>1 DEF Drain, Upsert, Traffic, TypeInv, ReqOK, SweepOK, RosterOK, RouteOK,
                    ProxyOK, Served, rosterVars, proxyVars, routeVars

LEMMA IdleTyped ==
    /\ \A r \in Requests : [s \in Requests |-> Idle][r].at = "idle"
    /\ [s \in Requests |-> Idle] \in [Requests -> RequestType]
    /\ Ready(Idle) /\ Asleep.at = "idle" /\ Asleep.changed = FALSE
BY DEF Idle, RequestType, Ready, Kind, Asleep

LEMMA BootTyped == ASSUME TypeInv, Boot PROVE TypeInv'
<1>1. ReqOK' /\ SweepOK'
  BY IdleTyped DEF Boot, ReqOK, SweepOK
<1>2. RosterOK'
  BY FaultCounts DEF Boot, TypeInv, RosterOK
<1>3. RouteOK'
  <2>1. WithManaged(active, Wanted(setDisk)) \in Config
    BY DEF TypeInv, RouteOK, WithManaged, Wanted, Setting, Config
  <2> QED BY <2>1 DEF Boot, TypeInv, RouteOK
<1>4. ProxyOK'
  <2> DEFINE on == {n \in Names : disk[n] # None /\ disk[n].enabled /\ ~Expired(disk[n])}
  <2>1. Via(setDisk) \in Ports \cup {None}
    BY DEF TypeInv, RouteOK, Via, Setting
  <2>2. on \subseteq Names
    OBVIOUS
  <2>3. CASE on # {} /\ proxy' = [n \in on |-> disk[n].secret] /\ cfg' = Via(setDisk)
    <3> HIDE DEF on
    <3>1. DOMAIN proxy' = on
      BY <2>3
    <3> QED BY <2>1, <2>2, <2>3, <3>1 DEF ProxyOK, Served
  <2>4. CASE proxy' = None /\ cfg' = None
    BY <2>4 DEF ProxyOK, Served
  <2> QED BY <2>3, <2>4 DEF Boot
<1> QED BY <1>1, <1>2, <1>3, <1>4 DEF TypeInv

LEMMA InitTyped == TeleInit => TypeInv
<1> SUFFICES ASSUME TeleInit PROVE TypeInv
  OBVIOUS
<1> USE TelegramAssumption
<1>1. ReqOK /\ SweepOK
  BY IdleTyped DEF TeleInit, ReqOK, SweepOK
<1>2. RosterOK /\ ProxyOK
  BY DEF TeleInit, RosterOK, ProxyOK, Served
<1>3. set \in Setting
  <2>1. (CHOOSE p \in Ports : TRUE) \in Ports
    OBVIOUS
  <2> QED BY <2>1 DEF TeleInit, Setting
<1>4. RouteOK
  BY <1>3 DEF TeleInit, RouteOK, Config
<1> QED BY <1>1, <1>2, <1>4 DEF TypeInv

LEMMA StepTyped == TypeInv /\ [TeleNext]_teleVars => TypeInv'
<1> SUFFICES ASSUME TypeInv, [TeleNext]_teleVars PROVE TypeInv'
  OBVIOUS
<1>1. CASE UNCHANGED teleVars
  BY <1>1 DEF teleVars, TypeInv, ReqOK, SweepOK, RosterOK, RouteOK, ProxyOK, Served,
              rosterVars, proxyVars, routeVars
<1>2. CASE TeleNext
  BY <1>2, RosterRequestTyped, RosterWriteTyped, SettingsTyped, SwitchTyped, DraftTyped,
     SweepTyped, TrafficTyped, BootTyped DEF TeleNext, RequestStep
<1> QED BY <1>1, <1>2

\* The Telegram proxy's roster, settings, routing and proxy keep their types
\* through every request, sweep, failure and restart.
THEOREM TelegramTyped == TeleSpec => []TeleTypeOK
<1>1. TypeInv => TeleTypeOK
  BY DEF TypeInv, RosterOK, RouteOK, ProxyOK, TeleTypeOK
<1> QED BY <1>1, InitTyped, StepTyped, PTL DEF TeleSpec

-----------------------------------------------------------------------------
(* The roster a proxy serves.                                                *)

\* Somebody is on the way to rebuild.
Behind == sweep.changed \/ sweep.at = "rebuild" \/ \E r \in Requests : req[r].at = "rebuild"

Matches ==
    proxy # None =>
        /\ Active \subseteq Served
        /\ \A n \in Served : mem[n] # None /\ mem[n].enabled /\ mem[n].secret = proxy[n]

ServeInv == TypeInv /\ (Behind \/ Matches)

LEMMA ServeShown == ServeInv => ServesRoster
BY DEF ServeInv, Behind, Matches, ServesRoster, Quiet, Idle, Asleep

LEMMA StartedMatches ==
    ASSUME NEW via, Started(via), UNCHANGED <<now, mem>>
    PROVE  Matches'
<1>1. Active' = Active
  BY DEF Active, Expired
<1>2. CASE proxy' = None
  BY <1>2 DEF Matches
<1>3. CASE proxy' # None /\ proxy' = [n \in Active |-> mem[n].secret]
  <2>1. Served' = Active
    BY <1>3 DEF Served
  <2>2. \A n \in Active : mem'[n] # None /\ mem'[n].enabled /\ mem'[n].secret = proxy'[n]
    BY <1>3 DEF Active
  <2> QED BY <1>1, <2>1, <2>2 DEF Matches
<1> QED BY <1>2, <1>3 DEF Started, NotStarted

LEMMA RebuiltMatches ==
    ASSUME Rebuilt, UNCHANGED <<now, mem>>
    PROVE  Matches'
<1>1. CASE proxy = None
  BY <1>1 DEF Rebuilt, proxyVars, Matches
<1>2. CASE proxy # None
  BY <1>2, StartedMatches DEF Rebuilt
<1> QED BY <1>1, <1>2

\* A step that leaves the roster and the proxy, and calls nobody off.
LEMMA Elsewhere ==
    ASSUME Behind \/ Matches, UNCHANGED <<now, mem, proxy>>, Behind => Behind'
    PROVE  Behind' \/ Matches'
BY DEF Matches, Active, Served, Expired

\* A request that was not about to rebuild moves on or ends.
LEMMA StillBehind ==
    ASSUME ReqOK, NEW r \in Requests, req[r].at # "rebuild", UNCHANGED sweep,
           \A s \in Requests \ {r} : req'[s] = req[s]
    PROVE  Behind => Behind'
BY DEF Behind

LEMMA OnlyOne ==
    ASSUME ReqOK, NEW r \in Requests, NEW q, Go(r, q)
    PROVE  \A s \in Requests \ {r} : req'[s] = req[s]
BY DEF ReqOK, Go

LEMMA RequestServes ==
    ASSUME ServeInv, NEW r \in Requests,
           \/ \E n \in Names : RosterRequest(r, n)
           \/ Settings(r) \/ Enable(r) \/ Stop(r) \/ RequestStep(r)
    PROVE  Behind' \/ Matches'
<1>0. ReqOK /\ RosterOK /\ (Behind \/ Matches)
  BY DEF ServeInv, TypeInv
<1>1. ASSUME NEW n \in Names, RosterRequest(r, n) PROVE Behind' \/ Matches'
  <2>0. \E k : Open(r, k)
    BY <1>1 DEF RosterRequest, Create, Delete, Update, Rotate
  <2>1. req[r].at # "rebuild"
    BY <2>0 DEF Open, Idle
  <2>2. \A s \in Requests \ {r} : req'[s] = req[s]
    <3>1. CASE Create(r, n)
      BY <1>0, <3>1, OnlyOne DEF Create
    <3>2. CASE Delete(r, n)
      BY <1>0, <3>2, OnlyOne DEF Delete
    <3>3. CASE Update(r, n)
      BY <1>0, <3>3, OnlyOne DEF Update
    <3>4. CASE Rotate(r, n)
      BY <1>0, <3>4, OnlyOne DEF Rotate
    <3> QED BY <1>1, <3>1, <3>2, <3>3, <3>4 DEF RosterRequest
  <2>3. UNCHANGED <<now, mem, proxy, sweep>>
    BY <1>1 DEF RosterRequest, proxyVars
  <2> QED BY <1>0, <2>1, <2>2, <2>3, StillBehind, Elsewhere
<1>2. CASE PutBack(r)
  <2>1. req[r].at # "rebuild" /\ UNCHANGED <<now, proxy, sweep>>
    BY <1>2 DEF PutBack, Reached, proxyVars
  <2>2. CASE faults' = faults
    <3>1. req'[r].at = "rebuild"
      BY <1>0, <1>2, <2>2, ToTyped DEF PutBack
    <3> QED BY <3>1 DEF Behind
  <2>3. CASE faults' # faults
    <3>1. req[r].name \in Names /\ req[r].client \in Client \cup {None}
      BY <1>0, <1>2 DEF PutBack, Reached, ReqOK, Ready, RequestType
    <3>2. UNCHANGED mem
      BY <1>0, <1>2, <2>3, <3>1, PutTyped DEF PutBack
    <3>3. \A s \in Requests \ {r} : req'[s] = req[s]
      BY <1>0, <1>2, <2>3, OnlyOne DEF PutBack, Done
    <3> QED BY <1>0, <2>1, <3>2, <3>3, StillBehind, Elsewhere
  <2> QED BY <2>2, <2>3
<1>3. CASE Rebuild(r)
  BY <1>3, RebuiltMatches DEF Rebuild, rosterVars
<1>4. CASE Settings(r) \/ SyncSettings(r) \/ SaveSettings(r) \/ Enable(r) \/ SyncEnable(r) \/ Persist(r)
  <2>0. Idle.at = "idle"
    BY DEF Idle
  <2>1. req[r].at # "rebuild" /\ UNCHANGED <<now, mem, proxy, sweep>>
    <3>1. CASE Settings(r) \/ Enable(r)
      BY <2>0, <3>1 DEF Settings, Enable, Open, rosterVars, proxyVars
    <3>2. CASE SyncSettings(r) \/ SaveSettings(r)
      BY <3>2 DEF SyncSettings, SaveSettings, Reached, rosterVars, proxyVars
    <3>3. CASE SyncEnable(r) \/ Persist(r)
      BY <3>3 DEF SyncEnable, Persist, Reached, rosterVars, proxyVars
    <3> QED BY <1>4, <3>1, <3>2, <3>3
  <2>2. \A s \in Requests \ {r} : req'[s] = req[s]
    BY <1>0, <1>4, OnlyOne
       DEF Settings, SyncSettings, SaveSettings, Enable, SyncEnable, Persist, To, Done
  <2> QED BY <1>0, <2>1, <2>2, StillBehind, Elsewhere
<1>5. CASE Start(r)
  <2>1. CASE proxy # None
    <3>1. req[r].at # "rebuild" /\ UNCHANGED <<now, mem, proxy, sweep>>
      BY <1>5, <2>1 DEF Start, Reached, rosterVars, proxyVars
    <3>2. \A s \in Requests \ {r} : req'[s] = req[s]
      BY <1>0, <1>5, <2>1, OnlyOne DEF Start, Done
    <3> QED BY <1>0, <3>1, <3>2, StillBehind, Elsewhere
  <2>2. CASE proxy = None
    BY <1>5, <2>2, StartedMatches DEF Start, rosterVars
  <2> QED BY <2>1, <2>2
<1>6. CASE Stop(r)
  BY <1>6 DEF Stop, Matches
<1> QED BY <1>1, <1>2, <1>3, <1>4, <1>5, <1>6 DEF RequestStep

LEMMA SweepServes ==
    ASSUME ServeInv, Lapse \/ SweepStep
    PROVE  Behind' \/ Matches'
<1>0. SweepOK /\ RosterOK /\ (Behind \/ Matches)
  BY DEF ServeInv, TypeInv
<1>1. CASE Lapse
  <2>1. UNCHANGED <<mem, proxy, sweep, req>> /\ now = 0 /\ now' = 1
    BY <1>1 DEF Lapse, rosterVars, proxyVars
  <2>2. Behind => Behind'
    BY <2>1 DEF Behind
  <2>3. Active' \subseteq Active
    BY <1>0, <2>1 DEF Active, Expired, RosterOK, Client
  <2>4. Matches => Matches'
    BY <2>1, <2>3 DEF Matches, Served
  <2> QED BY <1>0, <2>2, <2>4
<1>2. CASE SweepList
  <2>1. UNCHANGED <<now, mem, proxy, req>> /\ sweep.at # "rebuild"
    BY <1>2 DEF SweepList, rosterVars, proxyVars
  <2>2. ~sweep.changed
    BY <1>0, <1>2 DEF SweepList, SweepOK
  <2>3. Behind => Behind'
    BY <2>1, <2>2 DEF Behind
  <2> QED BY <1>0, <2>1, <2>3, Elsewhere
<1>3. CASE SweepPut
  <2>1. PICK n \in DOMAIN sweep.left :
          /\ Put(n, sweep.left[n])
          /\ LET left == [m \in DOMAIN sweep.left \ {n} |-> sweep.left[m]]
                 ch   == sweep.changed \/ faults' = faults
             IN  sweep' = IF DOMAIN left # {} THEN [at |-> "put", left |-> left, changed |-> ch]
                          ELSE IF ch THEN [Asleep EXCEPT !.at = "rebuild"]
                          ELSE Asleep
    BY <1>3 DEF SweepPut
  <2>2. sweep.changed \/ faults' = faults => sweep'.changed \/ sweep'.at = "rebuild"
    BY <2>1 DEF Asleep
  <2>3. n \in Names /\ sweep.left[n] \in Client
    BY <1>0, <1>3 DEF SweepPut, SweepOK
  <2>4. CASE faults' = faults
    BY <2>2, <2>4 DEF Behind
  <2>5. CASE faults' # faults
    <3>1. UNCHANGED <<now, mem, proxy, req>> /\ sweep.at # "rebuild"
      BY <1>0, <1>3, <2>1, <2>3, <2>5, PutTyped DEF SweepPut, proxyVars
    <3>2. Behind => Behind'
      BY <2>2, <3>1 DEF Behind
    <3> QED BY <1>0, <3>1, <3>2, Elsewhere
  <2> QED BY <2>4, <2>5
<1>4. CASE SweepRebuild
  BY <1>4, RebuiltMatches DEF SweepRebuild, rosterVars
<1> QED BY <1>1, <1>2, <1>3, <1>4 DEF SweepStep

LEMMA OtherServes ==
    ASSUME ServeInv,
           \/ Stage \/ Discard \/ Apply \/ Drain \/ Upsert
           \/ (\E n \in Names : Traffic(n)) \/ UNCHANGED teleVars
    PROVE  Behind' \/ Matches'
<1>1. UNCHANGED <<now, mem, proxy, sweep, req>>
  BY DEF Stage, Discard, Apply, Drain, Upsert, Traffic, teleVars, rosterVars, proxyVars
<1>2. Behind => Behind'
  BY <1>1 DEF Behind
<1> QED BY <1>1, <1>2, Elsewhere DEF ServeInv

LEMMA BootServes ==
    ASSUME ServeInv, Boot
    PROVE  Matches'
<1> DEFINE on == {n \in Names : disk[n] # None /\ disk[n].enabled /\ ~Expired(disk[n])}
<1>1. Active' = on
  BY DEF Boot, Active, Expired
<1>2. CASE proxy' = None
  BY <1>2 DEF Matches
<1>3. CASE proxy' # None /\ proxy' = [n \in on |-> disk[n].secret]
  <2>1. Served' = on
    BY <1>3 DEF Served
  <2>2. \A n \in on : mem'[n] # None /\ mem'[n].enabled /\ mem'[n].secret = proxy'[n]
    BY <1>3 DEF Boot
  <2> QED BY <1>1, <2>1, <2>2 DEF Matches
<1> QED BY <1>2, <1>3 DEF Boot

\* Between requests a running proxy accepts exactly the clients the roster has
\* enabled, with their present secrets, whatever requests and sweeps overlap
\* and whichever write or start fails (Manager.Rebuild, SweepExpired).
THEOREM RosterIsServed == TeleSpec => []ServesRoster
<1>1. TeleInit => ServeInv
  BY InitTyped DEF TeleInit, ServeInv, Matches
<1>2. ServeInv /\ [TeleNext]_teleVars => ServeInv'
  <2> SUFFICES ASSUME ServeInv, [TeleNext]_teleVars PROVE ServeInv'
    OBVIOUS
  <2>1. TypeInv'
    BY StepTyped DEF ServeInv
  <2>2. Behind' \/ Matches'
    BY RequestServes, SweepServes, OtherServes, BootServes DEF TeleNext
  <2> QED BY <2>1, <2>2 DEF ServeInv
<1> QED BY <1>1, <1>2, ServeShown, PTL DEF TeleSpec

-----------------------------------------------------------------------------
(* The traffic a client is billed.                                           *)

CountInv ==
    /\ stored \in [Names -> Nat] /\ held \in [Names -> Nat]
    /\ pending \in [Names -> Nat] /\ carried \in [Names -> Nat]
    /\ BilledOnce

LEMMA NothingPending == NoBytes \in [Names -> Nat] /\ \A n \in Names : NoBytes[n] = 0
BY DEF NoBytes

\* A step that at most starts a new stream, which forgets what was not drained.
LEMMA NewStreamBills ==
    ASSUME CountInv, UNCHANGED <<stored, held, carried>>, pending' \in {pending, NoBytes}
    PROVE  CountInv'
<1>1. CASE pending' = pending
  BY <1>1 DEF CountInv, BilledOnce
<1>2. CASE pending' = NoBytes
  BY <1>2, NothingPending DEF CountInv, BilledOnce
<1> QED BY <1>1, <1>2

LEMMA TrafficBills ==
    ASSUME CountInv, Drain \/ Upsert \/ \E n \in Names : Traffic(n)
    PROVE  CountInv'
<1>1. CASE Drain
  BY <1>1, NothingPending DEF Drain, CountInv, BilledOnce
<1>2. CASE Upsert
  <2>1. PICK n \in Names :
          /\ held' = [held EXCEPT ![n] = 0]
          /\ \/ stored' = [stored EXCEPT ![n] = @ + held[n]]
             \/ UNCHANGED stored
    BY <1>2 DEF Upsert
  <2>2. UNCHANGED <<pending, carried>>
    BY <1>2 DEF Upsert
  <2> QED BY <2>1, <2>2 DEF CountInv, BilledOnce
<1>3. ASSUME NEW n \in Names, Traffic(n) PROVE CountInv'
  BY <1>3 DEF Traffic, CountInv, BilledOnce
<1> QED BY <1>1, <1>2, <1>3

LEMMA RequestBills ==
    ASSUME CountInv, NEW r \in Requests,
           \/ \E n \in Names : RosterRequest(r, n)
           \/ Settings(r) \/ Enable(r) \/ Stop(r) \/ RequestStep(r)
    PROVE  CountInv'
<1>1. \A via : Started(via) => pending' \in {pending, NoBytes}
  BY DEF Started, NotStarted
<1>2. Rebuilt => pending' \in {pending, NoBytes}
  BY <1>1 DEF Rebuilt
<1>3. CASE Rebuild(r) \/ Start(r)
  <2>1. UNCHANGED <<stored, held, carried>> /\ pending' \in {pending, NoBytes}
    BY <1>1, <1>2, <1>3 DEF Rebuild, Start
  <2> QED BY <2>1, NewStreamBills
<1>4. CASE \/ \E n \in Names : RosterRequest(r, n)
           \/ Settings(r) \/ Enable(r) \/ Stop(r)
           \/ PutBack(r) \/ SyncSettings(r) \/ SaveSettings(r) \/ SyncEnable(r) \/ Persist(r)
  <2>1. UNCHANGED trafficVars
    BY <1>4 DEF RosterRequest, Settings, Enable, Stop, PutBack, SyncSettings, SaveSettings,
                SyncEnable, Persist
  <2> QED BY <2>1, NewStreamBills DEF trafficVars
<1> QED BY <1>3, <1>4 DEF RequestStep

\* No unit of traffic is billed twice or to another client, for any overlap of
\* the flush with restarts of the proxy and with failed writes (DrainTotals).
THEOREM TrafficBilledOnce == TeleSpec => []BilledOnce
<1>1. TeleInit => CountInv
  BY NothingPending DEF TeleInit, CountInv, BilledOnce
<1>2. CountInv /\ [TeleNext]_teleVars => CountInv'
  <2> SUFFICES ASSUME CountInv, [TeleNext]_teleVars PROVE CountInv'
    OBVIOUS
  <2>1. CASE Boot
    BY <2>1, NothingPending DEF Boot, CountInv, BilledOnce
  <2>2. CASE UNCHANGED teleVars
    BY <2>2 DEF teleVars, trafficVars, CountInv, BilledOnce
  <2>3. CASE Stage \/ Discard \/ Apply \/ Lapse \/ SweepList \/ SweepPut
    <3>1. UNCHANGED trafficVars
      BY <2>3 DEF Stage, Discard, Apply, Lapse, SweepList, SweepPut
    <3> QED BY <3>1, NewStreamBills DEF trafficVars
  <2>4. CASE SweepRebuild
    <3>1. UNCHANGED <<stored, held, carried>> /\ pending' \in {pending, NoBytes}
      BY <2>4 DEF SweepRebuild, Rebuilt, Started, NotStarted
    <3> QED BY <3>1, NewStreamBills
  <2> QED BY <2>1, <2>2, <2>3, <2>4, TrafficBills, RequestBills DEF TeleNext, SweepStep
<1>3. CountInv => BilledOnce
  BY DEF CountInv
<1> QED BY <1>1, <1>2, <1>3, PTL DEF TeleSpec

-----------------------------------------------------------------------------
(* The managed pair and the settings.                                        *)
(*                                                                           *)
(* While settings requests overlap, the settings may be away from the        *)
(* configuration: then the request that took them away is still to sync, and *)
(* remembers the exit and port that the configuration has.                   *)

Pending(r) == req[r].at = "sync" /\ req[r].kind = "settings"

Remembered == \E r \in Requests : Pending(r) /\ Wanted(req[r].prev) = Managed(active)

InStep == ~stale => Managed(active) = Wanted(set) \/ Remembered

Free(c) == c.port # None => c.port \notin c.taken

PortsFree == Free(active) /\ (draft # None => Free(draft))

RoutingInv == TypeInv /\ PortsFree /\ InStep

LEMMA WantedOf ==
    /\ \A s, p \in Setting : Wanted(Assigned(s, p.out, p.port)) = Wanted(p)
    /\ \A s \in Setting, e \in BOOLEAN : Wanted([s EXCEPT !.on = e]) = Wanted(s)
    /\ \A c \in Config, s \in Setting :
          /\ WithManaged(c, Wanted(s)) \in Config /\ Managed(WithManaged(c, Wanted(s))) = Wanted(s)
          /\ WithManaged(c, Wanted(s)).port = Wanted(s).port /\ WithManaged(c, Wanted(s)).taken = c.taken
BY DEF Wanted, Assigned, Setting, Managed, WithManaged, Config

\* What a managed pair is written on stays free of conflict, and what is in
\* place conflicts with nothing.
LEMMA WrittenFree ==
    ASSUME NEW c \in Config, NEW s \in Setting, ~Conflict(c, Wanted(s))
    PROVE  Free(WithManaged(c, Wanted(s)))
BY WantedOf DEF Free, Conflict

LEMMA InPlace == ASSUME NEW c \in Config, NEW w, Free(c), Managed(c) = w PROVE ~Conflict(c, w)
BY DEF Free, Conflict, Managed

\* A sync leaves the ports free; it fails for a conflict, or by a fault.
LEMMA SyncedFree ==
    ASSUME TypeInv, PortsFree, NEW s \in Setting, NEW ok \in BOOLEAN, Synced(s, ok), UNCHANGED draft
    PROVE  /\ PortsFree'
           /\ ~ok => (active' = active /\ Conflict(active, Wanted(s))) \/ faults' # faults
<1>1. active \in Config /\ RosterOK BY DEF TypeInv, RouteOK
<1>2. active' \in {active, WithManaged(active, Wanted(s))}
      /\ (active' # active => ~Conflict(active, Wanted(s)))
  BY DEF Synced
<1>3. Free(active') BY <1>1, <1>2, WrittenFree DEF PortsFree
<1>4. PortsFree' BY <1>3 DEF PortsFree, Free
<1>5. ~ok => (active' = active /\ Conflict(active, Wanted(s))) \/ faults' # faults
  BY <1>1, FaultCounts DEF Synced
<1> QED BY <1>4, <1>5

\* A request that is not pending moves, the pair and the settings stay.
LEMMA Unmoved ==
    ASSUME InStep, stale' = stale, active' = active, Wanted(set') = Wanted(set),
           \A s \in Requests : Pending(s) => req'[s] = req[s]
    PROVE  InStep'
<1>1. Remembered => Remembered' BY DEF Remembered, Pending
<1>2. Wanted(set)' = Wanted(set) /\ Managed(active)' = Managed(active) BY DEF Wanted, Managed
<1> QED BY <1>1, <1>2, Zenon DEF InStep

LEMMA SettingsInStep ==
    ASSUME RoutingInv, NEW r \in Requests, Settings(r)
    PROVE  InStep' /\ PortsFree'
<1>1. PICK o \in active.outs \cup {None}, p \in Ports :
        Go(r, [Idle EXCEPT !.at = "sync", !.kind = "settings", !.prev = set, !.copy = Assigned(set, o, p)])
  BY DEF Settings
<1>2. UNCHANGED <<active, draft, stale>> /\ req[r] = Idle BY DEF Settings, Open
<1> DEFINE q == [Idle EXCEPT !.at = "sync", !.kind = "settings", !.prev = set, !.copy = Assigned(set, o, p)]
<1>3. q.at = "sync" /\ q.kind = "settings" /\ q.prev = set BY DEF Idle
<1>4. ~Pending(r) BY <1>2 DEF Pending, Idle
<1>5. req' = [req EXCEPT ![r] = q] /\ DOMAIN req = Requests BY <1>1 DEF Go, RoutingInv, TypeInv, ReqOK
<1> HIDE DEF q
<1>6. req'[r] = q /\ \A s \in Requests \ {r} : req'[s] = req[s] BY <1>5
<1>7. Remembered => Remembered' BY <1>2, <1>4, <1>6 DEF Remembered, Pending, Managed
<1>8. Managed(active) = Wanted(set) => Remembered'
  <2> SUFFICES ASSUME Managed(active) = Wanted(set) PROVE Remembered' OBVIOUS
  <2>1. Pending(r)' /\ Wanted(req'[r].prev) = Managed(active') BY <1>2, <1>3, <1>6 DEF Pending, Managed
  <2> QED BY <2>1 DEF Remembered, Managed
<1>9. InStep' BY <1>2, <1>7, <1>8, Zenon DEF InStep, RoutingInv
<1> QED BY <1>2, <1>9 DEF PortsFree, RoutingInv

\* The end of a sync that answered success.
LEMMA SucceededInStep ==
    ASSUME NEW r \in Requests, Overtaken(r) = (Wanted(req[r].copy) # Wanted(set)),
           AfterSync(r), UNCHANGED set
    PROVE  InStep'
<1>1. ~stale' => Wanted(req[r].copy) = Wanted(set) /\ Managed(active') = Wanted(req[r].copy)
  BY Zenon DEF AfterSync, Overtaken
<1>2. ~stale' => Managed(active') = Wanted(set') BY <1>1
<1> QED BY <1>2, Zenon DEF InStep, Managed, Wanted

LEMMA SyncSettingsInStep ==
    ASSUME RoutingInv, NEW r \in Requests, SyncSettings(r)
    PROVE  InStep' /\ PortsFree'
<1>1. req[r].copy \in Setting /\ req[r].prev \in Setting /\ set \in Setting /\ active \in Config
  BY DEF SyncSettings, Reached, RoutingInv, TypeInv, ReqOK, Ready, RouteOK
<1>2. UNCHANGED draft BY DEF SyncSettings
<1>3. CASE Synced(req[r].copy, TRUE) /\ AfterSync(r) /\ UNCHANGED set
  <2>1. PortsFree' BY <1>1, <1>2, <1>3, SyncedFree DEF RoutingInv
  <2> QED BY <1>3, <2>1, SucceededInStep DEF Overtaken
<1>4. CASE /\ Synced(req[r].copy, FALSE) /\ Done(r) /\ AfterFailed(r)
           /\ set' = Assigned(set, req[r].prev.out, req[r].prev.port)
  <2>1. /\ PortsFree'
        /\ (active' = active /\ Conflict(active, Wanted(req[r].copy))) \/ faults' # faults
    BY <1>1, <1>2, <1>4, SyncedFree DEF RoutingInv
  <2>2. ~stale' => ~stale /\ Wanted(req[r].copy) = Wanted(set) /\ faults' = faults
    BY <1>4, Zenon DEF AfterFailed, Overtaken
  <2>3. Wanted(set') = Wanted(req[r].prev) BY <1>1, <1>4, WantedOf
  <2> SUFFICES ASSUME ~stale' PROVE Managed(active') = Wanted(set') \/ Remembered'
    BY <2>1, Zenon DEF InStep, Managed, Wanted
  <2>4. active' = active /\ Managed(active) # Wanted(set)
    BY <1>1, <2>1, <2>2, InPlace DEF RoutingInv, PortsFree
  <2>5. PICK s \in Requests : Pending(s) /\ Wanted(req[s].prev) = Managed(active)
    BY <2>2, <2>4, Zenon DEF RoutingInv, InStep, Remembered
  <2>6. CASE s = r BY <2>3, <2>4, <2>5, <2>6
  <2>7. CASE s # r
    <3>1. req'[s] = req[s] BY <1>4, <2>7 DEF Done, Go, RoutingInv, TypeInv, ReqOK
    <3> QED BY <2>4, <2>5, <3>1 DEF Remembered, Pending, Managed
  <2> QED BY <2>6, <2>7
<1> QED BY <1>3, <1>4 DEF SyncSettings

LEMMA SyncEnableInStep ==
    ASSUME RoutingInv, NEW r \in Requests, SyncEnable(r)
    PROVE  InStep' /\ PortsFree'
<1>1. req[r].copy \in Setting /\ set \in Setting /\ active \in Config
  BY DEF SyncEnable, Reached, RoutingInv, TypeInv, ReqOK, Ready, RouteOK
<1>2. UNCHANGED <<draft, set>> /\ ~Pending(r) BY DEF SyncEnable, Pending
<1>3. CASE Synced(req[r].copy, TRUE) /\ AfterSync(r)
  <2>1. PortsFree' BY <1>1, <1>2, <1>3, SyncedFree DEF RoutingInv
  <2> QED BY <1>2, <1>3, <2>1, SucceededInStep DEF Overtaken
<1>4. CASE Synced(req[r].copy, FALSE) /\ Done(r) /\ AfterFailed(r)
  <2>1. /\ PortsFree'
        /\ (active' = active /\ Conflict(active, Wanted(req[r].copy))) \/ faults' # faults
    BY <1>1, <1>2, <1>4, SyncedFree DEF RoutingInv
  <2>2. ~stale' => ~stale /\ faults' = faults BY <1>4, Zenon DEF AfterFailed
  <2>3. \A s \in Requests : Pending(s) => req'[s] = req[s]
    BY <1>2, <1>4 DEF Done, Go, RoutingInv, TypeInv, ReqOK
  <2> SUFFICES ASSUME ~stale' PROVE Managed(active') = Wanted(set') \/ Remembered'
    BY <2>1, Zenon DEF InStep, Managed, Wanted
  <2>4. active' = active /\ (Managed(active) = Wanted(set) \/ Remembered)
    BY <2>1, <2>2, Zenon DEF RoutingInv, InStep
  <2>5. Remembered => Remembered' BY <2>3, <2>4 DEF Remembered, Pending, Managed
  <2> QED BY <1>2, <2>4, <2>5
<1> QED BY <1>3, <1>4 DEF SyncEnable

\* A pending request is left alone by the steps of others.
LEMMA OthersPend ==
    ASSUME TypeInv, NEW r \in Requests, ~Pending(r), NEW q, req' = [req EXCEPT ![r] = q]
    PROVE  \A s \in Requests : Pending(s) => req'[s] = req[s]
BY DEF TypeInv, ReqOK

LEMMA RequestInStep ==
    ASSUME RoutingInv, NEW r \in Requests,
           \/ \E n \in Names : RosterRequest(r, n)
           \/ Settings(r) \/ Enable(r) \/ Stop(r) \/ RequestStep(r)
    PROVE  InStep' /\ PortsFree'
<1>0. TypeInv /\ InStep /\ PortsFree /\ set \in Setting BY DEF RoutingInv, TypeInv, RouteOK
<1>1. ASSUME ~Pending(r), NEW q, req' = [req EXCEPT ![r] = q], UNCHANGED <<active, draft, stale>>,
             Wanted(set') = Wanted(set)
      PROVE  InStep' /\ PortsFree'
  <2>1. InStep' BY <1>0, <1>1, OthersPend, Unmoved
  <2> QED BY <1>0, <1>1, <2>1 DEF PortsFree, Free
<1>2. ASSUME NEW n \in Names, RosterRequest(r, n) PROVE InStep' /\ PortsFree'
  <2>1. PICK q : req' = [req EXCEPT ![r] = q]
    BY <1>2 DEF RosterRequest, Create, Delete, Update, Rotate, Go
  <2>2. req[r] = Idle /\ UNCHANGED <<active, draft, stale, set>>
    BY <1>2 DEF RosterRequest, Create, Delete, Update, Rotate, Open, routeVars
  <2>3. ~Pending(r) BY <2>2 DEF Pending, Idle
  <2> QED BY <1>1, <2>1, <2>2, <2>3
<1>3. CASE Enable(r) \/ Stop(r)
  <2>1. PICK q : req' = [req EXCEPT ![r] = q] BY <1>3 DEF Enable, Stop, Go
  <2>2. req[r] = Idle /\ UNCHANGED <<active, draft, stale, set>> BY <1>3 DEF Enable, Stop, Open, routeVars
  <2>3. ~Pending(r) BY <2>2 DEF Pending, Idle
  <2> QED BY <1>1, <2>1, <2>2, <2>3
<1>4. CASE PutBack(r) \/ Rebuild(r) \/ SaveSettings(r) \/ Start(r)
  <2>1. PICK q : req' = [req EXCEPT ![r] = q]
    BY <1>4 DEF PutBack, Rebuild, SaveSettings, Start, To, Done, Go
  <2>2. ~Pending(r) BY <1>4 DEF PutBack, Rebuild, SaveSettings, Start, Reached, Pending
  <2>3. UNCHANGED <<active, draft, stale, set>> BY <1>4 DEF PutBack, Rebuild, SaveSettings, Start, routeVars
  <2> QED BY <1>1, <2>1, <2>2, <2>3
<1>5. CASE Persist(r)
  <2>1. req' = [req EXCEPT ![r] = Idle] /\ ~Pending(r) /\ UNCHANGED <<active, draft, stale>>
    BY <1>5 DEF Persist, Done, Go, Reached, Pending
  <2>2. Wanted(set') = Wanted(set)
    <3> DEFINE e == req[r].kind = "enable"
    <3>1. e \in BOOLEAN /\ set' = [set EXCEPT !.on = e] BY <1>5 DEF Persist
    <3> HIDE DEF e
    <3> QED BY <1>0, <3>1 DEF Wanted, Setting
  <2> QED BY <1>1, <2>1, <2>2
<1> QED BY <1>2, <1>3, <1>4, <1>5, SettingsInStep, SyncSettingsInStep, SyncEnableInStep DEF RequestStep

LEMMA DraftInStep ==
    ASSUME RoutingInv, Stage \/ Discard \/ Apply
    PROVE  InStep' /\ PortsFree'
<1>0. TypeInv /\ InStep /\ PortsFree /\ set \in Setting /\ active \in Config
  BY DEF RoutingInv, TypeInv, RouteOK
<1>1. CASE Stage
  <2>1. PICK rule \in {active.rule, None}, taken \in {active.taken, {}} \cup {{p} : p \in Ports},
             outs \in IF "exits" \in Faults THEN SUBSET active.outs ELSE {active.outs} :
          /\ active.port = None \/ active.port \notin taken
          /\ draft' = [active EXCEPT !.rule = rule, !.taken = taken, !.outs = outs]
    BY <1>1 DEF Stage
  <2>2. draft'.port = active.port /\ draft'.taken = taken BY <1>0, <2>1 DEF Config
  <2>3. UNCHANGED <<active, set, stale, req>> BY <1>1 DEF Stage
  <2>4. PortsFree' BY <1>0, <2>1, <2>2, <2>3 DEF PortsFree, Free
  <2> QED BY <1>0, <2>3, <2>4, Unmoved
<1>2. CASE Discard
  <2>1. UNCHANGED <<active, set, stale, req>> /\ draft' = None BY <1>2 DEF Discard
  <2> QED BY <1>0, <2>1, Unmoved DEF PortsFree, Free
<1>3. CASE Apply
  <2>1. draft # None /\ draft \in Config /\ draft' = None /\ set' = set
    BY <1>3 DEF Apply, RoutingInv, TypeInv, RouteOK
  <2>2. CASE ~Conflict(draft, Wanted(set)) /\ active' = WithManaged(draft, Wanted(set))
    <3>1. Managed(active') = Wanted(set') /\ Free(active')
      BY <1>0, <2>1, <2>2, WantedOf, WrittenFree
    <3>2. InStep' BY <3>1 DEF InStep, Managed, Wanted
    <3>3. PortsFree' BY <2>1, <3>1 DEF PortsFree, Free
    <3> QED BY <3>2, <3>3
  <2>3. CASE active' = draft /\ stale' = TRUE
    <3>1. InStep' BY <2>3 DEF InStep
    <3>2. Free(active') BY <1>0, <2>1, <2>3 DEF PortsFree
    <3>3. PortsFree' BY <2>1, <3>2 DEF PortsFree, Free
    <3> QED BY <3>1, <3>3
  <2> QED BY <1>3, <2>2, <2>3 DEF Apply
<1> QED BY <1>1, <1>2, <1>3

LEMMA BootInStep ==
    ASSUME RoutingInv, Boot
    PROVE  InStep' /\ PortsFree'
<1>1. active \in Config /\ setDisk \in Setting /\ Free(active) BY DEF RoutingInv, TypeInv, RouteOK, PortsFree
<1>2. set' = setDisk /\ draft' = None BY DEF Boot
<1>3. CASE Conflict(active, Wanted(setDisk))
  <2>1. active' = active /\ stale' = TRUE BY <1>3 DEF Boot
  <2> QED BY <1>1, <1>2, <2>1 DEF InStep, PortsFree, Free
<1>4. CASE ~Conflict(active, Wanted(setDisk))
  <2>1. active' = WithManaged(active, Wanted(setDisk)) BY <1>4 DEF Boot
  <2>2. Managed(active') = Wanted(set') /\ Free(active') BY <1>1, <1>2, <1>4, <2>1, WantedOf, WrittenFree
  <2> QED BY <1>2, <2>2 DEF InStep, Managed, Wanted, PortsFree, Free
<1> QED BY <1>3, <1>4

\* Between requests the inbound and the rule in config.json are what the
\* settings call for, unless a sync was deferred, overtaken or not written,
\* however settings requests overlap with each other, with drafts, applies and
\* restarts (UpdateMtprotoSettings, SyncMtprotoSocksActive).
THEOREM RoutingFollows == TeleSpec => []RoutingMatchesSettings
<1>1. TeleInit => RoutingInv
  <2> SUFFICES ASSUME TeleInit PROVE RoutingInv OBVIOUS
  <2>1. Managed(active) = Wanted(set) BY DEF TeleInit, Managed, Wanted
  <2>2. PortsFree BY DEF TeleInit, PortsFree, Free
  <2> QED BY <2>1, <2>2, InitTyped DEF RoutingInv, InStep
<1>2. RoutingInv /\ [TeleNext]_teleVars => RoutingInv'
  <2> SUFFICES ASSUME RoutingInv, [TeleNext]_teleVars PROVE RoutingInv'
    OBVIOUS
  <2>1. TypeInv' BY StepTyped DEF RoutingInv
  <2>2. CASE \/ Lapse \/ SweepStep \/ Drain \/ Upsert \/ (\E n \in Names : Traffic(n))
             \/ UNCHANGED teleVars
    <3>1. UNCHANGED <<set, active, draft, stale, req>>
      BY <2>2 DEF Lapse, SweepStep, SweepList, SweepPut, SweepRebuild, Drain, Upsert, Traffic,
                  teleVars, routeVars
    <3>2. InStep' BY <3>1, Unmoved DEF RoutingInv
    <3> QED BY <2>1, <3>1, <3>2 DEF RoutingInv, PortsFree, Free
  <2> QED BY <2>1, <2>2, RequestInStep, DraftInStep, BootInStep DEF TeleNext, RoutingInv
<1>3. RoutingInv => RoutingMatchesSettings
  BY DEF RoutingInv, InStep, Remembered, Pending, RoutingMatchesSettings, Quiet, Idle
<1> QED BY <1>1, <1>2, <1>3, PTL DEF TeleSpec
=============================================================================
