---------------------------- MODULE InboundDraft ----------------------------
(***************************************************************************)
(* The inbounds of the draft and the users in them: the inbound editors    *)
(* (config/inbounds.go), the raw editor behind the comprehensive validator *)
(* (config/validator.go, SaveConfig), and the handlers that stage panel    *)
(* users (api/users_handlers.go), each of which looks under one lock and   *)
(* stages under another.                                                   *)
(*                                                                         *)
(* What Apply does to the registry is UserRegistry's subject: here the     *)
(* registered users of a name are its bindings in the active section.      *)
(* A mieru inbound's listen_ports ranges are compared by neither check and *)
(* are left out.                                                           *)
(***************************************************************************)
EXTENDS SequencesExt

CONSTANTS
    Tags,      \* tags an operator gives to inbounds
    Reserved,  \* the tag of the managed SOCKS inbound
    Names,     \* names of panel users
    Forms,     \* the inbounds a request may carry, under any tag
    Texts,     \* the whole sections the raw editor may send
    Starts,    \* the active sections a run starts from
    Requests,  \* concurrent requests that stage users
    Scopes,    \* each behaviour uses the editors of one scope
    None,
    MaxInbounds, MaxMints, MaxOps   \* bounds

User == [name : Names, cred : 1..MaxMints, flow : BOOLEAN]

Types == {"tun", "socks", "vless", "trojan", "naive", "hysteria2", "mieru", "shadowsocks"}

(* port 0: none.  listen as it is spelled, ws: a stream transport, via: the  *)
(* transport of a mieru server.  The order of the users plays no part, and   *)
(* entries that agree in every field count as one.                           *)
Inbound == [tag : Tags \cup {Reserved}, type : Types, listen : STRING, port : Nat,
            tls : BOOLEAN, ws : BOOLEAN, via : {"TCP", "UDP", "none"}, users : SUBSET User]

(* dup is history: two inbounds have had one tag.                            *)
Section == [inbounds : Seq(Inbound), dup : BOOLEAN]

Twins(d) == \E i, j \in DOMAIN d.inbounds : i # j /\ d.inbounds[i].tag = d.inbounds[j].tag

ASSUME InboundAssumption ==
    /\ Reserved \notin Tags /\ None \notin Tags \cup {Reserved} /\ None \notin Names
    /\ MaxInbounds \in Nat /\ MaxMints \in Nat /\ MaxOps \in Nat
    /\ Forms \subseteq Inbound /\ Starts \cup Texts \subseteq Section
    /\ \A d \in Starts \cup Texts : d.dup = Twins(d)

VARIABLES
    active,   \* the section as applied
    draft,    \* the draft, None without one
    req,      \* the staging requests
    minted,   \* credentials generated so far
    raced,    \* history: the section changed between a request's look and its write
    scope, ops

inVars == <<active, draft, req, minted, raced, scope, ops>>

Idle == [at |-> "idle", name |-> None, tag |-> None, protocol |-> None, seen |-> None, left |-> {}]

Working == IF draft = None THEN active ELSE draft

TagsOf(d) == {d.inbounds[i].tag : i \in DOMAIN d.inbounds}

\* findByTag
IndexOf(d, t) == CHOOSE i \in DOMAIN d.inbounds :
                    d.inbounds[i].tag = t /\ \A j \in 1..(i - 1) : d.inbounds[j].tag # t

-----------------------------------------------------------------------------
(* Sockets.                                                                  *)

\* normalizeListenAddr: an absent listen counts as a wildcard.
Normal(listen) == IF listen \in {"", "::", "[::]", "::0", "0.0.0.0", "*"} THEN "*" ELSE listen

\* inboundNetworks
Networks(b) ==
    CASE b.type \in {"vless", "trojan", "socks", "naive"} -> {"tcp"}
      [] b.type = "hysteria2" -> {"udp"}
      [] b.type = "mieru" /\ b.via = "TCP" -> {"tcp"}
      [] b.type = "mieru" /\ b.via = "UDP" -> {"udp"}
      [] OTHER -> {"tcp", "udp"}

Contend(b, c) == /\ b.port # 0 /\ b.port = c.port /\ Normal(b.listen) = Normal(c.listen)
                 /\ Networks(b) \cap Networks(c) # {}

\* Mutant: addresses are compared as they are spelled.
ConflictAsSpelled(d, b, self) ==
    \E i \in DOMAIN d.inbounds : /\ d.inbounds[i].tag # self /\ Contend(d.inbounds[i], b)
                                 /\ d.inbounds[i].listen = b.listen

\* listenPortConflict: every entry with the tag of the one being updated is
\* left out.
Conflict(d, b, self) ==
    \E i \in DOMAIN d.inbounds : d.inbounds[i].tag # self /\ Contend(d.inbounds[i], b)

\* Validate's seenPorts.
SharedPort(d) == \E i, j \in DOMAIN d.inbounds : i < j /\ Contend(d.inbounds[i], d.inbounds[j])

-----------------------------------------------------------------------------
(* One inbound.                                                              *)

\* CredentialKey: what joins an entry to the registry.
Key(b, u) == IF b.type = "naive" THEN <<"username", u.name>> ELSE <<"credential", u.cred>>

Distinct(b, F(_)) == \A u, v \in b.users : F(u) = F(v) => u = v

\* validateInboundTransport: no Vision flow over a stream transport.
VisionOK(b) == b.type = "vless" /\ b.ws => \A u \in b.users : ~u.flow

\* validateMieruInbound
MieruOK(b) == /\ b.port # 0 /\ b.via # "none" /\ ~b.tls /\ b.users # {}
              /\ LET name(u) == u.name  cred(u) == u.cred
                 IN  Distinct(b, name) /\ Distinct(b, cred)

\* validateInbound
InboundOK(b) ==
    LET key(u) == Key(b, u) IN
    IF b.type = "mieru" THEN MieruOK(b)
    ELSE /\ b.type \in {"socks", "vless", "trojan", "naive", "hysteria2"} => b.port # 0
         /\ b.type \in {"naive", "hysteria2", "trojan"} => b.tls
         /\ b.type \in {"vless", "trojan", "naive", "hysteria2"} => Distinct(b, key)
         /\ VisionOK(b)

\* Validate, of the inbounds.
SectionOK(d) == /\ \A i \in DOMAIN d.inbounds : InboundOK(d.inbounds[i])
                /\ ~SharedPort(d)

-----------------------------------------------------------------------------
(* The editors.                                                              *)

Uses(k) == k \in scope /\ ops < MaxOps /\ ops' = ops + 1

Stage(d) == draft' = d

NoRequest == UNCHANGED <<req, minted, raced>>

CreateInbound(t, f) ==
    LET b == [f EXCEPT !.tag = t] IN
    /\ Uses("inbounds") /\ NoRequest /\ UNCHANGED <<active, scope>>
    /\ t # Reserved /\ InboundOK(b) /\ t \notin TagsOf(Working)
    /\ ~Conflict(Working, b, None) /\ Len(Working.inbounds) < MaxInbounds
    /\ Stage([Working EXCEPT !.inbounds = Append(@, b)])

Ours(t, new) == t # Reserved /\ new # Reserved

\* UpdateInbound: nothing asks whether another inbound has the new tag.  The
\* form carries the users the panel read, before or after the draft began; it
\* does not change the type of an inbound with users.
UpdateInbound(t, new, f) ==
    /\ Uses("inbounds") /\ NoRequest /\ UNCHANGED <<active, scope>>
    /\ Ours(t, new) /\ t \in TagsOf(Working)
    /\ \E read \in {d \in {Working, active} : t \in TagsOf(d)} :
       LET i == IndexOf(Working, t)
           shown == read.inbounds[IndexOf(read, t)]
           b == [f EXCEPT !.tag = new, !.users = shown.users]
       IN  /\ shown.users # {} => f.type = shown.type
           /\ InboundOK(b) /\ ~Conflict(Working, b, t)
           /\ Stage([Working EXCEPT !.inbounds[i] = b,
                                    !.dup = @ \/ (new # t /\ new \in TagsOf(Working))])

DeleteInbound(t) ==
    /\ Uses("inbounds") /\ NoRequest /\ UNCHANGED <<active, scope>>
    /\ t # Reserved /\ t \in TagsOf(Working)
    /\ Stage([Working EXCEPT !.inbounds = RemoveAt(@, IndexOf(Working, t))])

\* SaveConfig: validate, then SetDraft.  Validate does not compare tags.
SaveConfig(d) ==
    /\ Uses("text") /\ NoRequest /\ UNCHANGED <<active, scope>>
    /\ SectionOK(d)
    /\ Stage(d)

Discard == /\ "publish" \in scope /\ draft # None /\ draft' = None
           /\ NoRequest /\ UNCHANGED <<active, scope, ops>>

\* ApplyConfig: the binary's own check passes an inbound with a Vision flow
\* over a stream transport; nothing here runs Validate.
Apply == /\ "publish" \in scope /\ draft # None
         /\ active' = draft /\ draft' = None
         /\ NoRequest /\ UNCHANGED <<scope, ops>>

-----------------------------------------------------------------------------
(* Panel users.                                                              *)

BindingsOf(d, n) ==
    UNION {{<<d.inbounds[i].tag, Key(d.inbounds[i], u)>> :
               u \in {v \in d.inbounds[i].users : v.name = n}} : i \in DOMAIN d.inbounds}

Registered(n) == BindingsOf(active, n)

\* nameTaken: a user of the registry, or an entry of the section that is not
\* registered.
NameTaken(n) == \/ Registered(n) # {}
                \/ BindingsOf(Working, n) \ UNION {Registered(m) : m \in Names} # {}

BoundTo(d, n, t) == \E i \in DOMAIN d.inbounds :
    d.inbounds[i].tag = t /\ \E u \in d.inbounds[i].users : u.name = n

Begin(r, q) == Uses("users") /\ req[r] = Idle /\ req' = [req EXCEPT ![r] = [q EXCEPT !.seen = Working]]
End(r)      == req' = [req EXCEPT ![r] = Idle]

\* The panel offers the inbounds of the section, each with its protocol.
Staging(n, t) == [Idle EXCEPT !.at = "stage", !.name = n, !.tag = t,
                              !.protocol = Working.inbounds[IndexOf(Working, t)].type]

CreateUser(r, n, t) ==
    /\ ~NameTaken(n) /\ t \in TagsOf(Working)
    /\ Begin(r, Staging(n, t))
    /\ UNCHANGED <<active, draft, minted, raced, scope>>

\* Mutant: the inbound is looked up in the active section.
BindOfActive(r, n, t) ==
    /\ Registered(n) # {} /\ ~BoundTo(active, n, t) /\ t \in TagsOf(Working)
    /\ Begin(r, Staging(n, t))
    /\ UNCHANGED <<active, draft, minted, raced, scope>>

AddBinding(r, n, t) ==
    /\ Registered(n) # {} /\ ~BoundTo(Working, n, t) /\ t \in TagsOf(Working)
    /\ Begin(r, Staging(n, t))
    /\ UNCHANGED <<active, draft, minted, raced, scope>>

Races(r) == raced' = (raced \/ req[r].seen # Working)

\* stageUserInDraft: a vless user gets the Vision flow whatever the inbound's
\* transport.  An unsupported protocol stages nothing; an inbound that is gone
\* or of another type is an error once a draft is ensured.
StageUser(r) ==
    LET q == req[r] IN
    /\ q.at = "stage" /\ End(r) /\ Races(r) /\ minted < MaxMints /\ minted' = minted + 1
    /\ IF q.protocol \notin {"vless", "naive", "trojan", "hysteria2", "mieru"} THEN UNCHANGED draft
       ELSE IF /\ q.tag \in TagsOf(Working)
               /\ Working.inbounds[IndexOf(Working, q.tag)].type = q.protocol
         THEN LET i == IndexOf(Working, q.tag)
                  u == [name |-> q.name, cred |-> minted', flow |-> q.protocol = "vless"]
              IN  Stage([Working EXCEPT !.inbounds[i].users = @ \cup {u}])
         ELSE Stage(Working)
    /\ UNCHANGED <<active, scope, ops>>

\* mieruLastUserRemoval
LastOfMieru(b, key) ==
    b.type = "mieru" /\ b.users # {} /\ \A u \in b.users : Key(b, u) = key

Without(b, key) == [b EXCEPT !.users = {u \in @ : Key(b, u) # key}]

\* DeleteUser: the guard of all bindings first, then one removal after another.
DeleteUser(r, n) ==
    /\ Registered(n) # {}
    /\ \A k \in Registered(n) : k[1] \in TagsOf(Working) =>
           ~LastOfMieru(Working.inbounds[IndexOf(Working, k[1])], k[2])
    /\ Begin(r, [Idle EXCEPT !.at = "remove", !.name = n, !.left = Registered(n)])
    /\ UNCHANGED <<active, draft, minted, raced, scope>>

\* Mutant: the check before the first removal is the only one.
RemoveUnguarded(d, k) ==
    IF k[1] \notin TagsOf(d) THEN d
    ELSE [d EXCEPT !.inbounds[IndexOf(d, k[1])] = Without(@, k[2])]

\* removeUserFromDraft, None when the guard refuses.
Removal(d, k) ==
    IF k[1] \notin TagsOf(d) THEN d
    ELSE IF LastOfMieru(d.inbounds[IndexOf(d, k[1])], k[2]) THEN None
    ELSE [d EXCEPT !.inbounds[IndexOf(d, k[1])] = Without(@, k[2])]

RemoveUser(r) ==
    /\ req[r].at = "remove"
    /\ \E k \in req[r].left :
         LET d == Removal(Working, k) IN
         /\ Stage(IF d = None THEN Working ELSE d)
         /\ IF d = None \/ req[r].left = {k} THEN End(r)
            ELSE req' = [req EXCEPT ![r].left = @ \ {k}]
    /\ UNCHANGED <<active, minted, raced, scope, ops>>

-----------------------------------------------------------------------------
InInit == /\ active \in Starts /\ draft = None
          /\ req = [r \in Requests |-> Idle] /\ minted = 2 /\ raced = FALSE
          /\ scope \in Scopes /\ ops = 0

EditInbounds == \E t \in Tags : \/ DeleteInbound(t)
                                \/ \E f \in Forms : \/ CreateInbound(t, f)
                                     \/ \E new \in Tags \cup {Reserved} : UpdateInbound(t, new, f)

StageUsers == \E r \in Requests : \/ \E n \in Names, t \in Tags : CreateUser(r, n, t) \/ AddBinding(r, n, t)
                                  \/ \E n \in Names : DeleteUser(r, n)
                                  \/ StageUser(r) \/ RemoveUser(r)

InNext == EditInbounds \/ StageUsers \/ (\E d \in Texts : SaveConfig(d)) \/ Discard \/ Apply

InSpec == InInit /\ [][InNext]_inVars

-----------------------------------------------------------------------------
(* What the sections of the start, the forms and the texts may hold.         *)

\* The sections of the start: inbounds share a socket only with two of one tag.
StartApart == \A d \in Starts : ~d.dup => ~SharedPort(d)

Served(d) == \A i \in DOMAIN d.inbounds : d.inbounds[i].type = "mieru" => d.inbounds[i].users # {}

StartServes == \A d \in Starts : Served(d)

\* The entries of a section.
Entries(d) == UNION {d.inbounds[i].users : i \in DOMAIN d.inbounds}

\* The entries that come from outside.
Given == (UNION {f.users : f \in Forms}) \cup (UNION {Entries(d) : d \in Starts \cup Texts})

\* One owner to a credential, and none to come.
Owned(us, m) == \A u, v \in us : u.cred <= m /\ (u.cred = v.cred => u.name = v.name)

OnceIn(us) == \A u, v \in us : u.name = v.name => u = v

Once(d) == \A i \in DOMAIN d.inbounds : OnceIn(d.inbounds[i].users)

\* What comes from outside gives each credential to one name, and lists a name
\* once in an inbound.
GivenOnce == /\ Owned(Given, 2)
             /\ \A f \in Forms : OnceIn(f.users)
             /\ \A d \in Starts \cup Texts : Once(d)

-----------------------------------------------------------------------------
InTypeOK == active \in Section /\ draft \in Section \cup {None}

\* The editors never stage two inbounds on one socket, in whatever order
\* inbounds are created, moved and renamed, unless a rename gave two of them
\* one tag (listenPortConflict).
NoContention == ~Working.dup => ~SharedPort(Working)

\* An inbound lists a user once, unless two requests or an edit overlapped
\* (AddBinding's check "preventing the infinite same-inbound binding bug",
\* CreateUser's nameTaken); so a credential joins one entry.
BoundOnce ==
    ~raced => \A i \in DOMAIN Working.inbounds :
        LET b == Working.inbounds[i]  name(u) == u.name  key(u) == Key(b, u)
        IN  Distinct(b, name) /\ Distinct(b, key)

\* No removal empties a mieru inbound, not even two at once
\* (ErrLastMieruUser).
MieruKeepsOne == Served(Working)

\* A Vision flow never runs over a stream transport: validateInboundTransport,
\* "This is the ONLY config-time guard for the conflict".
VisionIsRaw == \A i \in DOMAIN active.inbounds : VisionOK(active.inbounds[i])
=============================================================================
