------------------------------ MODULE DnsDraft ------------------------------
(***************************************************************************)
(* The editors of the sections of the draft that name one another          *)
(* (config/dns.go, dns_fallback.go, domain_resolver.go, rules.go,          *)
(* outbounds.go, endpoints.go, behind the handlers of their names in api): *)
(* DNS servers, DNS rules with the generated fallback tail, DNS settings,  *)
(* the route section's rules, default exit and resolver pin, rule sets,    *)
(* outbounds with their groups, and endpoints.                             *)
(*                                                                         *)
(* Every operation holds the manager's lock, so each is one action; how a  *)
(* draft reaches the disk is ConfigStore's subject.                        *)
(***************************************************************************)
EXTENDS SequencesExt

CONSTANTS
    Tags,      \* tags of DNS servers
    Sets,      \* tags of rule sets
    Codes,     \* response codes the panel offers
    Others,    \* response codes only a hand-written rule has
    Inputs,    \* the DNS rules a request may carry
    RouteInputs, \* the route rules a request may carry
    Exits,     \* tags of outbounds and endpoints
    Reserved,  \* the tag of the panel's own endpoint
    OutInputs, \* the outbounds a request may carry
    Starts,    \* the active configurations a run starts from
    Scopes,    \* each behaviour uses the editors of one scope
    None,
    MaxServers, MaxRules, MaxRoutes, MaxExits, MaxOps   \* bounds

ASSUME DnsAssumption ==
    /\ None \notin Tags \cup Codes \cup Others \cup Exits
    /\ IsFiniteSet(Codes) /\ Codes \cap Others = {}
    /\ {MaxServers, MaxRules, MaxRoutes, MaxExits, MaxOps} \subseteq Nat

VARIABLES
    active,   \* the sections as applied
    draft,    \* the draft, None without one
    scope,    \* the editors in use
    ops

dnsVars == <<active, draft, scope, ops>>

(* A DNS rule.  cond: it has a condition beside its rule sets.               *)
Rule == [action : {"route", "evaluate", "respond"}, server : Tags \cup {None},
         match : BOOLEAN, code : Codes \cup Others \cup {None},
         sets : SUBSET Sets, cond : BOOLEAN]

Bare(action, server, match, code) ==
    [action |-> action, server |-> server, match |-> match, code |-> code,
     sets |-> {}, cond |-> FALSE]
Evaluate(s)  == Bare("evaluate", s, FALSE, None)
OnCode(c, s) == Bare("route", s, TRUE, c)
Respond      == Bare("respond", None, TRUE, None)

\* A route rule, exit = None for an action without an outbound, and an
\* outbound: a selector or urltest has members.
Route    == [sets : SUBSET Sets, exit : Exits \cup {None}]
Outbound == [tag : Exits, group : BOOLEAN, members : SUBSET Exits]

Fallback == [primary : Tags, fallback : Tags, codes : SUBSET Codes]

(* A document.  The last three lines are history: the fallback last asked    *)
(* for, the server tags that were renamed away, the exits that were renamed  *)
(* or deleted, and the servers that were named without being there and       *)
(* without a check, by the resolver (blind) or by DNS rules (unchecked).     *)
(* opt is dns.optimistic: absent, true, an object that is on or one with     *)
(* only its timeout.                                                         *)
Document == [servers : Seq(Tags), final : Tags \cup {None}, pin : Tags \cup {None},
             rules : Seq(Rule), sets : SUBSET Sets, routes : Seq(Route),
             outs : Seq(Outbound), ends : Seq(Exits), exit : Exits \cup {None},
             noCache : BOOLEAN, noExpire : BOOLEAN,
             opt : {"none", "on", "timed", "idle"},
             asked : Fallback \cup {None}, renamed : SUBSET Tags, lost : SUBSET Exits,
             blind : Tags \cup {None}, unchecked : SUBSET Tags]

ASSUME InputAssumption ==
    /\ Inputs \subseteq Rule /\ RouteInputs \subseteq Route /\ OutInputs \subseteq Outbound
    /\ None \notin Document \cup Fallback
    /\ \A d \in Starts : d \in Document /\ d.asked = None

Working == IF draft = None THEN active ELSE draft

ServerTags(d) == ToSet(d.servers)
FirstOf(tag, s) == CHOOSE i \in DOMAIN s : s[i] = tag /\ \A j \in 1..(i - 1) : s[j] # tag

-----------------------------------------------------------------------------
(* The generated tail.                                                       *)

\* Where a tail starts, 0 without one: an evaluate, one rule per code, all to
\* one other server, and the respond that ends the list.
TailAt(rules, s) ==
    LET n == Len(rules) IN
    /\ n > 0 /\ rules[n] = Respond /\ s + 2 <= n
    /\ \E p, f \in Tags :
         /\ p # f /\ rules[s] = Evaluate(p)
         /\ \A i \in (s + 1)..(n - 1) : \E c \in Codes : rules[i] = OnCode(c, f)

FindStart(rules) ==
    IF \E s \in DOMAIN rules : TailAt(rules, s)
      THEN CHOOSE s \in DOMAIN rules : TailAt(rules, s) ELSE 0

\* findFallbackBlock
Found(rules) ==
    LET s == FindStart(rules) IN
    IF s = 0 THEN None
    ELSE [primary |-> rules[s].server, fallback |-> rules[s + 1].server,
          codes |-> {rules[i].code : i \in (s + 1)..(Len(rules) - 1)}]

Own(rules) == IF FindStart(rules) = 0 THEN rules ELSE SubSeq(rules, 1, FindStart(rules) - 1)

HasResponse(r) == r.match \/ r.action \in {"evaluate", "respond"}

\* buildFallbackBlock
Block(f) == <<Evaluate(f.primary)>>
            \o [i \in 1..Cardinality(f.codes) |-> OnCode(SetToSeq(f.codes)[i], f.fallback)]
            \o <<Respond>>

\* Mutant: a tail at a server that is gone is reported as live.
ReportedStale(d) == Found(d.rules)

\* readDnsFallback, None for "enabled": false.
Reported(d) ==
    LET f == Found(d.rules) IN
    IF f # None /\ {f.primary, f.fallback} \subseteq ServerTags(d) THEN f ELSE None

\* applyDnsFallback: what it refuses.
Writable(d, f) ==
    /\ \A i \in DOMAIN Own(d.rules) : ~HasResponse(Own(d.rules)[i])
    /\ f.primary # f.fallback /\ {f.primary, f.fallback} \subseteq ServerTags(d)
    /\ f.codes # {} /\ f.codes \subseteq Codes

ApplyFallback(d, f) ==
    [d EXCEPT !.rules = IF f = None THEN Own(d.rules) ELSE Own(d.rules) \o Block(f),
              !.asked = f]

-----------------------------------------------------------------------------
(* The draft.  A refused write drops it (dropDraftLocked).                   *)

Uses(k)  == k \in scope /\ ops < MaxOps /\ ops' = ops + 1

Stage(d) == (draft' = d \/ ("readonly" \in scope /\ draft' = None)) /\ UNCHANGED <<active, scope>>

Discard == /\ "publish" \in scope /\ draft # None /\ draft' = None
           /\ UNCHANGED <<active, scope, ops>>
Apply   == /\ "publish" \in scope /\ draft # None /\ active' = draft /\ draft' = None
           /\ UNCHANGED <<scope, ops>>

-----------------------------------------------------------------------------
(* DNS servers.                                                              *)

Needed(servers) == Len(servers) >= 2

\* pinDomainResolver
Pinned(d) ==
    IF ~Needed(d.servers) \/ d.pin # None THEN d
    ELSE [d EXCEPT !.pin = IF d.final \in ServerTags(d) THEN d.final ELSE d.servers[1]]

\* A tag that is there from now on.
Arrived(d, t) == [d EXCEPT !.blind = IF @ = t THEN None ELSE @, !.unchecked = @ \ {t}]

CreateServer(t) ==
    /\ Uses("server") /\ t \notin ServerTags(Working) /\ Len(Working.servers) < MaxServers
    /\ Stage(Pinned([Arrived(Working, t) EXCEPT !.servers = Append(@, t)]))

\* Mutant: the pin stays at the old tag.
RenamedUnpinned(d, t, new) ==
    [Arrived(d, new) EXCEPT !.servers[FirstOf(t, d.servers)] = new,
                            !.renamed = @ \cup ({t} \ {new})]

Renamed(d, t, new) ==
    [Arrived(d, new) EXCEPT !.servers[FirstOf(t, d.servers)] = new,
                            !.pin = IF @ = t THEN new ELSE @,
                            !.renamed = @ \cup ({t} \ {new})]

\* UpdateDnsServer, for what a change of the tag does: another server may
\* already have the new one.
UpdateServer(t, new) ==
    /\ Uses("server") /\ t \in ServerTags(Working) /\ new # t
    /\ Stage(Renamed(Working, t, new))

\* Mutant: a server that is the default may go.
DeletableUnchecked(d, t) ==
    /\ \A i \in DOMAIN d.rules : d.rules[i].server # t
    /\ ~(d.pin = t /\ Len(d.servers) - 1 >= 2)

Deletable(d, t) ==
    /\ \A i \in DOMAIN d.rules : d.rules[i].server # t
    /\ d.final # t
    /\ ~(d.pin = t /\ Len(d.servers) - 1 >= 2)

DeleteServer(t) ==
    /\ Uses("server") /\ t \in ServerTags(Working) /\ Deletable(Working, t)
    /\ Stage([Working EXCEPT !.servers = RemoveAt(@, FirstOf(t, @)),
                             !.pin = IF @ = t THEN None ELSE @])

-----------------------------------------------------------------------------
(* DNS rules, by index.                                                      *)

\* validateDnsRule: only the server of a route is looked up.
RuleOK(d, r) == /\ r.action = "route" => r.server \in ServerTags(d)
                /\ r.sets \subseteq d.sets

\* An index inside the tail ends what was asked for.
Touched(d, i) == IF FindStart(d.rules) # 0 /\ i >= FindStart(d.rules)
                   THEN [d EXCEPT !.asked = None] ELSE d

\* A rule comes in: its server may be one that is not there.
Named(d, r) == [d EXCEPT !.unchecked = @ \cup ({r.server} \ (ServerTags(d) \cup {None}))]

\* Mutant: a new rule goes to the end.
PlaceLast(rules) == Len(rules) + 1

Place(rules) == IF FindStart(rules) = 0 THEN Len(rules) + 1 ELSE FindStart(rules)

CreateRule(r) ==
    /\ Uses("rule") /\ RuleOK(Working, r) /\ Len(Working.rules) < MaxRules
    /\ Stage([Named(Working, r) EXCEPT !.rules = InsertAt(@, Place(@), r)])

UpdateRule(i, r) ==
    /\ Uses("rule") /\ i \in DOMAIN Working.rules /\ RuleOK(Working, r)
    /\ Stage([Named(Touched(Working, i), r) EXCEPT !.rules[i] = r])

DeleteRule(i) ==
    /\ Uses("rule") /\ i \in DOMAIN Working.rules
    /\ Stage([Touched(Working, i) EXCEPT !.rules = RemoveAt(@, i)])

\* Mutant: the target is moved down for a rule taken from above it.
MovedShort(s, from, to) ==
    InsertAt(RemoveAt(s, from), IF to > from THEN to - 1 ELSE to, s[from])

Moved(s, from, to) == InsertAt(RemoveAt(s, from), to, s[from])

ReorderRules(from, to) ==
    /\ Uses("rule") /\ {from, to} \subseteq DOMAIN Working.rules /\ from # to
    /\ Stage([Touched(Touched(Working, from), to) EXCEPT !.rules = Moved(@, from, to)])

-----------------------------------------------------------------------------
(* UpdateDnsSettings.  The fallback first: the only part that can fail.      *)

\* Mutant: only disable_cache clears it.
ClearedByCache(d) == IF d.noCache
                       THEN [d EXCEPT !.opt = IF @ \in {"timed", "idle"} THEN "idle" ELSE "none"]
                       ELSE d

Cleared(d) == IF d.noCache \/ d.noExpire
                THEN [d EXCEPT !.opt = IF @ \in {"timed", "idle"} THEN "idle" ELSE "none"]
                ELSE d

\* A payload switches disable_cache (c), disable_expire (e) and optimistic (o);
\* None: not there.
WithFlags(d, c, e, o) ==
    Cleared([d EXCEPT
        !.noCache = IF c = None THEN @ ELSE c,
        !.noExpire = IF e = None THEN @ ELSE e,
        !.opt = IF o = None THEN @
                ELSE IF @ \in {"timed", "idle"} THEN (IF o THEN "timed" ELSE "idle")
                ELSE IF o THEN "on" ELSE "none"])

UpdateFlags(c, e, o) ==
    Uses("flags") /\ Stage(WithFlags(Working, c, e, o))

UpdateFinal(t) ==
    Uses("settings") /\ t \in ServerTags(Working) /\ Stage([Working EXCEPT !.final = t])

\* A refusal leaves the draft it ensured.
UpdateFallback(f) ==
    /\ Uses("settings") /\ Len(Own(Working.rules)) + 3 <= MaxRules
    /\ Stage(IF f = None \/ Writable(Working, f) THEN ApplyFallback(Working, f) ELSE Working)

\* UpdateRouteSettings, of default_domain_resolver, to a tag or to nothing.
SetResolver(t) ==
    /\ Uses("server")
    /\ IF t = None THEN ~Needed(Working.servers) ELSE t \in ServerTags(Working)
    /\ Stage([Working EXCEPT !.pin = t, !.blind = None])

\* The same to an object that names t: it is checked as if it were nothing (an
\* object without a server is nothing), and stored.
SetResolverObject(t) ==
    /\ Uses("server") /\ ~Needed(Working.servers)
    /\ Stage([Working EXCEPT !.pin = t,
                             !.blind = IF t \in ServerTags(Working) THEN None ELSE t])

-----------------------------------------------------------------------------
(* Rule sets, and the route rules that name them.                            *)

CreateRuleSet(t) ==
    Uses("ruleset") /\ t \notin Working.sets /\ Stage([Working EXCEPT !.sets = @ \cup {t}])

\* GetRuleSetsUsage
Usage(d, t) == [route |-> {i \in DOMAIN d.routes : t \in d.routes[i].sets},
                dns   |-> {i \in DOMAIN d.rules : t \in d.rules[i].sets}]

\* Mutant: only the route rules are looked at.
UnusedInRoutes(d, t) == Usage(d, t).route = {}

Unused(d, t) == Usage(d, t).route = {} /\ Usage(d, t).dns = {}

\* UpdateRuleSet keeps the tag, so only these two change the tags.
DeleteRuleSet(t) ==
    /\ Uses("ruleset") /\ t \in Working.sets /\ Unused(Working, t)
    /\ Stage([Working EXCEPT !.sets = @ \ {t}])

OutTags(d)   == {d.outs[i].tag : i \in DOMAIN d.outs}
Reachable(d) == OutTags(d) \cup ToSet(d.ends)

\* validateRule
RouteOK(d, r) == /\ r.sets \subseteq d.sets
                 /\ r.exit # None => r.exit \in Reachable(d)

CreateRoute(r) ==
    /\ Uses("route") /\ RouteOK(Working, r) /\ Len(Working.routes) < MaxRoutes
    /\ Stage([Working EXCEPT !.routes = Append(@, r)])

UpdateRoute(i, r) ==
    /\ Uses("route") /\ i \in DOMAIN Working.routes /\ RouteOK(Working, r)
    /\ Stage([Working EXCEPT !.routes[i] = r])

DeleteRoute(i) ==
    /\ Uses("route") /\ i \in DOMAIN Working.routes
    /\ Stage([Working EXCEPT !.routes = RemoveAt(@, i)])

ReorderRoutes(from, to) ==
    /\ Uses("route") /\ {from, to} \subseteq DOMAIN Working.routes /\ from # to
    /\ Stage([Working EXCEPT !.routes = Moved(@, from, to)])

\* UpdateRouteSettings, of final.
SetFinal(t) ==
    /\ Uses("route") /\ t \in Reachable(Working) \cup {None}
    /\ Stage([Working EXCEPT !.exit = t])

-----------------------------------------------------------------------------
(* Outbounds and endpoints.  Nothing looks at what names a tag that goes.    *)

\* validateOutbound, for what it says of groups: they are not empty.
OutboundOK(ob) == ob.group => ob.members # {}

\* Mutant: a member may be any tag but the group's own.
MembersNotSelf(ob, there) == ob.tag \notin ob.members

\* validateOutboundReferences
MembersOK(ob, there) == ob.tag \notin ob.members /\ ob.members \subseteq there

OutAt(d, t) == CHOOSE i \in DOMAIN d.outs :
                   d.outs[i].tag = t /\ \A j \in 1..(i - 1) : d.outs[j].tag # t

CreateOutbound(ob) ==
    /\ Uses("exit") /\ OutboundOK(ob) /\ ob.tag \notin OutTags(Working)
    /\ MembersOK(ob, Reachable(Working)) /\ Len(Working.outs) < MaxExits
    /\ Stage([Working EXCEPT !.outs = Append(@, ob)])

\* The others are what it may name; another may already have the new tag.
UpdateOutbound(t, ob) ==
    LET i      == OutAt(Working, t)
        others == [Working EXCEPT !.outs = RemoveAt(@, i)] IN
    /\ Uses("exit") /\ OutboundOK(ob) /\ t \in OutTags(Working)
    /\ MembersOK(ob, Reachable(others))
    /\ Stage([Working EXCEPT !.outs[i] = ob, !.lost = @ \cup ({t} \ {ob.tag})])

DeleteOutbound(t) ==
    /\ Uses("exit") /\ t \in OutTags(Working)
    /\ Stage([Working EXCEPT !.outs = RemoveAt(@, OutAt(Working, t)), !.lost = @ \cup {t}])

CreateEndpoint(t) ==
    /\ Uses("exit") /\ t # Reserved /\ t \notin ToSet(Working.ends)
    /\ Len(Working.ends) < MaxExits
    /\ Stage([Working EXCEPT !.ends = Append(@, t)])

UpdateEndpoint(t, new) ==
    /\ Uses("exit") /\ Reserved \notin {t, new} /\ t \in ToSet(Working.ends)
    /\ Stage([Working EXCEPT !.ends[FirstOf(t, Working.ends)] = new, !.lost = @ \cup ({t} \ {new})])

DeleteEndpoint(t) ==
    /\ Uses("exit") /\ t # Reserved /\ t \in ToSet(Working.ends)
    /\ Stage([Working EXCEPT !.ends = RemoveAt(@, FirstOf(t, @)), !.lost = @ \cup {t}])

-----------------------------------------------------------------------------
DnsInit == /\ active \in Starts /\ draft = None
           /\ scope \in Scopes /\ ops = 0

EditServers == \E t \in Tags : \/ CreateServer(t) \/ DeleteServer(t) \/ UpdateFinal(t)
                               \/ \E new \in Tags : UpdateServer(t, new)
EditRules == \/ \E r \in Inputs : CreateRule(r) \/ \E i \in 1..MaxRules : UpdateRule(i, r)
             \/ \E i \in 1..MaxRules : DeleteRule(i) \/ \E j \in 1..MaxRules : ReorderRules(i, j)
EditSettings == \/ \E c, e, o \in BOOLEAN \cup {None} : UpdateFlags(c, e, o)
                \/ \E f \in Fallback \cup {None} : UpdateFallback(f)
                \/ \E t \in Tags \cup {None} : SetResolver(t)
                \/ \E t \in Tags : SetResolverObject(t)
EditSets == \E t \in Sets : CreateRuleSet(t) \/ DeleteRuleSet(t)
EditRoutes == \/ \E r \in RouteInputs : CreateRoute(r) \/ \E i \in 1..MaxRoutes : UpdateRoute(i, r)
              \/ \E i \in 1..MaxRoutes : DeleteRoute(i) \/ \E j \in 1..MaxRoutes : ReorderRoutes(i, j)
              \/ \E t \in Exits \cup {None} : SetFinal(t)
EditOutbounds == \/ \E ob \in OutInputs : CreateOutbound(ob) \/ \E t \in Exits : UpdateOutbound(t, ob)
                 \/ \E t \in Exits : DeleteOutbound(t)
EditEndpoints == \E t \in Exits : CreateEndpoint(t) \/ DeleteEndpoint(t)
                                  \/ \E new \in Exits : UpdateEndpoint(t, new)

DnsNext == \/ EditServers \/ EditRules \/ EditSettings \/ EditSets \/ EditRoutes
           \/ EditOutbounds \/ EditEndpoints \/ Discard \/ Apply

DnsSpec == DnsInit /\ [][DnsNext]_dnsVars

-----------------------------------------------------------------------------
DnsTypeOK == active \in Document /\ draft \in Document \cup {None}

PinnedIn(d) == /\ Needed(d.servers) => d.pin # None
               /\ d.pin # None => d.pin \in ServerTags(d) \cup ({d.blind} \ {None})

\* From the second DNS server on, outgoing connections have a resolver, and no
\* edit of the servers leaves it naming one that is gone: sing-box exits at
\* start otherwise (domain_resolver.go).  A server that an object named without
\* it being there is excepted until it is: see ResolverThere.
ResolverPinned == PinnedIn(active) /\ PinnedIn(Working)

\* The same without the exception: "never leave it naming a server that is gone".
ResolverThere == Working.pin # None => Working.pin \in ServerTags(Working)

Holds(d) ==
    /\ \A i \in DOMAIN d.rules : d.rules[i].sets \subseteq d.sets
    /\ \A i \in DOMAIN d.routes : d.routes[i].sets \subseteq d.sets

\* A rule never names a rule set that is gone, whatever the order of edits of
\* the two sections and of the rule sets (DeleteRuleSet, validateRule,
\* validateDnsRule).
RuleSetsReferenced == Holds(active) /\ Holds(Working)

Served(d) == ServerTags(d) \cup d.renamed

Serves(d) ==
    /\ d.final # None => d.final \in Served(d)
    /\ \A i \in DOMAIN d.rules :
          d.rules[i].server \in Served(d) \cup (IF d.rules[i].action = "route" THEN {}
                                               ELSE d.unchecked \cup {None})

\* The default server and the servers of all rules are there, but for a tag that
\* was renamed away (nothing rewrites rules on a rename, readDnsFallback) and for
\* one that a rule other than a route named without a check (validateDnsRule):
\* no deletion and no other edit makes a reference dangle.
ServersReferenced == Serves(Working)

\* The same without the second exception.
EveryServerThere == \A i \in DOMAIN Working.rules :
                        Working.rules[i].server \in Served(Working) \cup {None}

Leads(d) ==
    LET known == Reachable(d) \cup d.lost \cup {None} IN
    /\ d.exit \in known /\ \A i \in DOMAIN d.routes : d.routes[i].exit \in known
    /\ \A i \in DOMAIN d.outs : d.outs[i].members \subseteq known \ {d.outs[i].tag}

\* The same of exits: rules, the default exit and groups name what is there,
\* but for a tag that was renamed or deleted, and no group is its own member
\* (what Validate says of a whole configuration, the editors say one by one).
ExitsReferenced == Leads(Working)

\* In whatever order the sections are edited, a reference dangles only where the
\* code checks nothing: renamed tags, deleted exits, and the servers of rules
\* other than routes, from the edit that wrote them.
ReferencesHold == RuleSetsReferenced /\ ServersReferenced /\ ExitsReferenced

AskedIn(d) == d.asked # None => Found(d.rules) = d.asked

\* The fallback an operator asked for stays the end of the list and says what
\* it said, through every edit of other rules, servers and settings ("a new
\* rule goes BEFORE the generated fallback tail").
FallbackStays == AskedIn(Working)

\* What is reported as a fallback can be sent back, as the panel does with
\* every change of the DNS page, when no rule of the operator's own matches
\* responses.
FallbackWritable ==
    LET f == Reported(Working) IN
    f # None /\ (\A i \in DOMAIN Own(Working.rules) : ~HasResponse(Own(Working.rules)[i]))
        => Writable(Working, f)

\* The same without the exception: findFallbackBlock, "Reading must accept no
\* more than writing can reproduce".
FallbackRoundTrip == Reported(Working) # None => Writable(Working, Reported(Working))

CacheIn(d) == d.opt \in {"on", "timed"} => ~d.noCache /\ ~d.noExpire

\* Optimistic answers and a switched-off cache never meet: the fork refuses to
\* start on both (UpdateDnsSettings).
OptimisticSafe == CacheIn(Working)

\* A rule that is moved ends up at the index it was dropped on and the others
\* keep their order (ReorderRules: "'to' is the index the rule ENDS UP at").
ReorderLands ==
    LET s == Working.rules IN
    \A from, to \in DOMAIN s :
        LET m == Moved(s, from, to)
        IN  Len(m) = Len(s) /\ m[to] = s[from] /\ RemoveAt(m, to) = RemoveAt(s, from)
=============================================================================
