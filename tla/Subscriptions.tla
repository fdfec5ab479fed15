---------------------------- MODULE Subscriptions ----------------------------
(***************************************************************************)
(* Outbound subscriptions: the store (subscriptions/store.go), the hourly  *)
(* refresh loop (ticker.go), the refresh itself (fetcher.go), the handlers *)
(* (api/subscriptions_handlers.go) and the two editors of the outbounds    *)
(* (config/subscriptions_config.go).                                       *)
(*                                                                         *)
(* A subscription is known by the slug of its name in the store and by the *)
(* sanitized name in the configuration; both are constants here: two names *)
(* with two slugs may share a group, and two names with two groups a slug. *)
(* Of a group's nodes only whose URL they came from is kept; parsing       *)
(* (links.go) is the difference between Fetched and Fetch that fails.      *)
(***************************************************************************)
EXTENDS Naturals

CONSTANTS
    Names, Ids, Groups, Urls,
    Slug,      \* slugify: the id of a name
    Group,     \* Sanitize: the group tag of a name
    Requests,  \* concurrent handlers
    Loop,      \* the refresh loop
    Faults,    \* what may go wrong
    None,
    MaxOps, MaxFaults   \* bounds

\* auto: a refresh interval is set; fresh: it has not passed since the last
\* success.  Both are kept in the file.
Subscription == [name : Names, url : Urls, auto : BOOLEAN, fresh : BOOLEAN, err : BOOLEAN]

\* The nodes of each group, by the URL they came from.
Sections == [Groups -> Urls \cup {None}]

ASSUME SubsAssumption ==
    /\ Slug \in [Names -> Ids] /\ Group \in [Names -> Groups]
    /\ Loop \notin Requests /\ MaxOps \in Nat /\ MaxFaults \in Nat
    /\ None \notin Urls /\ None \notin Subscription /\ None \notin Sections

VARIABLES
    mem, disk,        \* the store and subscriptions.toml
    active,           \* the groups of config.json
    draft,            \* the groups of the draft, None without one
    sweep,            \* copies the loop has still to refresh
    job,              \* what each handler and the loop is doing
    excused,          \* history: groups a race or a loss has touched since they
                      \* were last written whole
    ops, faults

subVars == <<mem, disk, active, draft, sweep, job, excused, ops, faults>>

Jobs == Requests \cup {Loop}

NoJob == [at |-> "idle", name |-> None, url |-> None, ok |-> FALSE]

Working == IF draft = None THEN active ELSE draft

\* The subscription of that name is still there.
Present(n) == mem[Slug[n]] # None /\ mem[Slug[n]].name = n

Owner(g) == \E n \in Names : Present(n) /\ Group[n] = g

NoFault  == UNCHANGED faults
Fault(k) == k \in Faults /\ faults < MaxFaults /\ faults' = faults + 1
Operation == ops < MaxOps /\ ops' = ops + 1
Set(j, s) == job' = [job EXCEPT ![j] = s]
Goto(j, at) == Set(j, [job[j] EXCEPT !.at = at])

ConfigFrame == UNCHANGED <<active, draft>>
StoreFrame  == UNCHANGED <<mem, disk>>

-----------------------------------------------------------------------------
(* Writing.                                                                  *)

\* saveLocked after Update, Delete and SetResult: a failure leaves the change
\* in memory.
Persist(m) == /\ mem' = m
              /\ \/ disk' = m /\ NoFault
                 \/ UNCHANGED disk /\ Fault("store")

\* Add puts memory back.
Add(m) == \/ mem' = m /\ disk' = m /\ NoFault
          \/ StoreFrame /\ Fault("store")

Changed(d) == {g \in Groups : (IF d = None THEN active ELSE d)[g] # Working[g]}

\* saveDraftToDisk of an edit of group g: a full disk leaves the edit in
\* memory, a file that cannot be written drops the whole draft.  An edit that
\* raced with nothing and was written settles what had happened to the group.
Stage(d, g, raced) ==
    \/ /\ draft' = d /\ NoFault
       /\ excused' = IF raced THEN excused \cup {g} ELSE excused \ {g}
    \/ /\ draft' \in {d, None} /\ Fault("draft")
       /\ excused' = excused \cup {g} \cup Changed(None)

-----------------------------------------------------------------------------
(* A refresh.                                                                *)

Begin(j, at, n, u) == job[j] = NoJob /\ Set(j, [NoJob EXCEPT !.at = at, !.name = n, !.url = u])

\* Fetch and ParseLinks: three transport errors, another status, an empty body
\* or no usable node end the refresh before the configuration is touched.
Fetched(j) ==
    /\ job[j].at = "fetch"
    /\ \/ Goto(j, "merge") /\ NoFault
       \/ Set(j, [job[j] EXCEPT !.at = "record", !.ok = FALSE]) /\ Fault("fetch")
    /\ StoreFrame /\ ConfigFrame /\ UNCHANGED <<sweep, excused, ops>>

BeingDeleted(g) == \E r \in Requests : job[r].at = "forget" /\ Group[job[r].name] = g

\* ReplaceSubscriptionOutbounds, in the copy's name: nobody asks whether the
\* subscription still exists.
Merge(j) ==
    LET g == Group[job[j].name] IN
    /\ job[j].at = "merge"
    /\ Stage([Working EXCEPT ![g] = job[j].url], g, ~Present(job[j].name) \/ BeingDeleted(g))
    /\ Set(j, [job[j] EXCEPT !.at = "record", !.ok = (faults' = faults)])
    /\ StoreFrame /\ UNCHANGED <<active, sweep, ops>>

\* Mutant: LastUpdated is bumped whatever came of it.
ResultAlways(s, ok) == [s EXCEPT !.fresh = TRUE, !.err = ~ok]

Result(s, ok) == [s EXCEPT !.fresh = @ \/ ok, !.err = ~ok]

\* The id has meanwhile been given to another name.
Usurped(j) ==
    LET s == mem[Slug[job[j].name]] IN IF s = None \/ s.name = job[j].name THEN {} ELSE {Group[s.name]}

\* SetResult, of whatever has the id by now; its failure is logged at most.
Record(j) ==
    LET id == Slug[job[j].name] IN
    /\ job[j].at = "record" /\ Set(j, NoJob)
    /\ IF mem[id] = None THEN StoreFrame /\ NoFault
       ELSE Persist([mem EXCEPT ![id] = Result(@, job[j].ok)])
    /\ excused' = excused \cup Usurped(j)
    /\ ConfigFrame /\ UNCHANGED <<sweep, ops>>

RefreshStep(j) == Fetched(j) \/ Merge(j) \/ Record(j)

-----------------------------------------------------------------------------
(* The handlers.                                                             *)

CreateSubscription(r, n, u, auto) ==
    LET s == [name |-> n, url |-> u, auto |-> auto, fresh |-> FALSE, err |-> FALSE] IN
    /\ Operation /\ job[r] = NoJob
    /\ mem[Slug[n]] = None
    /\ Add([mem EXCEPT ![Slug[n]] = s])
    /\ IF mem' = mem THEN UNCHANGED job ELSE Begin(r, "fetch", n, u)
    /\ ConfigFrame /\ UNCHANGED <<sweep, excused>>

UpdateSubscription(id, u, auto) ==
    /\ Operation /\ mem[id] # None
    /\ Persist([mem EXCEPT ![id].url = u, ![id].auto = auto])
    /\ ConfigFrame /\ UNCHANGED <<sweep, job, excused>>

RefreshSubscription(r, id) ==
    /\ Operation /\ mem[id] # None
    /\ Begin(r, "fetch", mem[id].name, mem[id].url)
    /\ NoFault /\ StoreFrame /\ ConfigFrame /\ UNCHANGED <<sweep, excused>>

DeleteSubscription(r, id) ==
    /\ Operation /\ mem[id] # None
    /\ Begin(r, "remove", mem[id].name, mem[id].url)
    /\ NoFault /\ StoreFrame /\ ConfigFrame /\ UNCHANGED <<sweep, excused>>

\* Another subscription of the group, or a refresh whose result is not yet
\* recorded, believes in the nodes.
Believed(r, g) == \/ \E n \in Names \ {job[r].name} : Present(n) /\ Group[n] = g
                  \/ \E j \in Jobs : job[j].at = "record" /\ Group[job[j].name] = g

\* RemoveSubscriptionOutbounds; two names may share the group.
RemoveNodes(r, next) ==
    LET g == Group[job[r].name] IN
    /\ Stage([Working EXCEPT ![g] = None], g, Believed(r, g))
    /\ IF faults' = faults THEN Goto(r, next) ELSE Set(r, NoJob)
    /\ StoreFrame

Forget(r, next) ==
    LET id == Slug[job[r].name] IN
    /\ IF mem[id] = None THEN StoreFrame /\ NoFault ELSE Persist([mem EXCEPT ![id] = None])
    /\ IF next = "idle" THEN Set(r, NoJob) ELSE Goto(r, next)
    /\ excused' = excused \cup Usurped(r)
    /\ UNCHANGED draft

\* Mutant: the store forgets the subscription first.
DeleteStoreFirst(r) ==
    /\ \/ job[r].at = "remove" /\ Forget(r, "forget")
       \/ job[r].at = "forget" /\ RemoveNodes(r, "done")
    /\ UNCHANGED <<active, sweep, ops>>

\* The outbounds first; the store only when that worked.
DeleteStep(r) ==
    /\ \/ job[r].at = "remove" /\ RemoveNodes(r, "forget")
       \/ job[r].at = "forget" /\ Forget(r, "idle")
    /\ UNCHANGED <<active, sweep, ops>>

-----------------------------------------------------------------------------
(* The loop.                                                                 *)

\* Mutant: a subscription whose last refresh failed is left alone.
DueUnlessFailed(s) == s.auto /\ ~s.fresh /\ ~s.err

Due(s) == s.auto /\ ~s.fresh

\* A tick takes a list of copies and refreshes those that were due in it.
Tick ==
    /\ sweep = {} /\ job[Loop] = NoJob
    /\ sweep' = {mem[id] : id \in {i \in Ids : mem[i] # None /\ Due(mem[i])}}
    /\ sweep' # {}
    /\ NoFault /\ StoreFrame /\ ConfigFrame /\ UNCHANGED <<job, excused, ops>>

NextDue ==
    /\ \E s \in sweep : Begin(Loop, "fetch", s.name, s.url) /\ sweep' = sweep \ {s}
    /\ NoFault /\ StoreFrame /\ ConfigFrame /\ UNCHANGED <<excused, ops>>

LoopStep == Tick \/ NextDue \/ RefreshStep(Loop)

-----------------------------------------------------------------------------
(* The rest of the panel, and time.                                          *)

Discard == /\ draft # None /\ draft' = None
           /\ excused' = excused \cup Changed(None)
           /\ NoFault /\ StoreFrame /\ UNCHANGED <<active, sweep, job, ops>>

Apply == /\ draft # None /\ active' = draft /\ draft' = None
         /\ NoFault /\ StoreFrame /\ UNCHANGED <<sweep, job, excused, ops>>

\* The interval passes.
Lapse(id) ==
    LET Stale(s) == IF s[id] = None THEN s ELSE [s EXCEPT ![id].fresh = FALSE] IN
    /\ Operation /\ mem[id] # None /\ mem[id].fresh
    /\ mem' = Stale(mem) /\ disk' = Stale(disk)
    /\ NoFault /\ ConfigFrame /\ UNCHANGED <<sweep, job, excused>>

\* Load; the draft of before is removed unread (CleanupDraft).
Restart ==
    /\ Fault("restart")
    /\ mem' = disk /\ draft' = None
    /\ sweep' = {} /\ job' = [j \in Jobs |-> NoJob]
    /\ excused' = excused \cup Changed(None)
                     \cup {Group[n] : n \in {m \in Names : mem[Slug[m]] # disk[Slug[m]]}}
                     \cup {g \in Groups : BeingDeleted(g)}
    /\ UNCHANGED <<disk, active, ops>>

-----------------------------------------------------------------------------
SubInit ==
    /\ mem = [id \in Ids |-> None] /\ disk = mem
    /\ active = [g \in Groups |-> None] /\ draft = None
    /\ sweep = {} /\ job = [j \in Jobs |-> NoJob] /\ excused = {}
    /\ ops = 0 /\ faults = 0

SubNext ==
    \/ \E r \in Requests :
         \/ \E n \in Names, u \in Urls, a \in BOOLEAN : CreateSubscription(r, n, u, a)
         \/ \E id \in Ids : RefreshSubscription(r, id) \/ DeleteSubscription(r, id)
         \/ RefreshStep(r) \/ DeleteStep(r)
    \/ \E id \in Ids : \/ Lapse(id)
                       \/ \E u \in Urls, a \in BOOLEAN : UpdateSubscription(id, u, a)
    \/ LoopStep
    \/ Discard \/ Apply \/ Restart

SubSafety == SubInit /\ [][SubNext]_subVars

\* The hourly ticker runs for ever.
SubSpec == SubSafety /\ WF_subVars(LoopStep)

-----------------------------------------------------------------------------
SubTypeOK ==
    /\ mem \in [Ids -> Subscription \cup {None}] /\ disk \in [Ids -> Subscription \cup {None}]
    /\ active \in Sections /\ draft \in Sections \cup {None}

\* A group in the section belongs to a subscription, wherever a deletion
\* stops, unless since its last clean write a refresh overlapped the deletion,
\* its id went to another name, or the draft was lost: discarded, refused by
\* the disk, or removed at a start of the panel (DeleteSubscription removes
\* the store entry and its outbounds).
NoOrphans == \A g \in Groups : Working[g] # None => g \in excused \/ Owner(g)

\* A subscription that says it was just refreshed has its nodes in the
\* section, unless since the last clean write of its group the draft was lost
\* (discarded, refused by the disk, removed at a start), another subscription
\* of the group was deleted, a deletion was overlapped or cut short, or the
\* result was for an earlier name of its id (SetResult: success bumps
\* LastUpdated).
FreshHasNodes ==
    \A n \in Names : Present(n) /\ mem[Slug[n]].fresh
        => Group[n] \in excused \/ Working[Group[n]] # None \/ \E r \in Requests : job[r].at = "forget" /\ job[r].name = n

\* A due subscription is refreshed in the end, whatever failed before and
\* whatever handlers do meanwhile: "Errors land in the store's LastError and
\* never stop the loop" (RunRefreshLoop).
EventuallyRefreshed ==
    \A id \in Ids : (mem[id] # None /\ Due(mem[id])) ~> (mem[id] = None \/ mem[id].fresh \/ ~mem[id].auto)
=============================================================================
