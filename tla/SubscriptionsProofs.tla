------------------------ MODULE SubscriptionsProofs ------------------------
(***************************************************************************)
(* For any names, slugs, groups, number of handlers and bounds: what the   *)
(* section holds belongs to a subscription, and a subscription that says   *)
(* it is fresh has its nodes.                                              *)
(***************************************************************************)
EXTENDS Subscriptions, TLAPS

Busy == {"fetch", "merge", "record", "remove", "forget"}

Job == [at : Busy \cup {"idle"}, name : Names \cup {None}, url : Urls \cup {None}, ok : BOOLEAN]

\* A job at work names a subscription and the URL it was given.
StateOK == /\ SubTypeOK
           /\ job \in [Jobs -> Job] /\ sweep \subseteq Subscription /\ faults \in Nat
           /\ \A j \in Jobs : job[j].at \in Busy => job[j].name \in Names /\ job[j].url \in Urls

Nodeless(g) == Working[g] = None

\* Between the two halves of a deletion the nodes are gone.
RemovedFirst == \A r \in Requests : job[r].at = "forget" =>
                    Group[job[r].name] \in excused \/ Nodeless(Group[job[r].name])

\* A result about to be recorded as a success has put its nodes there.
MergedFirst == \A j \in Jobs : job[j].at = "record" /\ job[j].ok =>
                   Group[job[j].name] \in excused \/ ~Nodeless(Group[job[j].name])

SubsInv == StateOK /\ RemovedFirst /\ MergedFirst /\ NoOrphans /\ FreshHasNodes

-----------------------------------------------------------------------------
(* The state.                                                                *)

LEMMA WorkingOK == ASSUME SubTypeOK PROVE Working \in Sections
BY DEF SubTypeOK, Working

LEMMA InitOK == SubInit => SubsInv
<1> SUFFICES ASSUME SubInit PROVE SubsInv OBVIOUS
<1> USE SubsAssumption
<1>1. NoJob \in Job BY DEF NoJob, Job
<1>2. StateOK BY <1>1 DEF SubInit, StateOK, SubTypeOK, NoJob, Busy, Sections
<1>3. RemovedFirst /\ MergedFirst BY DEF SubInit, RemovedFirst, MergedFirst, NoJob, Jobs
<1>4. Working = active BY DEF SubInit, Working
<1>5. NoOrphans BY <1>4 DEF SubInit, NoOrphans
<1>6. FreshHasNodes BY DEF SubInit, FreshHasNodes, Present
<1> QED BY <1>2, <1>3, <1>5, <1>6 DEF SubsInv

\* Stage leaves every group as edited, or excuses it; only the group edited is
\* ever settled, and only without a race.
LEMMA StageEffect ==
    ASSUME SubTypeOK, NEW d \in Sections, NEW g \in Groups, NEW raced,
           \A h \in Groups \ {g} : d[h] = Working[h], Stage(d, g, raced), UNCHANGED active
    PROVE  /\ draft' \in Sections \cup {None}
           /\ \A h \in Groups \ {g} : h \in excused => h \in excused'
           /\ raced => g \in excused'
           /\ \A h \in Groups : h \in excused' \/ Working'[h] = d[h]
           /\ faults \in Nat => faults' \in Nat
           /\ faults \in Nat /\ faults' = faults => Working' = d
           /\ faults \in Nat /\ faults' # faults => g \in excused'
<1> USE SubsAssumption
<1>1. draft' \in Sections \cup {None} BY DEF Stage, SubTypeOK
<1>2. \A h \in Groups \ {g} : h \in excused => h \in excused' BY DEF Stage
<1>3. raced \/ faults' # faults => g \in excused' BY DEF Stage, NoFault
<1>4. ASSUME NEW h \in Groups, h \notin excused' PROVE Working'[h] = d[h]
  <2>1. CASE draft' = d BY <2>1 DEF Working
  <2>2. CASE draft' # d
    <3>1. draft' = None /\ h \notin Changed(None) /\ h # g BY <1>4, <2>2 DEF Stage
    <3>2. active[h] = Working[h] BY <3>1 DEF Changed
    <3> QED BY <3>1, <3>2 DEF Working
  <2> QED BY <2>1, <2>2
<1>5. faults \in Nat => faults' \in Nat BY DEF Stage, NoFault, Fault
<1>6. faults \in Nat /\ faults' = faults => Working' = d BY DEF Stage, Fault, Working
<1> QED BY <1>1, <1>2, <1>3, <1>4, <1>5, <1>6

LEMMA RecordOK == ASSUME StateOK, NEW id \in Ids, mem[id] # None PROVE mem[id] \in Subscription
BY DEF StateOK, SubTypeOK

LEMMA SetOK ==
    ASSUME StateOK, NEW j \in Jobs, NEW b \in Job, Set(j, b),
           b.at \in Busy => b.name \in Names /\ b.url \in Urls
    PROVE  /\ job' \in [Jobs -> Job] /\ job'[j] = b
           /\ \A i \in Jobs \ {j} : job'[i] = job[i]
           /\ \A i \in Jobs : job'[i].at \in Busy => job'[i].name \in Names /\ job'[i].url \in Urls
BY DEF StateOK, Set

LEMMA GotoOK ==
    ASSUME StateOK, NEW j \in Jobs, NEW at \in Busy \cup {"idle"}, job[j].at \in Busy
    PROVE  /\ [job[j] EXCEPT !.at = at] \in Job
           /\ [job[j] EXCEPT !.at = at].at = at
           /\ [job[j] EXCEPT !.at = at].name = job[j].name
           /\ [job[j] EXCEPT !.at = at].url = job[j].url
           /\ [job[j] EXCEPT !.at = at].ok = job[j].ok
BY DEF StateOK, Job

LEMMA BeginOK ==
    ASSUME StateOK, NEW j \in Jobs, NEW at \in Busy, NEW n \in Names, NEW u \in Urls, Begin(j, at, n, u)
    PROVE  /\ job' \in [Jobs -> Job]
           /\ job'[j].at = at /\ job'[j].name = n
           /\ \A i \in Jobs \ {j} : job'[i] = job[i]
           /\ \A i \in Jobs : job'[i].at \in Busy => job'[i].name \in Names /\ job'[i].url \in Urls
<1> DEFINE b == [NoJob EXCEPT !.at = at, !.name = n, !.url = u]
<1>1. b \in Job /\ b.at = at /\ b.name = n /\ b.url = u BY DEF NoJob, Job
<1>2. Set(j, b) BY DEF Begin
<1> QED BY <1>1, <1>2, SetOK

-----------------------------------------------------------------------------
(* What a step on the jobs and the store alone must respect.                 *)

\* No deletion is half done, and no success about to be recorded, that was
\* not so before.
Follows(j) == \/ job'[j] = job[j]
              \/ job'[j].at \notin {"forget", "record"}
              \/ job'[j].at = "record" /\ ~job'[j].ok

LEMMA JobsFollow ==
    ASSUME RemovedFirst, MergedFirst, ConfigFrame, excused \subseteq excused', \A j \in Jobs : Follows(j)
    PROVE  RemovedFirst' /\ MergedFirst'
<1>1. Working' = Working BY DEF ConfigFrame, Working
<1>2. RemovedFirst' BY <1>1 DEF RemovedFirst, Follows, Jobs, Nodeless
<1>3. MergedFirst' BY <1>1 DEF MergedFirst, Follows, Nodeless
<1> QED BY <1>2, <1>3

\* A subscription stays, or what becomes of its group is accounted for.
Stays(n) == \/ Present(n) /\ Present(n)'
            \/ ~Present(n)
            \/ Group[n] \in excused' \/ Nodeless(Group[n])

\* A subscription is fresh only if it was.
Ages(n) == Present(n)' /\ mem'[Slug[n]].fresh =>
               \/ Present(n) /\ mem[Slug[n]].fresh
               \/ Group[n] \in excused' \/ ~Nodeless(Group[n])

LEMMA StoreFollows ==
    ASSUME NoOrphans, FreshHasNodes, ConfigFrame, excused \subseteq excused',
           \A n \in Names : Stays(n) /\ Ages(n),
           \A r \in Requests, n \in Names : job[r].at = "forget" /\ job[r].name = n =>
               \/ job'[r].at = "forget" /\ job'[r].name = n
               \/ ~Present(n)'
    PROVE  NoOrphans' /\ FreshHasNodes'
<1>1. Working' = Working BY DEF ConfigFrame, Working
<1>2. NoOrphans'
  <2> SUFFICES ASSUME NEW g \in Groups, Working[g] # None, g \notin excused' PROVE Owner(g)'
    BY <1>1 DEF NoOrphans
  <2>1. PICK n \in Names : Present(n) /\ Group[n] = g BY DEF NoOrphans, Owner
  <2>2. Present(n)' BY <2>1 DEF Stays, Nodeless
  <2> QED BY <2>1, <2>2 DEF Owner
<1>3. FreshHasNodes'
  <2> SUFFICES ASSUME NEW n \in Names, Present(n)', mem'[Slug[n]].fresh,
                      Group[n] \notin excused', Nodeless(Group[n])
               PROVE  \E r \in Requests : job'[r].at = "forget" /\ job'[r].name = n
    BY <1>1 DEF FreshHasNodes, Nodeless
  <2>1. Present(n) /\ mem[Slug[n]].fresh BY DEF Ages
  <2>2. PICK r \in Requests : job[r].at = "forget" /\ job[r].name = n
    BY <2>1 DEF FreshHasNodes, Nodeless
  <2> QED BY <2>2
<1> QED BY <1>2, <1>3

Stores == [Ids -> Subscription \cup {None}]

Busied == /\ job' \in [Jobs -> Job]
          /\ \A i \in Jobs : job'[i].at \in Busy => job'[i].name \in Names /\ job'[i].url \in Urls

LEMMA ConfigKept ==
    ASSUME SubsInv, ConfigFrame, excused \subseteq excused',
           mem' \in Stores, disk' \in Stores, sweep' \subseteq Subscription, faults' \in Nat, Busied,
           \A j \in Jobs : Follows(j),
           \A n \in Names : Stays(n) /\ Ages(n),
           \A r \in Requests, n \in Names : job[r].at = "forget" /\ job[r].name = n =>
               \/ job'[r].at = "forget" /\ job'[r].name = n
               \/ ~Present(n)'
    PROVE  SubsInv'
<1>1. RemovedFirst' /\ MergedFirst' BY JobsFollow DEF SubsInv
<1>2. NoOrphans' /\ FreshHasNodes' BY StoreFollows DEF SubsInv
<1>3. StateOK' BY DEF SubsInv, StateOK, SubTypeOK, ConfigFrame, Stores, Busied
<1> QED BY <1>1, <1>2, <1>3 DEF SubsInv

\* A step that leaves the store alone as well.
LEMMA StoreKept ==
    ASSUME SubsInv, ConfigFrame, StoreFrame, UNCHANGED excused,
           sweep' \subseteq Subscription, faults' \in Nat, Busied,
           \A j \in Jobs : Follows(j),
           \A j \in Jobs : job[j].at = "forget" => job'[j] = job[j]
    PROVE  SubsInv'
<1>1. mem' \in Stores /\ disk' \in Stores BY DEF SubsInv, StateOK, SubTypeOK, StoreFrame, Stores
<1>2. \A n \in Names : Stays(n) /\ Ages(n) BY DEF Stays, Ages, StoreFrame, Present
<1> QED BY <1>1, <1>2, ConfigKept DEF Jobs

-----------------------------------------------------------------------------
(* The steps that touch jobs and sweep only.                                 *)

LEMMA FaultsOK == ASSUME StateOK PROVE /\ NoFault => faults' \in Nat
                                       /\ \A k : Fault(k) => faults' \in Nat
BY DEF StateOK, NoFault, Fault

LEMMA FetchedOK == ASSUME SubsInv, NEW j \in Jobs, Fetched(j) PROVE SubsInv'
<1> StateOK BY DEF SubsInv
<1>1. faults' \in Nat BY FaultsOK DEF Fetched
<1>2. job[j] \in Job /\ job[j].name \in Names /\ job[j].url \in Urls BY DEF StateOK, Fetched, Busy
<1>3. PICK b \in Job : Set(j, b) /\ b.name = job[j].name /\ b.url = job[j].url
                       /\ (b.at = "merge" \/ (b.at = "record" /\ ~b.ok))
  <2>1. CASE Goto(j, "merge")
    <3> DEFINE b == [job[j] EXCEPT !.at = "merge"]
    <3>1. b \in Job /\ b.at = "merge" /\ b.name = job[j].name /\ b.url = job[j].url
      BY <1>2, GotoOK DEF Fetched, Busy
    <3>2. Set(j, b) BY <2>1 DEF Goto
    <3> HIDE DEF b
    <3> QED BY <3>1, <3>2
  <2>2. CASE Set(j, [job[j] EXCEPT !.at = "record", !.ok = FALSE])
    <3> DEFINE b == [job[j] EXCEPT !.at = "record", !.ok = FALSE]
    <3>1. b \in Job /\ b.at = "record" /\ b.name = job[j].name /\ b.url = job[j].url /\ ~b.ok
      BY <1>2 DEF Job, Busy
    <3>2. Set(j, b) BY <2>2
    <3> HIDE DEF b
    <3> QED BY <3>1, <3>2
  <2> QED BY <2>1, <2>2 DEF Fetched
<1>4. Busied /\ job'[j] = b /\ \A i \in Jobs \ {j} : job'[i] = job[i]
  BY <1>2, <1>3, SetOK DEF Busied
<1>5. \A i \in Jobs : Follows(i) BY <1>3, <1>4 DEF Follows
<1>6. \A i \in Jobs : job[i].at = "forget" => job'[i] = job[i] BY <1>4 DEF Fetched
<1>7. sweep' \subseteq Subscription BY DEF Fetched, StateOK
<1> QED BY <1>1, <1>4, <1>5, <1>6, <1>7, StoreKept DEF Fetched

LEMMA BeginsOK ==
    ASSUME SubsInv, NEW j \in Jobs, NEW at \in {"fetch", "remove"}, NEW n \in Names, NEW u \in Urls,
           Begin(j, at, n, u), ConfigFrame, StoreFrame, UNCHANGED excused, NoFault,
           sweep' \subseteq Subscription
    PROVE  SubsInv'
<1> StateOK BY DEF SubsInv
<1>1. faults' \in Nat BY FaultsOK
<1>2. Busied /\ job'[j].at = at /\ \A i \in Jobs \ {j} : job'[i] = job[i]
  BY BeginOK DEF Busied, Busy
<1>3. \A i \in Jobs : Follows(i) BY <1>2 DEF Follows
<1>4. job[j].at = "idle" BY DEF Begin, NoJob
<1> QED BY <1>1, <1>2, <1>3, <1>4, StoreKept

LEMMA RefreshSubscriptionOK ==
    ASSUME SubsInv, NEW r \in Requests, NEW id \in Ids, RefreshSubscription(r, id) PROVE SubsInv'
<1>1. mem[id] \in Subscription BY RecordOK DEF SubsInv, RefreshSubscription
<1>2. mem[id].name \in Names /\ mem[id].url \in Urls BY <1>1 DEF Subscription
<1>3. sweep' \subseteq Subscription BY DEF RefreshSubscription, SubsInv, StateOK
<1> QED BY <1>2, <1>3, BeginsOK DEF RefreshSubscription, Jobs

LEMMA DeleteSubscriptionOK ==
    ASSUME SubsInv, NEW r \in Requests, NEW id \in Ids, DeleteSubscription(r, id) PROVE SubsInv'
<1>1. mem[id] \in Subscription BY RecordOK DEF SubsInv, DeleteSubscription
<1>2. mem[id].name \in Names /\ mem[id].url \in Urls BY <1>1 DEF Subscription
<1>3. sweep' \subseteq Subscription BY DEF DeleteSubscription, SubsInv, StateOK
<1> QED BY <1>2, <1>3, BeginsOK DEF DeleteSubscription, Jobs

LEMMA TickOK == ASSUME SubsInv, Tick PROVE SubsInv'
<1>1. sweep' \subseteq Subscription BY RecordOK DEF Tick, SubsInv
<1>2. faults' \in Nat /\ Busied BY FaultsOK DEF Tick, SubsInv, StateOK, Busied
<1>3. \A j \in Jobs : Follows(j) /\ job'[j] = job[j] BY DEF Tick, Follows
<1> QED BY <1>1, <1>2, <1>3, StoreKept DEF Tick

LEMMA NextDueOK == ASSUME SubsInv, NextDue PROVE SubsInv'
<1>1. PICK s \in sweep : Begin(Loop, "fetch", s.name, s.url) /\ sweep' = sweep \ {s} BY DEF NextDue
<1>2. s.name \in Names /\ s.url \in Urls /\ sweep' \subseteq Subscription
  BY <1>1 DEF SubsInv, StateOK, Subscription
<1> QED BY <1>1, <1>2, BeginsOK DEF NextDue, Jobs

-----------------------------------------------------------------------------
(* The steps that write the store.                                           *)

LEMMA PersistOK ==
    ASSUME StateOK, NEW m \in Stores, Persist(m)
    PROVE  mem' = m /\ disk' \in Stores /\ faults' \in Nat
BY FaultsOK DEF Persist, StateOK, SubTypeOK, Stores

LEMMA CreateSubscriptionOK ==
    ASSUME SubsInv, NEW r \in Requests, NEW n \in Names, NEW u \in Urls, NEW auto \in BOOLEAN,
           CreateSubscription(r, n, u, auto)
    PROVE  SubsInv'
<1> USE SubsAssumption
<1> DEFINE s == [name |-> n, url |-> u, auto |-> auto, fresh |-> FALSE, err |-> FALSE]
           m == [mem EXCEPT ![Slug[n]] = s]
<1> StateOK BY DEF SubsInv
<1>1. s \in Subscription /\ s.name = n /\ ~s.fresh BY DEF Subscription
<1>2. m \in Stores /\ m[Slug[n]] = s /\ \A id \in Ids \ {Slug[n]} : m[id] = mem[id]
  BY <1>1 DEF StateOK, SubTypeOK, Stores
<1>3. mem[Slug[n]] = None /\ job[r] = NoJob /\ Add(m) /\ ConfigFrame /\ UNCHANGED <<sweep, excused>>
  BY DEF CreateSubscription
<1>4. sweep' \subseteq Subscription /\ faults' \in Nat BY <1>3, FaultsOK DEF StateOK, Add
<1>5. job[r].at = "idle" BY <1>3 DEF NoJob
<1>6. CASE mem' = mem
  <2>1. UNCHANGED job BY <1>6 DEF CreateSubscription
  <2>2. m # mem BY <1>1, <1>2, <1>3
  <2>3. StoreFrame BY <1>3, <1>6, <2>2 DEF Add
  <2> QED BY <1>3, <1>4, <2>1, <2>3, StoreKept DEF Follows, Busied, StateOK
<1>7. CASE mem' # mem
  <2>1. mem' = m /\ disk' = m BY <1>3, <1>7 DEF Add, StoreFrame
  <2>2. Begin(r, "fetch", n, u) BY <1>7 DEF CreateSubscription
  <2>3. Busied /\ job'[r].at = "fetch" /\ \A i \in Jobs \ {r} : job'[i] = job[i]
    BY <2>2, BeginOK DEF Busied, Busy, Jobs
  <2>4. \A i \in Jobs : Follows(i) BY <2>3 DEF Follows
  <2>5. \A i \in Requests : job[i].at = "forget" => job'[i] = job[i] BY <1>5, <2>3 DEF Jobs
  <2>6. \A k \in Names : Stays(k) BY <1>1, <1>2, <1>3, <2>1 DEF Stays, Present
  <2>7. \A k \in Names : Ages(k) BY <1>1, <1>2, <2>1 DEF Ages, Present
  <2> HIDE DEF m, s
  <2> QED BY <1>2, <1>3, <1>4, <2>1, <2>3, <2>4, <2>5, <2>6, <2>7, ConfigKept
<1> QED BY <1>6, <1>7

\* Rewriting a record under its own name, no fresher than it was.
LEMMA RewriteOK ==
    ASSUME SubsInv, NEW id \in Ids, mem[id] # None, NEW s \in Subscription,
           s.name = mem[id].name, s.fresh => mem[id].fresh,
           NEW m \in Stores, m = [mem EXCEPT ![id] = s], mem' = m, disk' \in Stores, faults' \in Nat,
           ConfigFrame, UNCHANGED <<sweep, job, excused>>
    PROVE  SubsInv'
<1> USE SubsAssumption
<1>1. m[id] = s /\ \A i \in Ids \ {id} : m[i] = mem[i] BY DEF SubsInv, StateOK, SubTypeOK
<1>2. \A k \in Names : Stays(k) BY <1>1 DEF Stays, Present
<1>3. \A k \in Names : Ages(k) BY <1>1 DEF Ages, Present
<1>4. \A i \in Jobs : Follows(i) BY DEF Follows
<1>5. sweep' \subseteq Subscription /\ Busied BY DEF SubsInv, StateOK, Busied
<1> QED BY <1>2, <1>3, <1>4, <1>5, ConfigKept

LEMMA UpdateSubscriptionOK ==
    ASSUME SubsInv, NEW id \in Ids, NEW u \in Urls, NEW auto \in BOOLEAN, UpdateSubscription(id, u, auto)
    PROVE  SubsInv'
<1> DEFINE s == [mem[id] EXCEPT !.url = u, !.auto = auto]
           m == [mem EXCEPT ![id] = s]
<1> StateOK BY DEF SubsInv
<1>1. mem[id] # None /\ mem[id] \in Subscription BY RecordOK DEF UpdateSubscription
<1>2. s \in Subscription /\ s.name = mem[id].name /\ s.fresh = mem[id].fresh
  BY <1>1 DEF Subscription
<1>3. m \in Stores BY <1>2 DEF StateOK, SubTypeOK, Stores
<1>4. [mem EXCEPT ![id].url = u, ![id].auto = auto] = m BY <1>1 DEF StateOK, SubTypeOK
<1>5. Persist(m) /\ ConfigFrame /\ UNCHANGED <<sweep, job, excused>> BY <1>4 DEF UpdateSubscription
<1>6. mem' = m /\ disk' \in Stores /\ faults' \in Nat BY <1>3, <1>5, PersistOK
<1> HIDE DEF s
<1> QED BY <1>1, <1>2, <1>3, <1>5, <1>6, RewriteOK

LEMMA LapseOK == ASSUME SubsInv, NEW id \in Ids, Lapse(id) PROVE SubsInv'
<1> DEFINE s == [mem[id] EXCEPT !.fresh = FALSE]
           m == [mem EXCEPT ![id] = s]
<1> StateOK BY DEF SubsInv
<1>1. mem[id] # None /\ mem[id] \in Subscription BY RecordOK DEF Lapse
<1>2. s \in Subscription /\ s.name = mem[id].name /\ ~s.fresh BY <1>1 DEF Subscription
<1>3. m \in Stores BY <1>2 DEF StateOK, SubTypeOK, Stores
<1>4. mem' = m BY <1>1 DEF Lapse, StateOK, SubTypeOK
<1>5. disk' \in Stores
  <2>1. CASE disk[id] = None BY <2>1 DEF Lapse, StateOK, SubTypeOK, Stores
  <2>2. CASE disk[id] # None
    <3>1. disk[id] \in Subscription BY <2>2 DEF StateOK, SubTypeOK
    <3>2. [disk[id] EXCEPT !.fresh = FALSE] \in Subscription BY <3>1 DEF Subscription
    <3>3. disk' = [disk EXCEPT ![id] = [disk[id] EXCEPT !.fresh = FALSE]]
      BY <2>2 DEF Lapse, StateOK, SubTypeOK
    <3> QED BY <3>2, <3>3 DEF StateOK, SubTypeOK, Stores
  <2> QED BY <2>1, <2>2
<1>6. faults' \in Nat /\ ConfigFrame /\ UNCHANGED <<sweep, job, excused>> BY FaultsOK DEF Lapse
<1> HIDE DEF s
<1> QED BY <1>1, <1>2, <1>3, <1>4, <1>5, <1>6, RewriteOK

LEMMA NoJobOK ==
    ASSUME StateOK, NEW j \in Jobs, Set(j, NoJob)
    PROVE  Busied /\ job'[j].at = "idle" /\ \A i \in Jobs \ {j} : job'[i] = job[i]
<1>1. NoJob \in Job /\ NoJob.at = "idle" BY DEF NoJob, Job
<1> QED BY <1>1, SetOK DEF Busy, Busied

LEMMA RecordStepOK == ASSUME SubsInv, NEW j \in Jobs, Record(j) PROVE SubsInv'
<1> USE SubsAssumption
<1> DEFINE n == job[j].name
           id == Slug[n]
           s == Result(mem[id], job[j].ok)
           m == [mem EXCEPT ![id] = s]
<1> StateOK BY DEF SubsInv
<1>1. n \in Names /\ id \in Ids /\ job[j].ok \in BOOLEAN BY DEF Record, StateOK, Busy, Job
<1>2. Busied /\ (\A i \in Jobs : Follows(i)) /\ \A i \in Jobs \ {j} : job'[i] = job[i]
  BY NoJobOK DEF Record, Follows
<1>3. ConfigFrame /\ excused \subseteq excused' /\ Usurped(j) \subseteq excused'
  BY DEF Record
<1>4. \A r \in Requests, k \in Names : job[r].at = "forget" /\ job[r].name = k =>
          job'[r].at = "forget" /\ job'[r].name = k
  BY <1>2 DEF Record, Jobs
<1>5. sweep' \subseteq Subscription BY DEF Record, StateOK
<1>6. CASE mem[id] = None
  <2>1. StoreFrame /\ faults' \in Nat BY <1>6, FaultsOK DEF Record
  <2>2. \A k \in Names : Stays(k) /\ Ages(k) BY <2>1 DEF StoreFrame, Stays, Ages, Present
  <2>3. mem' \in Stores /\ disk' \in Stores BY <2>1 DEF StoreFrame, StateOK, SubTypeOK, Stores
  <2> QED BY <1>2, <1>3, <1>4, <1>5, <2>1, <2>2, <2>3, ConfigKept
<1>7. CASE mem[id] # None
  <2>1. mem[id] \in Subscription BY <1>1, <1>7, RecordOK
  <2>2. s \in Subscription /\ s.name = mem[id].name /\ s.fresh = (mem[id].fresh \/ job[j].ok)
    BY <1>1, <2>1 DEF Subscription, Result
  <2>3. m \in Stores /\ m[id] = s /\ \A i \in Ids \ {id} : m[i] = mem[i]
    BY <1>1, <2>2 DEF StateOK, SubTypeOK, Stores
  <2>4. Persist([mem EXCEPT ![id] = Result(@, job[j].ok)]) BY <1>7 DEF Record
  <2>5. [mem EXCEPT ![id] = Result(@, job[j].ok)] = m BY <1>1 DEF StateOK, SubTypeOK
  <2>6. mem' = m /\ disk' \in Stores /\ faults' \in Nat BY <2>3, <2>4, <2>5, PersistOK
  <2> HIDE DEF m, s
  <2>7. \A k \in Names : Stays(k) BY <1>7, <2>1, <2>2, <2>3, <2>6 DEF Stays, Present
  <2>8. ASSUME NEW k \in Names, Present(k)', mem'[Slug[k]].fresh,
               ~(Present(k) /\ mem[Slug[k]].fresh), Group[k] \notin excused'
        PROVE  ~Nodeless(Group[k])
    <3>1. Slug[k] = id /\ mem[id].name = k BY <2>2, <2>3, <2>6, <2>8 DEF Present
    <3>2. Present(k) BY <1>7, <3>1 DEF Present
    <3>3. job[j].ok BY <2>2, <2>3, <2>6, <2>8, <3>1, <3>2
    <3>4. k = n
      <4> SUFFICES ASSUME k # n PROVE FALSE OBVIOUS
      <4>1. Usurped(j) = {Group[k]} BY <1>7, <3>1 DEF Usurped
      <4> QED BY <1>3, <2>8, <4>1
    <3> QED BY <1>3, <2>8, <3>3, <3>4 DEF SubsInv, MergedFirst, Record
  <2>9. \A k \in Names : Ages(k) BY <2>8 DEF Ages
  <2> QED BY <1>2, <1>3, <1>4, <1>5, <2>3, <2>6, <2>7, <2>9, ConfigKept
<1> QED BY <1>6, <1>7

\* The second half of a deletion.
LEMMA ForgetOK ==
    ASSUME SubsInv, NEW r \in Requests, job[r].at = "forget", Forget(r, "idle"),
           UNCHANGED <<active, sweep, ops>>
    PROVE  SubsInv'
<1> USE SubsAssumption
<1> DEFINE n == job[r].name
           id == Slug[n]
           m == [mem EXCEPT ![id] = None]
<1> StateOK /\ r \in Jobs BY DEF SubsInv, Jobs
<1>1. n \in Names /\ id \in Ids BY DEF StateOK, Busy
<1>2. Busied /\ (\A i \in Jobs : Follows(i)) /\ \A i \in Jobs \ {r} : job'[i] = job[i]
  BY NoJobOK DEF Forget, Follows
<1>3. ConfigFrame /\ excused \subseteq excused' /\ Usurped(r) \subseteq excused'
  BY DEF Forget, ConfigFrame
<1>4. sweep' \subseteq Subscription BY DEF StateOK
<1>5. /\ mem' \in Stores /\ disk' \in Stores /\ faults' \in Nat
      /\ mem'[id] = None /\ \A i \in Ids \ {id} : mem'[i] = mem[i]
  <2>1. CASE mem[id] = None
    BY <1>1, <2>1, FaultsOK DEF Forget, StoreFrame, StateOK, SubTypeOK, Stores
  <2>2. CASE mem[id] # None
    <3>1. m \in Stores /\ m[id] = None /\ \A i \in Ids \ {id} : m[i] = mem[i]
      BY <1>1 DEF StateOK, SubTypeOK, Stores
    <3>2. Persist(m) BY <2>2 DEF Forget
    <3> HIDE DEF m
    <3> QED BY <3>1, <3>2, PersistOK
  <2> QED BY <2>1, <2>2
<1>6. ASSUME NEW k \in Names, Present(k), ~Present(k)', Group[k] \notin excused'
      PROVE  Nodeless(Group[k])
  <2>1. Slug[k] = id /\ mem[id] # None /\ mem[id].name = k BY <1>5, <1>6 DEF Present
  <2>2. k = n
    <3> SUFFICES ASSUME k # n PROVE FALSE OBVIOUS
    <3>1. Usurped(r) = {Group[k]} BY <2>1 DEF Usurped
    <3> QED BY <1>3, <1>6, <3>1
  <2> QED BY <1>3, <1>6, <2>2 DEF SubsInv, RemovedFirst
<1>7. \A k \in Names : Stays(k) BY <1>6 DEF Stays
<1>8. \A k \in Names : Ages(k) BY <1>5 DEF Ages, Present
<1>9. \A q \in Requests, k \in Names : job[q].at = "forget" /\ job[q].name = k =>
          \/ job'[q].at = "forget" /\ job'[q].name = k
          \/ ~Present(k)'
  BY <1>2, <1>5 DEF Jobs, Present
<1> QED BY <1>2, <1>3, <1>4, <1>5, <1>7, <1>8, <1>9, ConfigKept

-----------------------------------------------------------------------------
(* The steps that write the draft.                                           *)

LEMMA MergeOK == ASSUME SubsInv, NEW j \in Jobs, Merge(j) PROVE SubsInv'
<1> USE SubsAssumption
<1> DEFINE n == job[j].name
           g == Group[n]
           u == job[j].url
           d == [Working EXCEPT ![g] = u]
           raced == ~Present(n) \/ BeingDeleted(g)
           b == [job[j] EXCEPT !.at = "record", !.ok = (faults' = faults)]
<1> StateOK /\ SubTypeOK BY DEF SubsInv, StateOK
<1>1. n \in Names /\ g \in Groups /\ u \in Urls /\ job[j] \in Job BY DEF Merge, StateOK, Busy
<1>2. Working \in Sections BY WorkingOK
<1>3. d \in Sections /\ d[g] = u /\ \A h \in Groups \ {g} : d[h] = Working[h]
  BY <1>1, <1>2 DEF Sections
<1>4. Stage(d, g, raced) /\ UNCHANGED <<active, sweep, mem, disk>> /\ job[j].at = "merge"
  BY DEF Merge, StoreFrame
<1>5. /\ draft' \in Sections \cup {None} /\ faults' \in Nat
      /\ \A h \in Groups \ {g} : h \in excused => h \in excused'
      /\ raced => g \in excused'
      /\ \A h \in Groups : h \in excused' \/ Working'[h] = d[h]
      /\ faults' = faults => Working' = d
      /\ faults' # faults => g \in excused'
  <2> HIDE DEF d, g, raced
  <2> QED BY <1>1, <1>3, <1>4, StageEffect DEF StateOK
<1>6. b \in Job /\ b.at = "record" /\ b.name = n /\ b.url = u /\ b.ok = (faults' = faults)
  BY <1>1 DEF Job, Busy
<1>7. Busied /\ job'[j] = b /\ \A i \in Jobs \ {j} : job'[i] = job[i]
  <2>1. Set(j, b) BY DEF Merge
  <2> HIDE DEF b
  <2> QED BY <1>1, <1>6, <2>1, SetOK DEF Busied
<1> HIDE DEF b, d
<1>8. StateOK' BY <1>4, <1>5, <1>7 DEF StateOK, SubTypeOK, Busied
<1>9. RemovedFirst'
  <2> SUFFICES ASSUME NEW r \in Requests, job'[r].at = "forget", Group[job'[r].name] \notin excused'
               PROVE  Working'[Group[job'[r].name]] = None
    BY DEF RemovedFirst, Nodeless
  <2>1. r # j /\ job'[r] = job[r] /\ r \in Jobs BY <1>6, <1>7 DEF Jobs
  <2>2. job[r].name \in Names /\ Group[job[r].name] \in Groups BY <2>1 DEF StateOK, Busy
  <2>4. Group[job[r].name] # g BY <1>5, <2>1 DEF BeingDeleted
  <2>3. Nodeless(Group[job[r].name]) BY <1>5, <2>1, <2>2, <2>4 DEF SubsInv, RemovedFirst
  <2> QED BY <1>3, <1>5, <2>1, <2>2, <2>3, <2>4 DEF Nodeless
<1>10. MergedFirst'
  <2> SUFFICES ASSUME NEW i \in Jobs, job'[i].at = "record", job'[i].ok,
                      Group[job'[i].name] \notin excused'
               PROVE  Working'[Group[job'[i].name]] # None
    BY DEF MergedFirst, Nodeless
  <2> DEFINE h == Group[job'[i].name]
  <2>1. h \in Groups BY <1>7 DEF Busied, Busy
  <2>2. CASE h = g BY <1>1, <1>3, <1>5, <2>2 DEF Nodeless
  <2>3. CASE h # g
    <3>1. job'[i] = job[i] BY <1>6, <1>7, <2>3
    <3>2. ~Nodeless(h) BY <1>5, <2>1, <2>3, <3>1 DEF SubsInv, MergedFirst
    <3> QED BY <1>3, <1>5, <2>1, <2>3, <3>2 DEF Nodeless
  <2> QED BY <2>2, <2>3
<1>11. \A k \in Names : Present(k)' <=> Present(k) BY <1>4 DEF Present
<1>12. NoOrphans'
  <2> SUFFICES ASSUME NEW h \in Groups, Working'[h] # None, h \notin excused' PROVE Owner(h)'
    BY DEF NoOrphans
  <2>1. CASE h = g BY <1>1, <1>5, <1>11, <2>1 DEF Owner
  <2>2. CASE h # g
    <3>1. Owner(h) BY <1>3, <1>5, <2>2 DEF SubsInv, NoOrphans
    <3> QED BY <1>11, <3>1 DEF Owner
  <2> QED BY <2>1, <2>2
<1>13. FreshHasNodes'
  <2> SUFFICES ASSUME NEW k \in Names, Present(k)', mem'[Slug[k]].fresh,
                      Group[k] \notin excused', Working'[Group[k]] = None
               PROVE  \E r \in Requests : job'[r].at = "forget" /\ job'[r].name = k
    BY DEF FreshHasNodes
  <2>1. Group[k] # g BY <1>1, <1>3, <1>5
  <2>2. Working[Group[k]] = None BY <1>3, <1>5, <2>1
  <2>3. PICK r \in Requests : job[r].at = "forget" /\ job[r].name = k
    BY <1>4, <1>5, <1>11, <2>1, <2>2 DEF SubsInv, FreshHasNodes
  <2> QED BY <1>4, <1>7, <2>3 DEF Jobs
<1> QED BY <1>8, <1>9, <1>10, <1>12, <1>13 DEF SubsInv

\* The first half of a deletion.
LEMMA RemoveNodesOK ==
    ASSUME SubsInv, NEW r \in Requests, job[r].at = "remove", RemoveNodes(r, "forget"),
           UNCHANGED <<active, sweep, ops>>
    PROVE  SubsInv'
<1> USE SubsAssumption
<1> DEFINE n == job[r].name
           g == Group[n]
           d == [Working EXCEPT ![g] = None]
           raced == Believed(r, g)
           b == IF faults' = faults THEN [job[r] EXCEPT !.at = "forget"] ELSE NoJob
<1> StateOK /\ SubTypeOK /\ r \in Jobs BY DEF SubsInv, StateOK, Jobs
<1>1. n \in Names /\ g \in Groups /\ job[r] \in Job BY DEF StateOK, Busy
<1>2. Working \in Sections BY WorkingOK
<1>3. d \in Sections /\ d[g] = None /\ \A h \in Groups \ {g} : d[h] = Working[h]
  BY <1>1, <1>2 DEF Sections
<1>4. Stage(d, g, raced) /\ UNCHANGED <<mem, disk>> BY DEF RemoveNodes, StoreFrame
<1>5. /\ draft' \in Sections \cup {None} /\ faults' \in Nat
      /\ \A h \in Groups \ {g} : h \in excused => h \in excused'
      /\ raced => g \in excused'
      /\ \A h \in Groups : h \in excused' \/ Working'[h] = d[h]
      /\ faults' = faults => Working' = d
      /\ faults' # faults => g \in excused'
  <2> HIDE DEF d, g, raced
  <2> QED BY <1>1, <1>3, <1>4, StageEffect DEF StateOK
<1>6. /\ b \in Job /\ (b.at \in Busy => b.name \in Names /\ b.url \in Urls)
      /\ b.at = "forget" => faults' = faults /\ b.name = n
      /\ b.at \in {"idle", "forget"} /\ (faults' = faults => b.at = "forget" /\ b.name = n)
  BY <1>1, GotoOK DEF Job, NoJob, StateOK, Busy
<1>7. Busied /\ job'[r] = b /\ \A i \in Jobs \ {r} : job'[i] = job[i]
  <2>1. Set(r, b) BY DEF RemoveNodes, Goto
  <2> HIDE DEF b
  <2> QED BY <1>6, <2>1, SetOK DEF Busied
<1> HIDE DEF b, d
<1>8. StateOK' BY <1>4, <1>5, <1>7 DEF StateOK, SubTypeOK, Busied
<1>9. RemovedFirst'
  <2> SUFFICES ASSUME NEW q \in Requests, job'[q].at = "forget", Group[job'[q].name] \notin excused'
               PROVE  Working'[Group[job'[q].name]] = None
    BY DEF RemovedFirst, Nodeless
  <2> DEFINE h == Group[job'[q].name]
  <2>1. h \in Groups BY <1>7 DEF Busied, Busy, Jobs
  <2>2. CASE h = g BY <1>3, <1>5, <2>1, <2>2 DEF Nodeless
  <2>3. CASE h # g
    <3>1. job'[q] = job[q] BY <1>6, <1>7, <2>3 DEF Jobs
    <3>2. Nodeless(h) BY <1>5, <2>1, <2>3, <3>1 DEF SubsInv, RemovedFirst
    <3> QED BY <1>3, <1>5, <2>1, <2>3, <3>2 DEF Nodeless
  <2> QED BY <2>2, <2>3
<1>10. MergedFirst'
  <2> SUFFICES ASSUME NEW i \in Jobs, job'[i].at = "record", job'[i].ok,
                      Group[job'[i].name] \notin excused'
               PROVE  Working'[Group[job'[i].name]] # None
    BY DEF MergedFirst, Nodeless
  <2>1. i # r /\ job'[i] = job[i] BY <1>6, <1>7
  <2>2. Group[job[i].name] \in Groups /\ Group[job[i].name] # g
    BY <1>5, <2>1 DEF Believed, SubsInv, StateOK, Busy
  <2>3. ~Nodeless(Group[job[i].name]) BY <1>5, <2>1, <2>2 DEF SubsInv, MergedFirst
  <2> QED BY <1>3, <1>5, <2>1, <2>2, <2>3 DEF Nodeless
<1>11. \A k \in Names : Present(k)' <=> Present(k) BY <1>4 DEF Present
<1>12. NoOrphans'
  <2> SUFFICES ASSUME NEW h \in Groups, Working'[h] # None, h \notin excused' PROVE Owner(h)'
    BY DEF NoOrphans
  <2>1. h # g /\ Working[h] # None BY <1>3, <1>5
  <2>2. Owner(h) BY <1>5, <2>1 DEF SubsInv, NoOrphans
  <2> QED BY <1>11, <2>2 DEF Owner
<1>13. FreshHasNodes'
  <2> SUFFICES ASSUME NEW k \in Names, Present(k)', mem'[Slug[k]].fresh,
                      Group[k] \notin excused', Working'[Group[k]] = None
               PROVE  \E q \in Requests : job'[q].at = "forget" /\ job'[q].name = k
    BY DEF FreshHasNodes
  <2>1. CASE Group[k] # g
    <3>1. Working[Group[k]] = None BY <1>3, <1>5, <2>1
    <3>2. PICK q \in Requests : job[q].at = "forget" /\ job[q].name = k
      BY <1>4, <1>5, <1>11, <2>1, <3>1 DEF SubsInv, FreshHasNodes
    <3> QED BY <1>7, <3>2 DEF Jobs
  <2>2. CASE Group[k] = g
    <3>1. k = n BY <1>5, <1>11, <2>2 DEF Believed
    <3>2. faults' = faults BY <1>5, <2>2
    <3> QED BY <1>6, <1>7, <3>1, <3>2
  <2> QED BY <2>1, <2>2
<1> QED BY <1>8, <1>9, <1>10, <1>12, <1>13 DEF SubsInv

\* The jobs and the store stay, and so does every group not excused.
LEMMA SectionKept ==
    ASSUME SubsInv, StateOK', UNCHANGED <<mem, job>>, excused \subseteq excused',
           \A g \in Groups : g \in excused' \/ Working'[g] = Working[g]
    PROVE  SubsInv'
<1> USE SubsAssumption
<1>1. \A j \in Jobs : job[j].at \in Busy => Group[job[j].name] \in Groups BY DEF SubsInv, StateOK
<1>2. RemovedFirst' BY <1>1 DEF SubsInv, RemovedFirst, Nodeless, Jobs, Busy
<1>3. MergedFirst' BY <1>1 DEF SubsInv, MergedFirst, Nodeless, Busy
<1>4. NoOrphans' BY DEF SubsInv, NoOrphans, Owner, Present
<1>5. FreshHasNodes' BY DEF SubsInv, FreshHasNodes, Present
<1> QED BY <1>2, <1>3, <1>4, <1>5 DEF SubsInv

LEMMA DiscardOK == ASSUME SubsInv, Discard PROVE SubsInv'
<1>1. StateOK' BY FaultsOK DEF SubsInv, StateOK, SubTypeOK, Discard, StoreFrame
<1>2. \A g \in Groups : g \in excused' \/ Working'[g] = Working[g] BY DEF Discard, Changed, Working
<1> QED BY <1>1, <1>2, SectionKept DEF Discard, StoreFrame

LEMMA ApplyOK == ASSUME SubsInv, Apply PROVE SubsInv'
<1>1. StateOK' BY FaultsOK DEF SubsInv, StateOK, SubTypeOK, Apply, StoreFrame
<1>2. Working' = Working BY DEF Apply, Working
<1> QED BY <1>1, <1>2, SectionKept DEF Apply, StoreFrame

LEMMA RestartOK == ASSUME SubsInv, Restart PROVE SubsInv'
<1> USE SubsAssumption
<1>1. NoJob \in Job /\ NoJob.at = "idle" BY DEF NoJob, Job
<1>2. StateOK' BY <1>1, FaultsOK DEF SubsInv, StateOK, SubTypeOK, Restart, Busy
<1>3. RemovedFirst' /\ MergedFirst' BY <1>1 DEF Restart, RemovedFirst, MergedFirst, Jobs
<1>4. /\ excused \subseteq excused'
      /\ \A n \in Names : Group[n] \in excused' \/ mem'[Slug[n]] = mem[Slug[n]]
      /\ \A g \in Groups : g \in excused' \/ ~BeingDeleted(g)
  BY DEF Restart
<1>5. ASSUME NEW g \in Groups, g \notin excused' PROVE Working'[g] = Working[g]
  <2>1. g \notin Changed(None) BY <1>5 DEF Restart
  <2> QED BY <2>1 DEF Restart, Changed, Working
<1>6. NoOrphans'
  <2> SUFFICES ASSUME NEW g \in Groups, Working'[g] # None, g \notin excused' PROVE Owner(g)'
    BY DEF NoOrphans
  <2>1. PICK n \in Names : Present(n) /\ Group[n] = g BY <1>4, <1>5 DEF SubsInv, NoOrphans, Owner
  <2>2. Present(n)' BY <1>4, <2>1 DEF Present
  <2> QED BY <2>1, <2>2 DEF Owner
<1>7. FreshHasNodes'
  <2> SUFFICES ASSUME NEW n \in Names, Present(n)', mem'[Slug[n]].fresh,
                      Group[n] \notin excused', Working'[Group[n]] = None
               PROVE  FALSE
    BY DEF FreshHasNodes
  <2>1. Present(n) /\ mem[Slug[n]].fresh /\ Working[Group[n]] = None /\ Group[n] \in Groups
    BY <1>4, <1>5 DEF Present
  <2>2. PICK r \in Requests : job[r].at = "forget" /\ job[r].name = n
    BY <1>4, <2>1 DEF SubsInv, FreshHasNodes
  <2> QED BY <1>4, <2>1, <2>2 DEF BeingDeleted
<1> QED BY <1>2, <1>3, <1>6, <1>7 DEF SubsInv

-----------------------------------------------------------------------------
(* The theorems.                                                             *)

LEMMA RefreshStepOK == ASSUME SubsInv, NEW j \in Jobs, RefreshStep(j) PROVE SubsInv'
BY FetchedOK, MergeOK, RecordStepOK DEF RefreshStep

LEMMA DeleteStepOK == ASSUME SubsInv, NEW r \in Requests, DeleteStep(r) PROVE SubsInv'
BY RemoveNodesOK, ForgetOK DEF DeleteStep

LEMMA SubsStep == SubsInv /\ [SubNext]_subVars => SubsInv'
<1> SUFFICES ASSUME SubsInv, [SubNext]_subVars PROVE SubsInv' OBVIOUS
<1>1. CASE UNCHANGED subVars
  BY <1>1 DEF subVars, SubsInv, StateOK, SubTypeOK, RemovedFirst, MergedFirst, Nodeless, Working,
              NoOrphans, Owner, FreshHasNodes, Present
<1>2. ASSUME NEW r \in Requests, NEW n \in Names, NEW u \in Urls, NEW a \in BOOLEAN,
             CreateSubscription(r, n, u, a)
      PROVE  SubsInv'
  BY <1>2, CreateSubscriptionOK
<1>3. ASSUME NEW r \in Requests, NEW id \in Ids, RefreshSubscription(r, id) \/ DeleteSubscription(r, id)
      PROVE  SubsInv'
  BY <1>3, RefreshSubscriptionOK, DeleteSubscriptionOK
<1>4. ASSUME NEW r \in Requests, RefreshStep(r) \/ DeleteStep(r) PROVE SubsInv'
  BY <1>4, RefreshStepOK, DeleteStepOK DEF Jobs
<1>5. ASSUME NEW id \in Ids, Lapse(id) PROVE SubsInv' BY <1>5, LapseOK
<1>6. ASSUME NEW id \in Ids, NEW u \in Urls, NEW a \in BOOLEAN, UpdateSubscription(id, u, a)
      PROVE  SubsInv'
  BY <1>6, UpdateSubscriptionOK
<1>7. CASE LoopStep BY <1>7, TickOK, NextDueOK, RefreshStepOK DEF LoopStep, Jobs
<1>8. CASE Discard BY <1>8, DiscardOK
<1>9. CASE Apply BY <1>9, ApplyOK
<1>10. CASE Restart BY <1>10, RestartOK
<1> QED BY <1>1, <1>2, <1>3, <1>4, <1>5, <1>6, <1>7, <1>8, <1>9, <1>10 DEF SubNext

LEMMA SubsInvariant == SubSafety => []SubsInv
BY InitOK, SubsStep, PTL DEF SubSafety

\* Type correctness (SubTypeOK): the store, its file, the configuration and its
\* draft keep their types through failed saves, lost drafts and restarts.
THEOREM SubsTyped == SubSafety => []SubTypeOK
<1>1. SubsInv => SubTypeOK
  BY DEF SubsInv, StateOK
<1> QED BY <1>1, SubsInvariant, PTL

\* No outbound of a group outlives the subscriptions of that group (NoOrphans),
\* wherever a deletion stops, for any names and their collisions, until a lost
\* draft, an overlap or a reused id touches the group, and again once a refresh
\* or a deletion has written it undisturbed (DeleteSubscription removes the
\* outbounds first).
THEOREM OrphansNever == SubSafety => []NoOrphans
<1>1. SubsInv => NoOrphans BY DEF SubsInv
<1> QED BY <1>1, SubsInvariant, PTL

\* A subscription marked as refreshed has its nodes in the section
\* (FreshHasNodes: SetResult after ReplaceSubscriptionOutbounds), under the same
\* exceptions: a draft discarded or lost at a start takes the nodes with it and
\* leaves the mark.
THEOREM FreshnessIsReal == SubSafety => []FreshHasNodes
<1>1. SubsInv => FreshHasNodes BY DEF SubsInv
<1> QED BY <1>1, SubsInvariant, PTL
=============================================================================
