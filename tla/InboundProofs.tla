---------------------------- MODULE InboundProofs ----------------------------
(***************************************************************************)
(* What the inbound editors, the raw editor and the staging of users keep, *)
(* for any forms, texts, requests and bounds, whichever of them overlap.   *)
(*                                                                         *)
(* The properties speak of the section in work; a discard brings back the  *)
(* active one, and the panel may have read its users, so the invariants    *)
(* speak of both.                                                          *)
(***************************************************************************)
EXTENDS InboundDraft, SequenceTheorems, WellFoundedInduction, TLAPS

(* Sections: an inbound more, one less, one changed.                         *)

Grown(d, e, b) ==
    /\ e \in Section /\ e.dup = d.dup /\ b \in Inbound
    /\ DOMAIN e.inbounds = 1..(Len(d.inbounds) + 1)
    /\ \A j \in DOMAIN e.inbounds : e.inbounds[j] = IF j = Len(d.inbounds) + 1 THEN b ELSE d.inbounds[j]

Shrunk(d, e, k) ==
    /\ e \in Section /\ e.dup = d.dup /\ k \in DOMAIN d.inbounds
    /\ DOMAIN e.inbounds = 1..(Len(d.inbounds) - 1)
    /\ \A j \in DOMAIN e.inbounds : e.inbounds[j] = IF j < k THEN d.inbounds[j] ELSE d.inbounds[j + 1]

Changed(d, e, k, b) ==
    /\ e \in Section /\ b \in Inbound /\ k \in DOMAIN d.inbounds
    /\ DOMAIN e.inbounds = DOMAIN d.inbounds
    /\ \A j \in DOMAIN e.inbounds : e.inbounds[j] = IF j = k THEN b ELSE d.inbounds[j]

LEMMA Indices ==
    ASSUME NEW d \in Section
    PROVE  /\ Len(d.inbounds) \in Nat /\ DOMAIN d.inbounds = 1..Len(d.inbounds)
           /\ d.inbounds \in Seq(Inbound)
           /\ \A i \in DOMAIN d.inbounds : d.inbounds[i] \in Inbound
BY LenProperties, ElementOfSeq DEF Section

LEMMA Growing ==
    ASSUME NEW d \in Section, NEW b \in Inbound
    PROVE  Grown(d, [d EXCEPT !.inbounds = Append(@, b)], b)
<1> DEFINE s == Append(d.inbounds, b)
<1>1. d.inbounds \in Seq(Inbound) /\ Len(d.inbounds) \in Nat BY Indices
<1>2. s \in Seq(Inbound) /\ Len(s) = Len(d.inbounds) + 1 /\ DOMAIN s = 1..(Len(d.inbounds) + 1)
      /\ \A j \in 1..(Len(d.inbounds) + 1) : s[j] = IF j = Len(d.inbounds) + 1 THEN b ELSE d.inbounds[j]
  BY <1>1, AppendProperties, LenProperties
<1> HIDE DEF s
<1>3. [d EXCEPT !.inbounds = Append(@, b)] = [d EXCEPT !.inbounds = s] BY DEF s
<1>4. [d EXCEPT !.inbounds = s] \in Section /\ [d EXCEPT !.inbounds = s].inbounds = s
      /\ [d EXCEPT !.inbounds = s].dup = d.dup
  BY <1>2 DEF Section
<1> QED BY <1>2, <1>3, <1>4 DEF Grown

LEMMA Shrinking ==
    ASSUME NEW d \in Section, NEW k \in DOMAIN d.inbounds
    PROVE  Shrunk(d, [d EXCEPT !.inbounds = RemoveAt(@, k)], k)
<1> DEFINE s == d.inbounds
           a == SubSeq(s, 1, k - 1)
           c == SubSeq(s, k + 1, Len(s))
           t == RemoveAt(s, k)
<1>1. s \in Seq(Inbound) /\ Len(s) \in Nat /\ k \in 1..Len(s) /\ \A j \in 1..Len(s) : s[j] \in Inbound
  BY Indices
<1> HIDE DEF s
<1>2. a \in Seq(Inbound) /\ Len(a) = k - 1 /\ \A j \in 1..(k - 1) : a[j] = s[j]
  BY <1>1, SubSeqProperties
<1>3. c \in Seq(Inbound) /\ Len(c) = Len(s) - k /\ \A j \in 1..(Len(s) - k) : c[j] = s[j + k]
  BY <1>1, SubSeqProperties
<1>4. t = a \o c BY DEF RemoveAt
<1> HIDE DEF a, c, t
<1>5. /\ a \o c \in Seq(Inbound) /\ Len(a \o c) = Len(s) - 1
      /\ \A j \in 1..(Len(s) - 1) : (a \o c)[j] = IF j < k THEN a[j] ELSE c[j - k + 1]
  BY <1>1, <1>2, <1>3, ConcatProperties
<1>6. ASSUME NEW j \in 1..(Len(s) - 1) PROVE t[j] = IF j < k THEN s[j] ELSE s[j + 1]
  <2>1. CASE j < k BY <1>1, <1>2, <1>4, <1>5, <2>1
  <2>2. CASE ~(j < k)
    <3>1. j - k + 1 \in 1..(Len(s) - k) BY <1>1, <2>2
    <3>2. c[j - k + 1] = s[j - k + 1 + k] BY <1>3, <3>1
    <3>3. j - k + 1 + k = j + 1 BY <1>1
    <3> QED BY <1>4, <1>5, <2>2, <3>2, <3>3
  <2> QED BY <2>1, <2>2
<1>7. t \in Seq(Inbound) /\ DOMAIN t = 1..(Len(s) - 1) BY <1>4, <1>5, LenProperties
<1>8. [d EXCEPT !.inbounds = RemoveAt(@, k)] = [d EXCEPT !.inbounds = t] BY DEF t, s
<1>9. [d EXCEPT !.inbounds = t] \in Section /\ [d EXCEPT !.inbounds = t].inbounds = t
      /\ [d EXCEPT !.inbounds = t].dup = d.dup
  BY <1>7 DEF Section
<1> DEFINE e == [d EXCEPT !.inbounds = RemoveAt(@, k)]
<1>10. e \in Section /\ e.inbounds = t /\ e.dup = d.dup BY <1>8, <1>9
<1> HIDE DEF e
<1>11. Shrunk(d, e, k) BY <1>1, <1>6, <1>7, <1>10 DEF Shrunk, s
<1> QED BY <1>11 DEF e

LEMMA Changing ==
    ASSUME NEW d \in Section, NEW k \in DOMAIN d.inbounds, NEW b \in Inbound
    PROVE  /\ [d.inbounds EXCEPT ![k] = b] \in Seq(Inbound)
           /\ \A e \in Section : e.inbounds = [d.inbounds EXCEPT ![k] = b] => Changed(d, e, k, b)
<1> DEFINE s == [d.inbounds EXCEPT ![k] = b]
<1>1. d.inbounds \in Seq(Inbound) /\ k \in 1..Len(d.inbounds) BY Indices
<1>2. s \in Seq(Inbound) /\ DOMAIN s = DOMAIN d.inbounds
      /\ \A j \in DOMAIN d.inbounds : s[j] = IF j = k THEN b ELSE d.inbounds[j]
  BY <1>1, ExceptSeq
<1> HIDE DEF s
<1>3. \A e \in Section : e.inbounds = s => Changed(d, e, k, b) BY <1>2 DEF Changed
<1> QED BY <1>2, <1>3 DEF s

\* The users of one inbound change.
Peopled(b, us) == [b EXCEPT !.users = us]

LEMMA Peopling ==
    ASSUME NEW b \in Inbound, NEW us \in SUBSET User
    PROVE  /\ Peopled(b, us) \in Inbound /\ Peopled(b, us).users = us
           /\ Peopled(b, us).tag = b.tag /\ Peopled(b, us).type = b.type
           /\ Peopled(b, us).port = b.port /\ Peopled(b, us).listen = b.listen
           /\ Peopled(b, us).via = b.via
BY DEF Inbound, Peopled

LEMMA ChangingUsers ==
    ASSUME NEW d \in Section, NEW k \in DOMAIN d.inbounds, NEW us \in SUBSET User
    PROVE  /\ Changed(d, [d EXCEPT !.inbounds[k].users = us], k, Peopled(d.inbounds[k], us))
           /\ [d EXCEPT !.inbounds[k].users = us].dup = d.dup
<1> DEFINE b == Peopled(d.inbounds[k], us)
           s == [d.inbounds EXCEPT ![k] = b]
<1>1. d.inbounds \in Seq(Inbound) /\ k \in 1..Len(d.inbounds) /\ b \in Inbound BY Indices, Peopling
<1>2. [d EXCEPT !.inbounds[k].users = us] = [d EXCEPT !.inbounds = s] BY DEF Peopled
<1> HIDE DEF b
<1>3. s \in Seq(Inbound) /\ DOMAIN s = DOMAIN d.inbounds
      /\ \A j \in DOMAIN d.inbounds : s[j] = IF j = k THEN b ELSE d.inbounds[j]
  BY <1>1, ExceptSeq
<1> HIDE DEF s
<1>4. /\ [d EXCEPT !.inbounds = s] \in Section
      /\ [d EXCEPT !.inbounds = s].inbounds = s /\ [d EXCEPT !.inbounds = s].dup = d.dup
  BY <1>3 DEF Section
<1> DEFINE e == [d EXCEPT !.inbounds[k].users = us]
<1>5. e \in Section /\ e.inbounds = s /\ e.dup = d.dup BY <1>2, <1>4
<1> HIDE DEF e
<1>6. Changed(d, e, k, b) BY <1>1, <1>3, <1>5 DEF Changed
<1> QED BY <1>5, <1>6 DEF b, e

LEMMA Least ==
    ASSUME NEW T \in SUBSET Nat, T # {}
    PROVE  \E i \in T : \A j \in T : ~(j < i)
<1> DEFINE R == {ss \in Nat \X Nat : ss[1] < ss[2]}
<1>1. IsWellFoundedOn(R, Nat) BY NatLessThanWellFounded DEF OpToRel
<1>2. \E x \in T : \A y \in T : ~(<<y, x>> \in R) BY <1>1, WFMin
<1> QED BY <1>2

\* findByTag finds an inbound with the tag.
LEMMA IndexOfTag ==
    ASSUME NEW d \in Section, NEW t \in TagsOf(d)
    PROVE  IndexOf(d, t) \in DOMAIN d.inbounds /\ d.inbounds[IndexOf(d, t)].tag = t
<1> DEFINE I == {i \in DOMAIN d.inbounds : d.inbounds[i].tag = t}
<1>1. I \subseteq Nat /\ I # {} /\ Len(d.inbounds) \in Nat /\ DOMAIN d.inbounds = 1..Len(d.inbounds)
  BY Indices DEF TagsOf
<1>2. PICK k \in I : \A j \in I : ~(j < k)
  BY <1>1, Least
<1>3. \A j \in 1..(k - 1) : d.inbounds[j].tag # t
  <2> SUFFICES ASSUME NEW j \in 1..(k - 1), d.inbounds[j].tag = t PROVE FALSE OBVIOUS
  <2>1. j \in I /\ j < k /\ j \in Nat /\ k \in Nat BY <1>1, <1>2
  <2> QED BY <1>2, <2>1
<1> QED BY <1>2, <1>3 DEF IndexOf

-----------------------------------------------------------------------------
(* What the steps do to the section in work.                                 *)

\* The sections, and the requests that are about to stage a user.
InTyped ==
    /\ InTypeOK /\ minted \in Nat /\ raced \in BOOLEAN
    /\ DOMAIN req = Requests
    /\ \A r \in Requests : req[r].at = "stage" => req[r].name \in Names

Created(e) == \E b \in Inbound, f \in Forms :
    /\ Grown(Working, e, b) /\ b.users = f.users
    /\ InboundOK(b) /\ b.tag \notin TagsOf(Working) /\ ~Conflict(Working, b, None)

Updated(e) == \E k \in DOMAIN Working.inbounds, b \in Inbound, read \in {active, Working} :
    LET t == Working.inbounds[k].tag IN
    /\ Changed(Working, e, k, b) /\ InboundOK(b) /\ ~Conflict(Working, b, t)
    /\ \E i \in DOMAIN read.inbounds : b.users = read.inbounds[i].users
    /\ e.dup = (Working.dup \/ (b.tag # t /\ b.tag \in TagsOf(Working)))

Dropped(e) == \E k \in DOMAIN Working.inbounds : Shrunk(Working, e, k)

Cut(e) == \E k \in DOMAIN Working.inbounds, us \in SUBSET User :
    LET b == Working.inbounds[k] IN
    /\ Changed(Working, e, k, Peopled(b, us)) /\ e.dup = Working.dup
    /\ us \subseteq b.users /\ (b.type = "mieru" /\ b.users # {} => us # {})

Added(e, r, u) == \E k \in DOMAIN Working.inbounds :
    LET b == Working.inbounds[k] IN
    /\ Changed(Working, e, k, Peopled(b, b.users \cup {u})) /\ e.dup = Working.dup
    /\ b.tag = req[r].tag /\ req[r].at = "stage"
    /\ u \in User /\ u.name = req[r].name /\ u.cred = minted + 1 /\ minted' = minted + 1
    /\ Races(r)

Edit(e) ==
    \/ e \in {active, Working} \/ (e \in Texts /\ SectionOK(e))
    \/ Created(e) \/ Updated(e) \/ Dropped(e) \/ Cut(e)
    \/ \E r \in Requests, u \in User : Added(e, r, u)

\* A step makes one section, or none, the section in work; the active one is
\* the old or the one that was in work.
Edited == \E e \in Section : Edit(e) /\ active' \in {active, Working} /\ Working' \in {active, Working, e}

LEMMA WorkingTyped == InTypeOK => active \in Section /\ Working \in Section
BY DEF InTypeOK, Working

\* The step stages e.
LEMMA Staged ==
    ASSUME NEW e \in Section, Edit(e), draft' = e, active' = active
    PROVE  Edited
BY DEF Edited, Working

LEMMA StillEdited ==
    ASSUME InTypeOK, UNCHANGED <<active, draft>>
    PROVE  Edited
BY WorkingTyped DEF Edited, Working, Edit

LEMMA CreateEdits == ASSUME InTypeOK, NEW t \in Tags, NEW f \in Forms, CreateInbound(t, f) PROVE Edited
<1> DEFINE b == [f EXCEPT !.tag = t]
           e == [Working EXCEPT !.inbounds = Append(@, b)]
<1>1. /\ InboundOK(b) /\ t \notin TagsOf(Working) /\ ~Conflict(Working, b, None)
      /\ draft' = e /\ active' = active
  BY DEF CreateInbound, Stage
<1>2. b \in Inbound /\ b.tag = t /\ b.users = f.users BY InboundAssumption DEF Inbound
<1>3. Working \in Section BY WorkingTyped
<1> HIDE DEF b
<1>4. Grown(Working, e, b) BY <1>2, <1>3, Growing
<1> HIDE DEF e
<1>5. e \in Section BY <1>4 DEF Grown
<1>6. Created(e) BY <1>1, <1>2, <1>4 DEF Created
<1> QED BY <1>1, <1>5, <1>6, Staged DEF Edit

LEMMA UpdateEdits ==
    ASSUME InTypeOK, NEW t \in Tags, NEW new \in Tags \cup {Reserved}, NEW f \in Forms, UpdateInbound(t, new, f)
    PROVE  Edited
<1> DEFINE k == IndexOf(Working, t)
           z == Working.dup \/ (new # t /\ new \in TagsOf(Working))
<1>1. Working \in Section /\ active \in Section BY WorkingTyped
<1>2. PICK read \in {d \in {Working, active} : t \in TagsOf(d)} :
        LET b == [f EXCEPT !.tag = new, !.users = read.inbounds[IndexOf(read, t)].users]
        IN  /\ InboundOK(b) /\ ~Conflict(Working, b, t)
            /\ Stage([Working EXCEPT !.inbounds[k] = b,
                                     !.dup = @ \/ (new # t /\ new \in TagsOf(Working))])
  BY DEF UpdateInbound
<1>3. t \in TagsOf(Working) /\ active' = active BY DEF UpdateInbound
<1>4. k \in DOMAIN Working.inbounds /\ Working.inbounds[k].tag = t BY <1>1, <1>3, IndexOfTag
<1> DEFINE i == IndexOf(read, t)
<1>5. read \in {active, Working} /\ i \in DOMAIN read.inbounds /\ read.inbounds[i] \in Inbound
  BY <1>1, <1>2, IndexOfTag, Indices
<1> DEFINE us == read.inbounds[i].users
           b == [f EXCEPT !.tag = new, !.users = us]
           e == [Working EXCEPT !.inbounds[k] = b, !.dup = z]
<1>6. us \in SUBSET User BY <1>5 DEF Inbound
<1>7. InboundOK(b) /\ ~Conflict(Working, b, t) /\ draft' = e BY <1>2 DEF Stage
<1> HIDE DEF us
<1>8. b \in Inbound /\ b.tag = new /\ b.users = us BY <1>6, InboundAssumption DEF Inbound
<1>9. z \in BOOLEAN BY <1>1 DEF Section
<1> HIDE DEF b, z, k, i
<1>10. Changed(Working, e, k, b) /\ e.dup = z
  <2> DEFINE s == [Working.inbounds EXCEPT ![k] = b]
  <2>1. s \in Seq(Inbound) /\ (\A y \in Section : y.inbounds = s => Changed(Working, y, k, b))
    BY <1>1, <1>4, <1>8, Changing
  <2>2. e = [Working EXCEPT !.inbounds = s, !.dup = z] OBVIOUS
  <2> HIDE DEF s, e
  <2>3. e \in Section /\ e.inbounds = s /\ e.dup = z BY <1>1, <1>9, <2>1, <2>2 DEF Section
  <2> QED BY <2>1, <2>3
<1> HIDE DEF e
<1>11. e \in Section BY <1>10 DEF Changed
<1>12. Updated(e)
  <2>1. e.dup = (Working.dup \/ (b.tag # t /\ b.tag \in TagsOf(Working))) BY <1>8, <1>10 DEF z
  <2>2. \E j \in DOMAIN read.inbounds : b.users = read.inbounds[j].users BY <1>5, <1>8 DEF us
  <2> QED BY <1>4, <1>5, <1>7, <1>8, <1>10, <2>1, <2>2 DEF Updated
<1> QED BY <1>3, <1>7, <1>11, <1>12, Staged DEF Edit

LEMMA DeleteEdits == ASSUME InTypeOK, NEW t \in Tags, DeleteInbound(t) PROVE Edited
<1> DEFINE k == IndexOf(Working, t)
           e == [Working EXCEPT !.inbounds = RemoveAt(@, k)]
<1>1. Working \in Section BY WorkingTyped
<1>2. t \in TagsOf(Working) /\ draft' = e /\ active' = active BY DEF DeleteInbound, Stage
<1>3. k \in DOMAIN Working.inbounds BY <1>1, <1>2, IndexOfTag
<1> HIDE DEF k
<1>4. Shrunk(Working, e, k) BY <1>1, <1>3, Shrinking
<1> HIDE DEF e
<1>5. e \in Section /\ Dropped(e) BY <1>3, <1>4 DEF Shrunk, Dropped
<1> QED BY <1>2, <1>5, Staged DEF Edit

LEMMA StageEdits == ASSUME InTyped, NEW r \in Requests, StageUser(r) PROVE Edited
<1> DEFINE q == req[r]
           k == IndexOf(Working, q.tag)
           u == [name |-> q.name, cred |-> minted', flow |-> q.protocol = "vless"]
           e == [Working EXCEPT !.inbounds[k].users = @ \cup {u}]
<1>1. Working \in Section /\ active' = active /\ active \in Section BY WorkingTyped DEF InTyped, StageUser
<1>2. CASE draft' = draft BY <1>1, <1>2, StillEdited DEF InTyped
<1>3. CASE draft' = Working BY <1>1, <1>3, Staged DEF Edit
<1>4. CASE q.tag \in TagsOf(Working) /\ draft' = e
  <2>1. k \in DOMAIN Working.inbounds /\ Working.inbounds[k].tag = q.tag BY <1>1, <1>4, IndexOfTag
  <2>2. /\ q.at = "stage" /\ Races(r) /\ minted' = minted + 1 /\ minted' \in 1..MaxMints
        /\ q.name \in Names
    BY InboundAssumption DEF StageUser, InTyped
  <2>3. u \in User /\ u.name = q.name /\ u.cred = minted + 1 BY <2>2 DEF User
  <2> HIDE DEF u, k, q
  <2> DEFINE us == Working.inbounds[k].users \cup {u}
  <2>4. us \in SUBSET User BY <1>1, <2>1, <2>3, Indices DEF Inbound
  <2>5. e = [Working EXCEPT !.inbounds[k].users = us] OBVIOUS
  <2> HIDE DEF us
  <2>6. /\ Changed(Working, [Working EXCEPT !.inbounds[k].users = us], k, Peopled(Working.inbounds[k], us))
        /\ [Working EXCEPT !.inbounds[k].users = us].dup = Working.dup
    BY <1>1, <2>1, <2>4, ChangingUsers
  <2>7. Changed(Working, e, k, Peopled(Working.inbounds[k], us)) /\ e.dup = Working.dup
    BY <2>5, <2>6
  <2> HIDE DEF e
  <2>8. e \in Section /\ Added(e, r, u)
    BY <2>1, <2>2, <2>3, <2>7 DEF Added, us, q, Changed
  <2> QED BY <1>1, <1>4, <2>3, <2>8, Staged DEF Edit
<1> QED BY <1>2, <1>3, <1>4 DEF StageUser, Stage

LEMMA RemoveEdits == ASSUME InTyped, NEW r \in Requests, RemoveUser(r) PROVE Edited
<1>1. Working \in Section /\ active' = active /\ active \in Section BY WorkingTyped DEF InTyped, RemoveUser
<1>2. PICK key \in req[r].left : draft' = IF Removal(Working, key) = None THEN Working ELSE Removal(Working, key)
  BY DEF RemoveUser, Stage
<1> DEFINE k == IndexOf(Working, key[1])
           b == Working.inbounds[k]
           us == {u \in b.users : Key(b, u) # key[2]}
           e == [Working EXCEPT !.inbounds[k].users = us]
<1>3. CASE draft' = Working BY <1>1, <1>3, Staged DEF Edit
<1>4. CASE key[1] \in TagsOf(Working) /\ ~LastOfMieru(b, key[2]) /\ draft' # Working
  <2>1. k \in DOMAIN Working.inbounds BY <1>1, <1>4, IndexOfTag
  <2>2. b \in Inbound BY <1>1, <2>1, Indices
  <2>3. us \in SUBSET User /\ us \subseteq b.users BY <2>2 DEF Inbound
  <2>4. b.type = "mieru" /\ b.users # {} => us # {} BY <1>4 DEF LastOfMieru
  <2>5. draft' = e
    <3>1. Removal(Working, key) = [Working EXCEPT !.inbounds[k] = Without(@, key[2])] BY <1>4 DEF Removal
    <3>2. [Working EXCEPT !.inbounds[k] = Without(@, key[2])] = e BY DEF Without
    <3> QED BY <1>2, <1>4, <3>1, <3>2
  <2> HIDE DEF us, b, k
  <2>6. /\ Changed(Working, [Working EXCEPT !.inbounds[k].users = us], k, Peopled(Working.inbounds[k], us))
        /\ [Working EXCEPT !.inbounds[k].users = us].dup = Working.dup
    BY <1>1, <2>1, <2>3, ChangingUsers
  <2>7. Changed(Working, e, k, Peopled(Working.inbounds[k], us)) /\ e.dup = Working.dup
    BY <2>6
  <2> HIDE DEF e
  <2>8. e \in Section /\ Cut(e)
    BY <2>1, <2>3, <2>4, <2>7 DEF Cut, Changed, b
  <2> QED BY <1>1, <2>5, <2>8, Staged DEF Edit
<1> QED BY <1>2, <1>3, <1>4 DEF Removal

\* Every step of the specification.
LEMMA StepEdits == InTyped /\ [InNext]_inVars => Edited
<1> SUFFICES ASSUME InTyped, [InNext]_inVars PROVE Edited OBVIOUS
<1>1. InTypeOK /\ active \in Section /\ Working \in Section BY WorkingTyped DEF InTyped
<1>2. CASE EditInbounds
  BY <1>1, <1>2, CreateEdits, UpdateEdits, DeleteEdits DEF EditInbounds
<1>3. CASE StageUsers
  <2>1. ASSUME NEW r \in Requests, NEW n \in Names, NEW t \in Tags,
               CreateUser(r, n, t) \/ AddBinding(r, n, t) \/ DeleteUser(r, n)
        PROVE  Edited
    BY <1>1, <2>1, StillEdited DEF CreateUser, AddBinding, DeleteUser
  <2>2. ASSUME NEW r \in Requests, NEW n \in Names, DeleteUser(r, n) PROVE Edited
    BY <1>1, <2>2, StillEdited DEF DeleteUser
  <2> QED BY <1>3, <2>1, <2>2, StageEdits, RemoveEdits DEF StageUsers
<1>4. ASSUME NEW d \in Texts, SaveConfig(d) PROVE Edited
  <2>1. d \in Section /\ Edit(d) /\ draft' = d /\ active' = active
    BY <1>4, InboundAssumption DEF SaveConfig, Stage, Edit
  <2> QED BY <2>1, Staged
<1>5. CASE Discard \/ Apply
  BY <1>1, <1>5 DEF Discard, Apply, Edited, Edit, Working
<1>6. CASE UNCHANGED inVars BY <1>1, <1>6, StillEdited DEF inVars
<1> QED BY <1>2, <1>3, <1>4, <1>5, <1>6 DEF InNext


\* Only requests, credentials and the history of races are left.
LEMMA Typing == InTyped /\ [InNext]_inVars => InTyped'
<1> SUFFICES ASSUME InTyped, [InNext]_inVars PROVE InTyped' OBVIOUS
<1>1. InTypeOK'
  <2>1. PICK e \in Section : active' \in {active, Working} /\ Working' \in {active, Working, e}
    BY StepEdits DEF Edited
  <2>2. active' \in Section /\ Working' \in Section BY <2>1, WorkingTyped DEF InTyped
  <2> QED BY <2>2 DEF InTypeOK, Working
<1> DEFINE Names2 == \A r \in Requests : req'[r].at = "stage" => req'[r].name \in Names
           Rest == minted' \in Nat /\ raced' \in BOOLEAN /\ DOMAIN req' = Requests /\ Names2
<1>2. ASSUME UNCHANGED <<req, minted, raced>> PROVE Rest BY <1>2 DEF InTyped
<1>3. ASSUME NEW r \in Requests, UNCHANGED <<minted, raced>>,
             NEW q, req' = [req EXCEPT ![r] = q], q.at = "stage" => q.name \in Names
      PROVE  Rest
  BY <1>3 DEF InTyped
<1> HIDE DEF Rest
<1>4. ASSUME NEW r \in Requests, NEW n \in Names, NEW t \in Tags, CreateUser(r, n, t) \/ AddBinding(r, n, t)
      PROVE  Rest
  <2> DEFINE q == [Staging(n, t) EXCEPT !.seen = Working]
  <2>1. UNCHANGED <<minted, raced>> /\ req' = [req EXCEPT ![r] = q] BY <1>4 DEF CreateUser, AddBinding, Begin
  <2>2. q.name = n BY DEF Staging, Idle
  <2> HIDE DEF q
  <2> QED BY <1>3, <2>1, <2>2
<1>5. ASSUME NEW r \in Requests, NEW n \in Names, DeleteUser(r, n) PROVE Rest
  <2> DEFINE q == [[Idle EXCEPT !.at = "remove", !.name = n, !.left = Registered(n)] EXCEPT !.seen = Working]
  <2>1. UNCHANGED <<minted, raced>> /\ req' = [req EXCEPT ![r] = q] BY <1>5 DEF DeleteUser, Begin
  <2>2. q.name = n BY DEF Idle
  <2> HIDE DEF q
  <2> QED BY <1>3, <2>1, <2>2
<1>6. ASSUME NEW r \in Requests, StageUser(r) PROVE Rest
  <2>1. /\ minted' = minted + 1 /\ raced' = (raced \/ req[r].seen # Working)
        /\ req' = [req EXCEPT ![r] = Idle]
    BY <1>6 DEF StageUser, End, Races
  <2>2. \A p \in Requests : req'[p] = req[p] \/ req'[p].at = "idle" BY <2>1 DEF Idle, InTyped
  <2>3. DOMAIN req' = Requests BY <2>1 DEF InTyped
  <2> QED BY <2>1, <2>2, <2>3 DEF InTyped, Rest
<1>7. ASSUME NEW r \in Requests, RemoveUser(r) PROVE Rest
  <2>1. UNCHANGED <<minted, raced>> BY <1>7 DEF RemoveUser
  <2>2. CASE req' = [req EXCEPT ![r] = Idle] BY <1>3, <2>1, <2>2 DEF Idle
  <2>3. ASSUME NEW k, req' = [req EXCEPT ![r].left = @ \ {k}] PROVE Rest
    <3> DEFINE q == [req[r] EXCEPT !.left = @ \ {k}]
    <3>1. req' = [req EXCEPT ![r] = q] BY <2>3
    <3>2. q.at = "stage" => req[r].at = "stage" BY <1>7 DEF RemoveUser
    <3>3. req[r].at = "remove" BY <1>7 DEF RemoveUser
    <3>4. q.at = "remove" BY <3>3
    <3> HIDE DEF q
    <3> QED BY <1>3, <2>1, <3>1, <3>4
  <2> QED BY <1>7, <2>2, <2>3 DEF RemoveUser, End
<1>8. ASSUME EditInbounds \/ (\E d \in Texts : SaveConfig(d)) \/ Discard \/ Apply
      PROVE  Rest
  <2>1. UNCHANGED <<req, minted, raced>>
    BY <1>8 DEF EditInbounds, CreateInbound, UpdateInbound, DeleteInbound, SaveConfig, Discard, Apply, NoRequest
  <2> QED BY <1>2, <2>1
<1>9. Rest
  <2>1. CASE StageUsers BY <1>4, <1>5, <1>6, <1>7, <2>1 DEF StageUsers
  <2>2. CASE UNCHANGED inVars BY <1>2, <2>2 DEF inVars
  <2> QED BY <1>8, <2>1, <2>2 DEF InNext
<1> QED BY <1>1, <1>9 DEF InTyped, Rest

LEMMA TypedInit == InInit => InTyped
<1> SUFFICES ASSUME InInit PROVE InTyped OBVIOUS
<1>1. active \in Section /\ draft = None BY InboundAssumption DEF InInit
<1>2. minted \in Nat /\ raced \in BOOLEAN BY DEF InInit
<1>3. DOMAIN req = Requests /\ \A r \in Requests : req[r].at = "idle" BY DEF InInit, Idle
<1> QED BY <1>1, <1>2, <1>3 DEF InTyped, InTypeOK

LEMMA InboundTyped == InSpec => []InTyped
<1> QED BY TypedInit, Typing, PTL DEF InSpec

\* The section and its draft keep their form, whichever editors and requests
\* overlap (inbounds.go, validator.go, users_handlers.go).
THEOREM InboundForm == InSpec => []InTypeOK
<1>1. InTyped => InTypeOK BY DEF InTyped
<1> QED BY <1>1, InboundTyped, PTL

-----------------------------------------------------------------------------
(* One inbound to a socket.                                                  *)

Apart(d) == ~d.dup => \A i, j \in DOMAIN d.inbounds : i # j =>
    d.inbounds[i].tag # d.inbounds[j].tag /\ ~Contend(d.inbounds[i], d.inbounds[j])

LEMMA ContendBothWays == ASSUME NEW b, NEW c, Contend(b, c) PROVE Contend(c, b)
BY DEF Contend

LEMMA SameSocket ==
    ASSUME NEW b \in Inbound, NEW us \in SUBSET User, NEW c
    PROVE  Contend(Peopled(b, us), c) <=> Contend(b, c)
BY Peopling DEF Contend, Networks

LEMMA ApartUnshared == ASSUME NEW d \in Section, Apart(d), ~d.dup PROVE ~SharedPort(d)
<1>1. DOMAIN d.inbounds = 1..Len(d.inbounds) /\ Len(d.inbounds) \in Nat BY Indices
<1> QED BY <1>1 DEF Apart, SharedPort

LEMMA UnsharedApart == ASSUME NEW d \in Section, ~SharedPort(d), d.dup = Twins(d) PROVE Apart(d)
<1>1. DOMAIN d.inbounds = 1..Len(d.inbounds) /\ Len(d.inbounds) \in Nat BY Indices
<1> SUFFICES ASSUME ~d.dup, NEW i \in DOMAIN d.inbounds, NEW j \in DOMAIN d.inbounds, i # j
             PROVE  d.inbounds[i].tag # d.inbounds[j].tag /\ ~Contend(d.inbounds[i], d.inbounds[j])
  BY DEF Apart
<1>2. i < j \/ j < i BY <1>1
<1> QED BY <1>2, ContendBothWays DEF SharedPort, Twins

LEMMA CreatedApart == ASSUME InTypeOK, Apart(Working), NEW e \in Section, Created(e) PROVE Apart(e)
<1>1. Working \in Section BY WorkingTyped
<1>2. PICK b \in Inbound : /\ Grown(Working, e, b) /\ b.tag \notin TagsOf(Working)
                           /\ ~Conflict(Working, b, None)
  BY DEF Created
<1> DEFINE n == Len(Working.inbounds) + 1
<1>3. /\ DOMAIN Working.inbounds = 1..(n - 1) /\ n \in Nat /\ DOMAIN e.inbounds = 1..n
      /\ e.inbounds[n] = b /\ \A j \in 1..(n - 1) : e.inbounds[j] = Working.inbounds[j]
  BY <1>1, <1>2, Indices DEF Grown
<1> HIDE DEF n
<1>4. \A j \in 1..(n - 1) : Working.inbounds[j].tag # b.tag /\ ~Contend(Working.inbounds[j], b)
  <2> SUFFICES ASSUME NEW j \in 1..(n - 1)
               PROVE  Working.inbounds[j].tag # b.tag /\ ~Contend(Working.inbounds[j], b)
    OBVIOUS
  <2>1. Working.inbounds[j] \in Inbound BY <1>1, <1>3, Indices
  <2>2. Working.inbounds[j].tag # None BY <2>1, InboundAssumption DEF Inbound
  <2> QED BY <1>2, <1>3, <2>2 DEF TagsOf, Conflict
<1> SUFFICES ASSUME ~e.dup, NEW i \in 1..n, NEW j \in 1..n, i # j
             PROVE  e.inbounds[i].tag # e.inbounds[j].tag /\ ~Contend(e.inbounds[i], e.inbounds[j])
  BY <1>3 DEF Apart
<1>5. ~Working.dup BY <1>2 DEF Grown
<1>6. CASE i # n /\ j # n
  <2>1. i \in 1..(n - 1) /\ j \in 1..(n - 1) BY <1>3, <1>6
  <2> QED BY <1>3, <1>5, <2>1 DEF Apart
<1>7. CASE j = n
  <2>1. i \in 1..(n - 1) BY <1>3, <1>7
  <2> QED BY <1>3, <1>4, <1>7, <2>1
<1>8. CASE i = n
  <2>1. j \in 1..(n - 1) BY <1>3, <1>8
  <2> QED BY <1>3, <1>4, <1>8, <2>1, ContendBothWays
<1> QED BY <1>6, <1>7, <1>8

LEMMA UpdatedApart == ASSUME InTypeOK, Apart(Working), NEW e \in Section, Updated(e) PROVE Apart(e)
<1>1. Working \in Section BY WorkingTyped
<1>2. PICK k \in DOMAIN Working.inbounds, b \in Inbound :
        /\ Changed(Working, e, k, b) /\ ~Conflict(Working, b, Working.inbounds[k].tag)
        /\ e.dup = (Working.dup \/ (b.tag # Working.inbounds[k].tag /\ b.tag \in TagsOf(Working)))
  BY DEF Updated
<1> SUFFICES ASSUME ~e.dup, NEW i \in DOMAIN e.inbounds, NEW j \in DOMAIN e.inbounds, i # j
             PROVE  e.inbounds[i].tag # e.inbounds[j].tag /\ ~Contend(e.inbounds[i], e.inbounds[j])
  BY DEF Apart
<1>3. ~Working.dup /\ (b.tag = Working.inbounds[k].tag \/ b.tag \notin TagsOf(Working)) BY <1>2
<1>4. ASSUME NEW m \in DOMAIN Working.inbounds, m # k
      PROVE  e.inbounds[m] = Working.inbounds[m] /\ Working.inbounds[m].tag # b.tag /\ ~Contend(Working.inbounds[m], b)
  <2>1. e.inbounds[m] = Working.inbounds[m] BY <1>2, <1>4 DEF Changed
  <2>2. Working.inbounds[m].tag # Working.inbounds[k].tag BY <1>3, <1>4 DEF Apart
  <2> QED BY <1>2, <1>3, <2>1, <2>2 DEF TagsOf, Conflict
<1>5. i \in DOMAIN Working.inbounds /\ j \in DOMAIN Working.inbounds /\ e.inbounds[k] = b BY <1>2 DEF Changed
<1>6. CASE i # k /\ j # k BY <1>3, <1>4, <1>5, <1>6 DEF Apart
<1>7. CASE j = k BY <1>4, <1>5, <1>7
<1>8. CASE i = k BY <1>4, <1>5, <1>8, ContendBothWays
<1> QED BY <1>6, <1>7, <1>8

LEMMA DroppedApart == ASSUME InTypeOK, Apart(Working), NEW e \in Section, Dropped(e) PROVE Apart(e)
<1>1. Working \in Section BY WorkingTyped
<1>2. PICK k \in DOMAIN Working.inbounds : Shrunk(Working, e, k) BY DEF Dropped
<1>3. DOMAIN Working.inbounds = 1..Len(Working.inbounds) /\ Len(Working.inbounds) \in Nat BY <1>1, Indices
<1> DEFINE m(i) == IF i < k THEN i ELSE i + 1
<1>4. \A i \in DOMAIN e.inbounds : m(i) \in DOMAIN Working.inbounds /\ e.inbounds[i] = Working.inbounds[m(i)]
  BY <1>2, <1>3 DEF Shrunk
<1>5. \A i, j \in DOMAIN e.inbounds : i # j => m(i) # m(j)
  BY <1>2, <1>3 DEF Shrunk
<1> HIDE DEF m
<1> QED BY <1>2, <1>4, <1>5 DEF Apart, Shrunk

LEMMA PeopledApart ==
    ASSUME InTypeOK, Apart(Working), NEW e \in Section, NEW k \in DOMAIN Working.inbounds, NEW us \in SUBSET User,
           Changed(Working, e, k, Peopled(Working.inbounds[k], us)), e.dup = Working.dup
    PROVE  Apart(e)
<1>1. Working \in Section BY WorkingTyped
<1> DEFINE b == Working.inbounds[k]
           p == Peopled(b, us)
<1>2. b \in Inbound BY <1>1, Indices
<1>3. p.tag = b.tag /\ \A c : Contend(p, c) <=> Contend(b, c) BY <1>2, Peopling, SameSocket
<1>4. \A c : Contend(c, p) <=> Contend(c, b) BY <1>3, ContendBothWays
<1>5. /\ DOMAIN e.inbounds = DOMAIN Working.inbounds
      /\ \A j \in DOMAIN e.inbounds : e.inbounds[j] = IF j = k THEN p ELSE Working.inbounds[j]
  BY DEF Changed
<1> HIDE DEF p
<1>6. ASSUME ~Working.dup, NEW i \in DOMAIN e.inbounds, NEW j \in DOMAIN e.inbounds, i # j
      PROVE  e.inbounds[i].tag # e.inbounds[j].tag /\ ~Contend(e.inbounds[i], e.inbounds[j])
  <2>1. Working.inbounds[i].tag # Working.inbounds[j].tag /\ ~Contend(Working.inbounds[i], Working.inbounds[j])
    BY <1>5, <1>6 DEF Apart
  <2>2. CASE i # k /\ j # k BY <1>5, <2>1, <2>2
  <2>3. CASE i = k BY <1>3, <1>5, <1>6, <2>1, <2>3
  <2>4. CASE j = k BY <1>3, <1>4, <1>5, <1>6, <2>1, <2>4
  <2> QED BY <2>2, <2>3, <2>4
<1> QED BY <1>6 DEF Apart

LEMMA UserInUsers ==
    ASSUME NEW d \in Section, NEW k \in DOMAIN d.inbounds, NEW u \in User
    PROVE  d.inbounds[k].users \cup {u} \in SUBSET User
BY Indices DEF Inbound

LEMMA EditApart ==
    ASSUME InTypeOK, Apart(active), Apart(Working), NEW e \in Section, Edit(e) PROVE Apart(e)
<1>1. Working \in Section BY WorkingTyped
<1>2. CASE e \in Texts /\ SectionOK(e)
  <2>1. ~SharedPort(e) /\ e.dup = Twins(e) BY <1>2, InboundAssumption DEF SectionOK
  <2> QED BY <2>1, UnsharedApart
<1>3. CASE Cut(e) BY <1>3, PeopledApart DEF Cut
<1>4. ASSUME NEW r \in Requests, NEW u \in User, Added(e, r, u) PROVE Apart(e)
  BY <1>1, <1>4, PeopledApart, UserInUsers DEF Added
<1> QED BY <1>2, <1>3, <1>4, CreatedApart, UpdatedApart, DroppedApart DEF Edit

BothApart == InTyped /\ Apart(active) /\ Apart(Working)

LEMMA StepApart == BothApart /\ [InNext]_inVars => BothApart'
<1> SUFFICES ASSUME BothApart, [InNext]_inVars PROVE BothApart' OBVIOUS
<1>1. InTyped /\ InTypeOK /\ InTyped' BY Typing DEF BothApart, InTyped
<1>2. PICK e \in Section : Edit(e) /\ active' \in {active, Working} /\ Working' \in {active, Working, e}
  BY <1>1, StepEdits DEF Edited
<1>3. Apart(e) BY <1>1, <1>2, EditApart DEF BothApart
<1>4. Apart(active') /\ Apart(Working') BY <1>2, <1>3 DEF BothApart
<1>5. Apart(active)' /\ Apart(Working)' BY <1>4 DEF Apart, Contend, Networks, Normal
<1> QED BY <1>1, <1>5 DEF BothApart

\* From sections without two inbounds on one socket, no order of creations,
\* moves, renames, texts and discards stages two on one, unless a rename gave
\* two of them one tag (listenPortConflict, Validate's seenPorts).
THEOREM SocketsApart == ASSUME StartApart PROVE InSpec => []NoContention
<1>1. InInit => BothApart
  <2> SUFFICES ASSUME InInit PROVE BothApart OBVIOUS
  <2>1. InTyped BY TypedInit
  <2>2. active \in Starts /\ Working = active /\ active \in Section /\ active.dup = Twins(active)
    BY InboundAssumption DEF InInit, Working
  <2>3. CASE active.dup BY <2>1, <2>2, <2>3 DEF BothApart, Apart
  <2>4. CASE ~active.dup
    <3>1. Apart(active) BY <2>2, <2>4, UnsharedApart DEF StartApart
    <3> QED BY <2>1, <2>2, <3>1 DEF BothApart
  <2> QED BY <2>2, <2>3, <2>4 DEF Section
<1>2. BothApart => NoContention
  BY ApartUnshared, WorkingTyped DEF BothApart, InTyped, NoContention
<1> QED BY <1>1, <1>2, StepApart, PTL DEF InSpec


-----------------------------------------------------------------------------
(* A mieru inbound keeps a user.                                             *)

LEMMA EditServes ==
    ASSUME InTypeOK, Served(active), Served(Working), NEW e \in Section, Edit(e) PROVE Served(e)
<1>1. Working \in Section BY WorkingTyped
<1>2. DOMAIN Working.inbounds = 1..Len(Working.inbounds) /\ Len(Working.inbounds) \in Nat BY <1>1, Indices
<1>3. \A b : InboundOK(b) /\ b.type = "mieru" => b.users # {} BY DEF InboundOK, MieruOK
<1>4. CASE e \in Texts /\ SectionOK(e) BY <1>3, <1>4 DEF SectionOK, Served
<1>5. CASE Created(e)
  <2>1. PICK b \in Inbound : Grown(Working, e, b) /\ InboundOK(b) BY <1>5 DEF Created
  <2>2. \A j \in DOMAIN e.inbounds : e.inbounds[j] = b \/ (j \in DOMAIN Working.inbounds /\ e.inbounds[j] = Working.inbounds[j])
    BY <1>2, <2>1 DEF Grown
  <2> QED BY <1>3, <2>1, <2>2 DEF Served
<1>6. CASE Updated(e)
  <2>1. PICK k \in DOMAIN Working.inbounds, b \in Inbound : Changed(Working, e, k, b) /\ InboundOK(b)
    BY <1>6 DEF Updated
  <2> QED BY <1>3, <2>1 DEF Served, Changed
<1>7. CASE Dropped(e)
  <2>1. PICK k \in DOMAIN Working.inbounds : Shrunk(Working, e, k) BY <1>7 DEF Dropped
  <2>2. \A j \in DOMAIN e.inbounds : \E m \in DOMAIN Working.inbounds : e.inbounds[j] = Working.inbounds[m]
    BY <1>2, <2>1 DEF Shrunk
  <2> QED BY <2>2 DEF Served
<1>8. ASSUME NEW k \in DOMAIN Working.inbounds, NEW us \in SUBSET User,
             Changed(Working, e, k, Peopled(Working.inbounds[k], us)),
             Working.inbounds[k].type = "mieru" /\ Working.inbounds[k].users # {} => us # {}
      PROVE  Served(e)
  <2> DEFINE p == Peopled(Working.inbounds[k], us)
  <2>1. p.type = Working.inbounds[k].type /\ p.users = us BY <1>1, Indices, Peopling
  <2> HIDE DEF p
  <2>2. Changed(Working, e, k, p) BY <1>8 DEF p
  <2> QED BY <1>8, <2>1, <2>2 DEF Served, Changed
<1>9. CASE Cut(e) BY <1>8, <1>9 DEF Cut
<1>10. ASSUME NEW r \in Requests, NEW u \in User, Added(e, r, u) PROVE Served(e)
  BY <1>1, <1>8, <1>10, UserInUsers DEF Added
<1> QED BY <1>4, <1>5, <1>6, <1>7, <1>9, <1>10 DEF Edit

BothServe == InTyped /\ Served(active) /\ Served(Working)

LEMMA StepServes == BothServe /\ [InNext]_inVars => BothServe'
<1> SUFFICES ASSUME BothServe, [InNext]_inVars PROVE BothServe' OBVIOUS
<1>1. InTyped /\ InTypeOK /\ InTyped' BY Typing DEF BothServe, InTyped
<1>2. PICK e \in Section : Edit(e) /\ active' \in {active, Working} /\ Working' \in {active, Working, e}
  BY <1>1, StepEdits DEF Edited
<1>3. Served(e) BY <1>1, <1>2, EditServes DEF BothServe
<1>4. Served(active') /\ Served(Working') BY <1>2, <1>3 DEF BothServe
<1>5. Served(active)' /\ Served(Working)' BY <1>4 DEF Served
<1> QED BY <1>1, <1>5 DEF BothServe

\* From sections whose mieru inbounds have users, no form, text or removal
\* leaves one without, though removals of several requests alternate
\* (mieruLastUserRemoval, validateMieruInbound).
THEOREM MieruServes == ASSUME StartServes PROVE InSpec => []MieruKeepsOne
<1>1. InInit => BothServe
  BY TypedInit DEF InInit, BothServe, StartServes, Working
<1>2. BothServe => MieruKeepsOne BY DEF BothServe, MieruKeepsOne
<1> QED BY <1>1, <1>2, StepServes, PTL DEF InSpec

-----------------------------------------------------------------------------
(* A user once to an inbound.                                                *)

Known == Given \cup Entries(active) \cup Entries(Working)

\* The request that is to stage a user found the inbound without it.
Unbound == \A r \in Requests : req[r].at = "stage" => ~BoundTo(req[r].seen, req[r].name, req[r].tag)

OnceInv == /\ InTyped /\ Owned(Known, minted) /\ Unbound
           /\ ~raced => Once(active) /\ Once(Working)

\* The entries after a step are known, but for the one it stages.
LEMMA EditEntries ==
    ASSUME InTypeOK, NEW e \in Section, Edit(e)
    PROVE  \/ Entries(e) \subseteq Known
           \/ \E r \in Requests, u \in User : Added(e, r, u) /\ Entries(e) \subseteq Known \cup {u}
<1>1. Working \in Section /\ active \in Section BY WorkingTyped
<1>2. DOMAIN Working.inbounds = 1..Len(Working.inbounds) /\ Len(Working.inbounds) \in Nat BY <1>1, Indices
<1>3. CASE e \in {active, Working} BY <1>3 DEF Known
<1>4. CASE e \in Texts
  <2>1. Entries(e) \subseteq Given BY <1>4 DEF Given
  <2> QED BY <2>1 DEF Known
<1>5. ASSUME NEW us, \A j \in DOMAIN e.inbounds :
                \/ e.inbounds[j].users \subseteq us
                \/ \E m \in DOMAIN Working.inbounds : e.inbounds[j].users = Working.inbounds[m].users
      PROVE  Entries(e) \subseteq us \cup Entries(Working)
  BY <1>5 DEF Entries
<1>6. CASE Created(e)
  <2>1. PICK b \in Inbound, f \in Forms : Grown(Working, e, b) /\ b.users = f.users BY <1>6 DEF Created
  <2>2. \A j \in DOMAIN e.inbounds : e.inbounds[j] = b \/ (j \in DOMAIN Working.inbounds /\ e.inbounds[j] = Working.inbounds[j])
    BY <1>2, <2>1 DEF Grown
  <2>3. f.users \subseteq Given BY DEF Given
  <2>4. \A j \in DOMAIN e.inbounds :
            \/ e.inbounds[j].users \subseteq Given
            \/ \E m \in DOMAIN Working.inbounds : e.inbounds[j].users = Working.inbounds[m].users
    BY <2>1, <2>2, <2>3
  <2>5. Entries(e) \subseteq Given \cup Entries(Working) BY <1>5, <2>4
  <2> QED BY <2>5 DEF Known
<1>7. CASE Updated(e)
  <2>1. PICK k \in DOMAIN Working.inbounds, b \in Inbound, read \in {active, Working} :
          Changed(Working, e, k, b) /\ \E i \in DOMAIN read.inbounds : b.users = read.inbounds[i].users
    BY <1>7 DEF Updated
  <2>2. b.users \subseteq Entries(read) BY <2>1 DEF Entries
  <2>3. \A j \in DOMAIN e.inbounds :
            \/ e.inbounds[j].users \subseteq Entries(read)
            \/ \E m \in DOMAIN Working.inbounds : e.inbounds[j].users = Working.inbounds[m].users
    BY <2>1, <2>2 DEF Changed
  <2>4. Entries(e) \subseteq Entries(read) \cup Entries(Working) BY <1>5, <2>3
  <2>5. Entries(read) \subseteq Known BY DEF Known
  <2> QED BY <2>4, <2>5 DEF Known
<1>8. CASE Dropped(e)
  <2>1. PICK k \in DOMAIN Working.inbounds : Shrunk(Working, e, k) BY <1>8 DEF Dropped
  <2>2. \A j \in DOMAIN e.inbounds : \E m \in DOMAIN Working.inbounds : e.inbounds[j] = Working.inbounds[m]
    BY <1>2, <2>1 DEF Shrunk
  <2>3. Entries(e) \subseteq {} \cup Entries(Working) BY <1>5, <2>2
  <2> QED BY <2>3 DEF Known
<1>9. ASSUME NEW k \in DOMAIN Working.inbounds, NEW us \in SUBSET User,
             Changed(Working, e, k, Peopled(Working.inbounds[k], us))
      PROVE  Entries(e) \subseteq us \cup Entries(Working)
  <2> DEFINE p == Peopled(Working.inbounds[k], us)
  <2>1. p.users = us BY <1>1, Indices, Peopling
  <2> HIDE DEF p
  <2>2. Changed(Working, e, k, p) BY <1>9 DEF p
  <2>3. \A j \in DOMAIN e.inbounds :
            \/ e.inbounds[j].users \subseteq us
            \/ \E m \in DOMAIN Working.inbounds : e.inbounds[j].users = Working.inbounds[m].users
    BY <2>1, <2>2 DEF Changed
  <2> QED BY <1>5, <2>3
<1>10. CASE Cut(e)
  <2>1. PICK k \in DOMAIN Working.inbounds, us \in SUBSET User :
          Changed(Working, e, k, Peopled(Working.inbounds[k], us)) /\ us \subseteq Working.inbounds[k].users
    BY <1>10 DEF Cut
  <2>2. Entries(e) \subseteq us \cup Entries(Working) BY <1>9, <2>1
  <2>3. us \subseteq Entries(Working) BY <2>1 DEF Entries
  <2> QED BY <2>2, <2>3 DEF Known
<1>11. ASSUME NEW r \in Requests, NEW u \in User, Added(e, r, u) PROVE Entries(e) \subseteq Known \cup {u}
  <2>1. PICK k \in DOMAIN Working.inbounds :
          Changed(Working, e, k, Peopled(Working.inbounds[k], Working.inbounds[k].users \cup {u}))
    BY <1>11 DEF Added
  <2> DEFINE us == Working.inbounds[k].users \cup {u}
  <2>2. us \in SUBSET User BY <1>1, UserInUsers
  <2>3. us \subseteq Entries(Working) \cup {u} BY DEF Entries
  <2> HIDE DEF us
  <2>4. Changed(Working, e, k, Peopled(Working.inbounds[k], us)) BY <2>1 DEF us
  <2>5. Entries(e) \subseteq us \cup Entries(Working) BY <1>9, <2>2, <2>4
  <2> QED BY <2>3, <2>5 DEF Known
<1> QED BY <1>3, <1>4, <1>6, <1>7, <1>8, <1>10, <1>11 DEF Edit


LEMMA EditOnce ==
    ASSUME OnceInv, ~raced', ~raced, NEW e \in Section, Edit(e), GivenOnce PROVE Once(e)
<1>1. Working \in Section /\ Once(active) /\ Once(Working) BY WorkingTyped DEF OnceInv, InTyped
<1>2. DOMAIN Working.inbounds = 1..Len(Working.inbounds) /\ Len(Working.inbounds) \in Nat BY <1>1, Indices
<1>3. CASE e \in {active, Working} BY <1>1, <1>3
<1>4. CASE e \in Texts BY <1>4 DEF GivenOnce
<1>5. CASE Created(e)
  <2>1. PICK b \in Inbound, f \in Forms : Grown(Working, e, b) /\ b.users = f.users BY <1>5 DEF Created
  <2>2. \A j \in DOMAIN e.inbounds : e.inbounds[j] = b \/ (j \in DOMAIN Working.inbounds /\ e.inbounds[j] = Working.inbounds[j])
    BY <1>2, <2>1 DEF Grown
  <2>3. OnceIn(b.users) BY <2>1 DEF GivenOnce
  <2> QED BY <1>1, <2>2, <2>3 DEF Once
<1>6. CASE Updated(e)
  <2>1. PICK k \in DOMAIN Working.inbounds, b \in Inbound, read \in {active, Working} :
          Changed(Working, e, k, b) /\ \E i \in DOMAIN read.inbounds : b.users = read.inbounds[i].users
    BY <1>6 DEF Updated
  <2>2. OnceIn(b.users) BY <1>1, <2>1 DEF Once
  <2> QED BY <1>1, <2>1, <2>2 DEF Once, Changed
<1>7. CASE Dropped(e)
  <2>1. PICK k \in DOMAIN Working.inbounds : Shrunk(Working, e, k) BY <1>7 DEF Dropped
  <2>2. \A j \in DOMAIN e.inbounds : \E m \in DOMAIN Working.inbounds : e.inbounds[j] = Working.inbounds[m]
    BY <1>2, <2>1 DEF Shrunk
  <2> QED BY <1>1, <2>2 DEF Once
<1>8. ASSUME NEW k \in DOMAIN Working.inbounds, NEW us \in SUBSET User, OnceIn(us),
             Changed(Working, e, k, Peopled(Working.inbounds[k], us))
      PROVE  Once(e)
  <2> DEFINE p == Peopled(Working.inbounds[k], us)
  <2>1. p.users = us BY <1>1, Indices, Peopling
  <2> HIDE DEF p
  <2>2. Changed(Working, e, k, p) BY <1>8 DEF p
  <2> QED BY <1>1, <1>8, <2>1, <2>2 DEF Once, Changed
<1>9. CASE Cut(e)
  <2>1. PICK k \in DOMAIN Working.inbounds, us \in SUBSET User :
          Changed(Working, e, k, Peopled(Working.inbounds[k], us)) /\ us \subseteq Working.inbounds[k].users
    BY <1>9 DEF Cut
  <2>2. OnceIn(Working.inbounds[k].users) BY <1>1 DEF Once
  <2>3. OnceIn(us) BY <2>1, <2>2 DEF OnceIn
  <2> QED BY <1>8, <2>1, <2>3
<1>10. ASSUME NEW r \in Requests, NEW u \in User, Added(e, r, u) PROVE Once(e)
  <2>1. PICK k \in DOMAIN Working.inbounds :
          /\ Changed(Working, e, k, Peopled(Working.inbounds[k], Working.inbounds[k].users \cup {u}))
          /\ Working.inbounds[k].tag = req[r].tag /\ req[r].at = "stage" /\ u.name = req[r].name /\ Races(r)
    BY <1>10 DEF Added
  <2> DEFINE vs == Working.inbounds[k].users
             us == vs \cup {u}
  <2>2. req[r].seen = Working BY <2>1 DEF Races
  <2>3. \A v \in vs : v.name # u.name BY <2>1, <2>2 DEF OnceInv, Unbound, BoundTo
  <2>4. OnceIn(vs) BY <1>1 DEF Once
  <2>5. us \in SUBSET User BY <1>1, UserInUsers
  <2>6. OnceIn(us) BY <2>3, <2>4 DEF OnceIn
  <2> HIDE DEF us
  <2>7. Changed(Working, e, k, Peopled(Working.inbounds[k], us)) BY <2>1 DEF us
  <2> QED BY <1>8, <2>5, <2>6, <2>7
<1> QED BY <1>3, <1>4, <1>5, <1>6, <1>7, <1>9, <1>10 DEF Edit

\* Credentials only grow, and so does the history of races.
LEMMA Minting ==
    ASSUME InTyped, [InNext]_inVars PROVE minted' \in {minted, minted + 1} /\ (~raced' => ~raced)
<1> DEFINE Grows == minted' \in {minted, minted + 1} /\ (~raced' => ~raced)
<1>1. ASSUME UNCHANGED <<minted, raced>> PROVE Grows BY <1>1
<1>2. ASSUME NEW r \in Requests, StageUser(r) PROVE Grows
  <2>1. minted' = minted + 1 BY <1>2 DEF StageUser
  <2>2. ~raced' => ~raced BY <1>2, Zenon DEF StageUser, Races
  <2> QED BY <2>1, <2>2
<1> SUFFICES Grows OBVIOUS
<1> HIDE DEF Grows
<1>3. CASE EditInbounds \/ (\E d \in Texts : SaveConfig(d)) \/ Discard \/ Apply
  BY <1>1, <1>3 DEF EditInbounds, CreateInbound, UpdateInbound, DeleteInbound, SaveConfig, Discard, Apply, NoRequest
<1>4. CASE StageUsers
  BY <1>1, <1>2, <1>4 DEF StageUsers, CreateUser, AddBinding, DeleteUser, RemoveUser
<1>5. CASE UNCHANGED inVars BY <1>1, <1>5 DEF inVars
<1> QED BY <1>3, <1>4, <1>5 DEF InNext

\* A name that is not taken is bound nowhere: an entry of it in work has its
\* key in the active section too, and one name owns a key.
LEMMA FreeIsUnbound ==
    ASSUME OnceInv, NEW n \in Names, NEW t, ~NameTaken(n) PROVE ~BoundTo(Working, n, t)
<1> SUFFICES ASSUME NEW i \in DOMAIN Working.inbounds, NEW u \in Working.inbounds[i].users, u.name = n
             PROVE  FALSE
  BY DEF BoundTo
<1> DEFINE b == Working.inbounds[i]
           k == <<b.tag, Key(b, u)>>
<1>1. k \in BindingsOf(Working, n) BY DEF BindingsOf
<1>2. PICK m \in Names : k \in Registered(m) BY <1>1 DEF NameTaken
<1>3. PICK j \in DOMAIN active.inbounds : \E v \in active.inbounds[j].users :
        v.name = m /\ k = <<active.inbounds[j].tag, Key(active.inbounds[j], v)>>
  BY <1>2 DEF Registered, BindingsOf
<1>4. PICK v \in active.inbounds[j].users : v.name = m /\ k = <<active.inbounds[j].tag, Key(active.inbounds[j], v)>>
  BY <1>3
<1>5. Key(active.inbounds[j], v) = Key(b, u) BY <1>4
<1>6. u \in Known /\ v \in Known BY DEF Known, Entries
<1>7. u.name = v.name BY <1>5, <1>6 DEF Key, OnceInv, Owned
<1>8. k \in Registered(n) BY <1>2, <1>4, <1>7
<1> QED BY <1>8 DEF NameTaken

LEMMA StepUnbound == ASSUME OnceInv, [InNext]_inVars PROVE Unbound'
<1> DEFINE Clear(q) == q.at = "stage" => ~BoundTo(q.seen, q.name, q.tag)
<1>1. InTyped /\ \A r \in Requests : Clear(req[r]) BY DEF OnceInv, Unbound
<1> SUFFICES \A r \in Requests : Clear(req'[r]) BY DEF Unbound, BoundTo
<1> HIDE DEF Clear
<1>2. ASSUME NEW r \in Requests, NEW q, req' = [req EXCEPT ![r] = q], Clear(q)
      PROVE  \A p \in Requests : Clear(req'[p])
  BY <1>1, <1>2 DEF InTyped
<1>3. ASSUME NEW q, q.at # "stage" PROVE Clear(q) BY <1>3 DEF Clear
<1>4. ASSUME NEW r \in Requests, NEW n \in Names, NEW t \in Tags, CreateUser(r, n, t) \/ AddBinding(r, n, t)
      PROVE  \A p \in Requests : Clear(req'[p])
  <2> DEFINE q == [Staging(n, t) EXCEPT !.seen = Working]
  <2>1. req' = [req EXCEPT ![r] = q] BY <1>4 DEF CreateUser, AddBinding, Begin
  <2>2. q.name = n /\ q.tag = t /\ q.seen = Working BY DEF Staging, Idle
  <2>3. ~BoundTo(Working, n, t) BY <1>4, FreeIsUnbound DEF CreateUser, AddBinding
  <2> HIDE DEF q
  <2>4. Clear(q) BY <2>2, <2>3 DEF Clear
  <2> QED BY <1>2, <2>1, <2>4
<1>5. ASSUME NEW r \in Requests, NEW n \in Names, DeleteUser(r, n) PROVE \A p \in Requests : Clear(req'[p])
  <2> DEFINE q == [[Idle EXCEPT !.at = "remove", !.name = n, !.left = Registered(n)] EXCEPT !.seen = Working]
  <2>1. req' = [req EXCEPT ![r] = q] BY <1>5 DEF DeleteUser, Begin
  <2>2. q.at = "remove" BY DEF Idle
  <2> HIDE DEF q
  <2> QED BY <1>2, <1>3, <2>1, <2>2
<1>6. ASSUME NEW r \in Requests, req' = [req EXCEPT ![r] = Idle] PROVE \A p \in Requests : Clear(req'[p])
  <2>1. Idle.at = "idle" BY DEF Idle
  <2> QED BY <1>2, <1>3, <1>6, <2>1
<1>7. ASSUME NEW r \in Requests, NEW k, req[r].at = "remove", req' = [req EXCEPT ![r].left = @ \ {k}]
      PROVE  \A p \in Requests : Clear(req'[p])
  <2> DEFINE q == [req[r] EXCEPT !.left = @ \ {k}]
  <2>1. req' = [req EXCEPT ![r] = q] BY <1>7
  <2>2. q.at = req[r].at \/ q.at = "remove" BY <1>7
  <2>3. q.at = "remove" BY <1>7, <2>2
  <2> HIDE DEF q
  <2> QED BY <1>2, <1>3, <2>1, <2>3
<1>8. CASE StageUsers
  <2>1. ASSUME NEW r \in Requests, StageUser(r) PROVE \A p \in Requests : Clear(req'[p])
    BY <1>6, <2>1 DEF StageUser, End
  <2>2. ASSUME NEW r \in Requests, RemoveUser(r) PROVE \A p \in Requests : Clear(req'[p])
    BY <1>6, <1>7, <2>2 DEF RemoveUser, End
  <2> QED BY <1>4, <1>5, <1>8, <2>1, <2>2 DEF StageUsers
<1>9. CASE UNCHANGED req BY <1>1, <1>9
<1>10. CASE EditInbounds \/ (\E d \in Texts : SaveConfig(d)) \/ Discard \/ Apply
  BY <1>9, <1>10 DEF EditInbounds, CreateInbound, UpdateInbound, DeleteInbound, SaveConfig, Discard, Apply, NoRequest
<1> QED BY <1>8, <1>9, <1>10 DEF InNext, inVars

LEMMA StepOnce == ASSUME GivenOnce PROVE OnceInv /\ [InNext]_inVars => OnceInv'
<1> SUFFICES ASSUME OnceInv, [InNext]_inVars PROVE OnceInv' OBVIOUS
<1>1. InTyped /\ InTypeOK /\ InTyped' BY Typing DEF OnceInv, InTyped
<1>2. PICK e \in Section : Edit(e) /\ active' \in {active, Working} /\ Working' \in {active, Working, e}
  BY <1>1, StepEdits DEF Edited
<1>3. ASSUME ~raced' PROVE Once(active)' /\ Once(Working)'
  <2>1. Once(active) /\ Once(Working) /\ Once(e) BY <1>1, <1>2, <1>3, Minting, EditOnce DEF OnceInv
  <2>2. Once(active') /\ Once(Working') BY <1>2, <2>1
  <2> QED BY <2>2 DEF Once
<1>4. Owned(Known, minted)'
  <2>1. \A u \in Known : u.cred \in Nat
    <3>1. \A b \in Inbound : b.users \subseteq User BY DEF Inbound
    <3>2. \A d \in Section : Entries(d) \subseteq User BY <3>1, Indices DEF Entries
    <3>3. Given \subseteq User BY <3>1, <3>2, InboundAssumption DEF Given
    <3>4. Known \subseteq User BY <1>1, <3>2, <3>3, WorkingTyped DEF Known
    <3> QED BY <3>4, InboundAssumption DEF User
  <2>2. minted \in Nat /\ minted' \in {minted, minted + 1} /\ Owned(Known, minted)
    BY <1>1, Minting DEF InTyped, OnceInv
  <2>3. Given \cup Entries(active') \cup Entries(Working') \subseteq Known \cup Entries(e) BY <1>2 DEF Known
  <2>4. CASE Entries(e) \subseteq Known
    <3>1. Owned(Given \cup Entries(active') \cup Entries(Working'), minted')
      BY <2>1, <2>2, <2>3, <2>4 DEF Owned
    <3> QED BY <3>1 DEF Owned, Known, Entries
  <2>5. ASSUME NEW r \in Requests, NEW u \in User, Added(e, r, u), Entries(e) \subseteq Known \cup {u}
        PROVE  Owned(Known, minted)'
    <3>1. u.cred = minted + 1 /\ minted' = minted + 1 BY <2>5 DEF Added
    <3>2. Owned(Known \cup {u}, minted') BY <2>1, <2>2, <3>1 DEF Owned
    <3>3. Given \cup Entries(active') \cup Entries(Working') \subseteq Known \cup {u} BY <2>3, <2>5
    <3>4. Owned(Given \cup Entries(active') \cup Entries(Working'), minted') BY <3>2, <3>3 DEF Owned
    <3> QED BY <3>4 DEF Owned, Known, Entries
  <2> QED BY <1>1, <1>2, <2>4, <2>5, EditEntries
<1> QED BY <1>1, <1>3, <1>4, StepUnbound DEF OnceInv

\* From sections, forms and texts that give a credential to one name and list a
\* name once, no user is listed twice in an inbound and no credential joins two
\* entries, unless the section changed between a request's look and its write
\* (AddBinding's check, CreateUser's nameTaken).
THEOREM UsersBoundOnce == ASSUME GivenOnce PROVE InSpec => []BoundOnce
<1>1. InInit => OnceInv
  <2> SUFFICES ASSUME InInit PROVE OnceInv OBVIOUS
  <2>1. InTyped BY TypedInit
  <2>2. active \in Starts /\ Working = active /\ minted = 2 BY DEF InInit, Working
  <2>3. Entries(active) \subseteq Given BY <2>2 DEF Given
  <2>4. Owned(Known, minted) BY <2>2, <2>3 DEF GivenOnce, Owned, Known
  <2>5. Unbound BY DEF InInit, Unbound, Idle
  <2>6. Once(active) BY <2>2 DEF GivenOnce
  <2> QED BY <2>1, <2>2, <2>4, <2>5, <2>6 DEF OnceInv
<1>2. OnceInv => BoundOnce
  <2> SUFFICES ASSUME OnceInv, ~raced, NEW i \in DOMAIN Working.inbounds,
                      NEW u \in Working.inbounds[i].users, NEW v \in Working.inbounds[i].users
               PROVE  /\ u.name = v.name => u = v
                      /\ Key(Working.inbounds[i], u) = Key(Working.inbounds[i], v) => u = v
    BY DEF BoundOnce, Distinct
  <2>1. u.name = v.name => u = v BY DEF OnceInv, Once, OnceIn
  <2>2. u \in Known /\ v \in Known BY DEF Known, Entries
  <2>3. u.cred = v.cred => u.name = v.name BY <2>2 DEF OnceInv, Owned
  <2> QED BY <2>1, <2>3 DEF Key
<1> QED BY <1>1, <1>2, StepOnce, PTL DEF InSpec
=============================================================================
