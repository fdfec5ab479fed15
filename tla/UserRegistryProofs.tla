-------------------------- MODULE UserRegistryProofs --------------------------
(***************************************************************************)
(* What holds of the user registry for every configuration, every number   *)
(* of credentials, names and ids, and every number of UpdateUser requests. *)
(*                                                                         *)
(* The loop of Reconcile is a recursive function of the groups' keys: that *)
(* it exists (LoopTurns) and what its turns keep (TurnsKeep, TurnsSpare)   *)
(* is shown by the least key at which it would fail.                       *)
(***************************************************************************)
EXTENDS UserRegistry, FiniteSetTheorems, FunctionTheorems, WellFoundedInduction, TLAPS

-----------------------------------------------------------------------------
(* Numbers.                                                                  *)

LEMMA Least ==
    ASSUME NEW T \in SUBSET Nat, T # {}
    PROVE  \E i \in T : \A j \in T : i <= j
<1> DEFINE R == {ss \in Nat \X Nat : ss[1] < ss[2]}
<1>1. IsWellFoundedOn(R, Nat) BY NatLessThanWellFounded DEF OpToRel
<1>2. PICK x \in T : \A y \in T : ~(<<y, x>> \in R) BY <1>1, WFMin
<1>3. \A y \in T : x <= y
  <2> SUFFICES ASSUME NEW y \in T PROVE x <= y OBVIOUS
  <2>1. x \in Nat /\ y \in Nat /\ ~(<<y, x>> \in R) BY <1>2
  <2>2. ~(y < x) BY <2>1
  <2> QED BY <2>1, <2>2
<1> QED BY <1>2, <1>3

LEMMA MinIn ==
    ASSUME NEW T \in SUBSET Nat, T # {}
    PROVE  Min(T) \in T /\ \A j \in T : Min(T) <= j
BY Least DEF Min

LEMMA MaxIn ==
    ASSUME NEW n \in Nat, NEW T \in SUBSET (0..n), T # {}
    PROVE  Max(T) \in T
<1> DEFINE D == {n - i : i \in T}
<1>1. D \in SUBSET Nat /\ D # {}
  <2>1. \A i \in T : n - i \in Nat OBVIOUS
  <2>2. PICK i \in T : TRUE OBVIOUS
  <2>3. n - i \in D BY <2>2
  <2> QED BY <2>1, <2>3
<1>2. PICK d \in D : \A j \in D : d <= j BY <1>1, Least
<1>3. PICK i \in T : d = n - i BY <1>2
<1>4. \A j \in T : i >= j
  <2> SUFFICES ASSUME NEW j \in T PROVE i >= j OBVIOUS
  <2>1. n - i <= n - j BY <1>2, <1>3
  <2> QED BY <2>1
<1> QED BY <1>4 DEF Max

\* A fresh id is one.
LEMMA FreshIsFresh ==
    ASSUME NEW F \in SUBSET Ids, F # {}, NEW low
    PROVE  FreshId(F, low) \in F
<1>1. MaxId \in Nat /\ F \in SUBSET Nat /\ F \in SUBSET (0..MaxId)
  BY RegistryAssumption DEF Ids
<1>2. Min(F) \in F /\ Max(F) \in F BY <1>1, MinIn, MaxIn
<1> QED BY <1>2 DEF FreshId

-----------------------------------------------------------------------------
(* Groups.                                                                   *)

Config == SUBSET (Creds \X (Names \cup {0}))

Keys == 1..MaxCred + MaxName

LEMMA Sizes == MaxCred \in Nat /\ MaxName \in Nat /\ MaxOps \in Nat /\ MaxId \in Nat
BY RegistryAssumption

LEMMA IdentityKey ==
    ASSUME NEW e \in Creds \X (Names \cup {0})
    PROVE  /\ Identity(e) \in Keys
           /\ Identity(e) <= MaxCred <=> e[2] = 0
           /\ GroupName(Identity(e)) = e[2]
           /\ Identity(e) <= MaxCred => Identity(e) = e[1]
BY Sizes DEF Identity, GroupName, Keys, Creds, Names

\* The group a listed credential belongs to is one that lists it.
LEMMA OwnerLists ==
    ASSUME NEW cfg \in Config, NEW c \in Listed(cfg)
    PROVE  \E e \in cfg : e[1] = c /\ Owner(cfg, c) = Identity(e)
<1> DEFINE E == {x \in cfg : x[1] = c}
           T == {Identity(e) : e \in E}
<1>1. E \subseteq cfg /\ E # {} BY DEF Listed
<1>2. T # {} /\ T \in SUBSET Nat BY <1>1, IdentityKey, Sizes DEF Config, Keys
<1>3. Min(T) \in T BY <1>2, MinIn
<1> QED BY <1>3 DEF Owner

LEMMA GroupsAreKeys ==
    ASSUME NEW cfg \in Config
    PROVE  /\ Groups(cfg) \subseteq Keys
           /\ Listed(cfg) \subseteq Creds
           /\ \A g \in Groups(cfg) : GroupBinds(cfg, g) \in SUBSET Creds /\ GroupName(g) \in Names \cup {0}
<1>1. Listed(cfg) \subseteq Creds BY DEF Listed, Config
<1>2. ASSUME NEW g \in Groups(cfg) PROVE g \in Keys /\ GroupName(g) \in Names \cup {0}
  <2>1. PICK c \in Listed(cfg) : g = Owner(cfg, c) BY DEF Groups
  <2>2. PICK e \in cfg : g = Identity(e) BY <2>1, OwnerLists
  <2>3. e \in Creds \X (Names \cup {0}) BY DEF Config
  <2> QED BY <2>2, <2>3, IdentityKey
<1> QED BY <1>1, <1>2 DEF GroupBinds

\* There are no more groups than credentials.
LEMMA GroupsAreFew ==
    ASSUME NEW cfg \in Config
    PROVE  IsFiniteSet(Groups(cfg)) /\ Cardinality(Groups(cfg)) <= MaxCred
<1> DEFINE f == [c \in Listed(cfg) |-> Owner(cfg, c)]
<1>1. IsFiniteSet(Creds) /\ Cardinality(Creds) = MaxCred
  BY FS_Interval, Sizes DEF Creds
<1>2. IsFiniteSet(Listed(cfg)) /\ Cardinality(Listed(cfg)) <= MaxCred
  BY <1>1, GroupsAreKeys, FS_Subset
<1>3. f \in Surjection(Listed(cfg), Groups(cfg)) BY DEF Surjection, Groups
<1>4. IsFiniteSet(Groups(cfg)) /\ Cardinality(Groups(cfg)) <= Cardinality(Listed(cfg))
  BY <1>2, <1>3, FS_Surjection
<1> QED BY <1>2, <1>4, FS_CardinalityType, Sizes

-----------------------------------------------------------------------------
(* The loop.                                                                 *)

Turn(m, cfg, fresh, low, g, pass) ==
    IF g \in Groups(cfg) THEN Converge(m, cfg, fresh, low, pass, g) ELSE pass

\* f is the first n turns of the loop.
IsLoop(f, n, m, cfg, fresh, low) ==
    f = [g \in 0..n |-> IF g = 0 THEN [reg |-> m, kept |-> {}]
                        ELSE Turn(m, cfg, fresh, low, g, f[g - 1])]

LEMMA LoopExists ==
    ASSUME NEW m, NEW cfg, NEW fresh, NEW low, NEW n \in Nat
    PROVE  \E f : IsLoop(f, n, m, cfg, fresh, low)
<1> DEFINE T == {i \in Nat : ~\E f : IsLoop(f, i, m, cfg, fresh, low)}
<1> SUFFICES ASSUME T # {} PROVE FALSE OBVIOUS
<1>1. PICK i \in T : \A j \in T : i <= j BY Least
<1>2. CASE i = 0
  <2> DEFINE f == [g \in 0..0 |-> [reg |-> m, kept |-> {}]]
  <2>1. IsLoop(f, 0, m, cfg, fresh, low) BY DEF IsLoop
  <2> QED BY <1>1, <1>2, <2>1
<1>3. CASE i # 0
  <2>1. i - 1 \in Nat /\ i - 1 \notin T BY <1>1, <1>3
  <2>2. PICK f : IsLoop(f, i - 1, m, cfg, fresh, low) BY <2>1
  <2> DEFINE h == [g \in 0..i |-> IF g = i THEN Turn(m, cfg, fresh, low, i, f[i - 1]) ELSE f[g]]
  <2>3. \A g \in 0..i - 1 : f[g] = IF g = 0 THEN [reg |-> m, kept |-> {}]
                                   ELSE Turn(m, cfg, fresh, low, g, f[g - 1])
    BY <2>2 DEF IsLoop
  <2>4. \A g \in 0..i : h[g] = IF g = 0 THEN [reg |-> m, kept |-> {}]
                               ELSE Turn(m, cfg, fresh, low, g, h[g - 1])
    <3> SUFFICES ASSUME NEW g \in 0..i
                 PROVE  h[g] = IF g = 0 THEN [reg |-> m, kept |-> {}]
                               ELSE Turn(m, cfg, fresh, low, g, h[g - 1])
      OBVIOUS
    <3>1. CASE g = i
      <4>1. i - 1 \in 0..i /\ i - 1 # i BY <2>1, <1>3
      <4>2. h[i - 1] = f[i - 1] BY <4>1
      <4> QED BY <3>1, <4>2, <1>3
    <3>2. CASE g # i /\ g # 0
      <4>1. g \in 0..i - 1 /\ g - 1 \in 0..i /\ g - 1 # i BY <3>2, <2>1
      <4>2. h[g] = f[g] /\ h[g - 1] = f[g - 1] BY <4>1, <3>2
      <4> QED BY <4>1, <4>2, <2>3, <3>2
    <3>3. CASE g # i /\ g = 0
      BY <3>3, <2>1, <2>3
    <3> QED BY <3>1, <3>2, <3>3
  <2>5. IsLoop(h, i, m, cfg, fresh, low) BY <2>4, Zenon DEF IsLoop
  <2> QED BY <1>1, <2>5
<1> QED BY <1>2, <1>3

\* What the code's loop computes, turn by turn.
IsTurns(turn, m, cfg, fresh, low) ==
    /\ turn[0] = [reg |-> m, kept |-> {}]
    /\ \A g \in Keys : turn[g] = Turn(m, cfg, fresh, low, g, turn[g - 1])

LEMMA LoopTurns ==
    ASSUME NEW m, NEW cfg, NEW fresh, NEW low
    PROVE  \E turn :
              /\ IsTurns(turn, m, cfg, fresh, low)
              /\ Converged(m, cfg, fresh, low) = turn[MaxCred + MaxName]
<1> DEFINE N == MaxCred + MaxName
           turn == CHOOSE f : f = [g \in 0..N |->
                      IF g = 0 THEN [reg |-> m, kept |-> {}]
                      ELSE IF g \in Groups(cfg)
                           THEN Converge(m, cfg, fresh, low, f[g - 1], g)
                           ELSE f[g - 1]]
<1>1. N \in Nat BY Sizes
<1>2. PICK f : IsLoop(f, N, m, cfg, fresh, low) BY <1>1, LoopExists
<1>3. turn = [g \in 0..N |->
                      IF g = 0 THEN [reg |-> m, kept |-> {}]
                      ELSE IF g \in Groups(cfg)
                           THEN Converge(m, cfg, fresh, low, turn[g - 1], g)
                           ELSE turn[g - 1]]
  BY <1>2, Zenon DEF IsLoop, Turn
<1>4. Converged(m, cfg, fresh, low) = turn[N] BY DEF Converged
<1> HIDE DEF turn
<1>5. 0 \in 0..N /\ Keys \subseteq 0..N /\ 0 \notin Keys BY <1>1 DEF Keys
<1>6. turn[0] = [reg |-> m, kept |-> {}] BY <1>3, <1>5
<1>7. ASSUME NEW g \in Keys PROVE turn[g] = Turn(m, cfg, fresh, low, g, turn[g - 1])
  BY <1>3, <1>5 DEF Turn
<1> QED BY <1>4, <1>6, <1>7 DEF IsTurns

\* The user a turn starts from: the one found under the id, or a new one.
Source(m, id) == IF id \in DOMAIN m THEN m[id] ELSE NewUser

Shaped(m, cfg, id, g) ==
    [Source(m, id) EXCEPT !.name = GroupName(g), !.binds = GroupBinds(cfg, g)]

Done(cfg, g) == {h \in Groups(cfg) : h <= g}

\* What is true after the turns up to g: the users kept are one for each group
\* up to g, who[h] the one of group h, and the others are as they were found.
Keeps(m, cfg, fresh, g, pass, who) ==
    /\ pass.kept \subseteq DOMAIN pass.reg
    /\ DOMAIN pass.reg \subseteq DOMAIN m \cup pass.kept
    /\ pass.kept \subseteq DOMAIN m \cup fresh
    /\ \A id \in DOMAIN pass.reg \ pass.kept : pass.reg[id] = m[id]
    /\ who \in Bijection(Done(cfg, g), pass.kept)
    /\ \A h \in Done(cfg, g) : pass.reg[who[h]] = Shaped(m, cfg, who[h], h)

\* A call has room: more ids are free than the loop can use.
Roomy(m, fresh) ==
    /\ fresh \in SUBSET Ids /\ fresh \cap DOMAIN m = {}
    /\ IsFiniteSet(fresh) /\ Cardinality(fresh) >= MaxCred

LEMMA DoneIsFew ==
    ASSUME NEW cfg \in Config, NEW g \in Keys, g \in Groups(cfg)
    PROVE  IsFiniteSet(Done(cfg, g - 1)) /\ Cardinality(Done(cfg, g - 1)) < MaxCred
<1>1. Done(cfg, g - 1) \subseteq Groups(cfg) BY DEF Done
<1>2. g \notin Done(cfg, g - 1) BY Sizes DEF Done, Keys
<1>3. IsFiniteSet(Done(cfg, g - 1)) /\ Cardinality(Done(cfg, g - 1)) < Cardinality(Groups(cfg))
  <2>1. Cardinality(Done(cfg, g - 1)) # Cardinality(Groups(cfg)) BY <1>1, <1>2, GroupsAreFew, FS_Subset
  <2>2. IsFiniteSet(Done(cfg, g - 1)) /\ Cardinality(Done(cfg, g - 1)) <= Cardinality(Groups(cfg))
    BY <1>1, GroupsAreFew, FS_Subset
  <2> QED BY <2>1, <2>2, GroupsAreFew, FS_CardinalityType
<1> QED BY <1>3, GroupsAreFew, FS_CardinalityType, Sizes

\* The user a turn takes: a candidate not kept yet, or a fresh one.
Taken(m, cfg, fresh, low, pass, g) ==
    LET cands == (Candidates(m, cfg, g) \cap DOMAIN pass.reg) \ pass.kept
    IN IF cands # {} THEN Min(cands) ELSE FreshId(fresh \ DOMAIN pass.reg, low)

LEMMA TakenIsFree ==
    ASSUME NEW m, DOMAIN m \subseteq Ids, NEW cfg \in Config, NEW fresh, NEW low, Roomy(m, fresh),
           NEW g \in Keys, g \in Groups(cfg), NEW pass, NEW who, Keeps(m, cfg, fresh, g - 1, pass, who)
    PROVE  LET id == Taken(m, cfg, fresh, low, pass, g) IN
           /\ id \in Ids /\ id \notin pass.kept
           /\ \/ id \in DOMAIN pass.reg /\ id \in Candidates(m, cfg, g) /\ id \in DOMAIN m
              \/ id \in fresh /\ id \notin DOMAIN pass.reg /\ id \notin DOMAIN m
<1> DEFINE cands == (Candidates(m, cfg, g) \cap DOMAIN pass.reg) \ pass.kept
           D == Done(cfg, g - 1)
           id == Taken(m, cfg, fresh, low, pass, g)
<1>1. cands \subseteq DOMAIN m /\ cands \subseteq Ids BY DEF Keeps
<1>2. CASE cands # {}
  <2>1. cands \in SUBSET Nat BY <1>1 DEF Ids
  <2>2. Min(cands) \in cands BY <1>2, <2>1, MinIn
  <2>3. id = Min(cands) BY <1>2 DEF Taken
  <2> QED BY <1>1, <2>2, <2>3
<1>3. CASE cands = {}
  <2>1. who \in Surjection(D, pass.kept) BY DEF Keeps, Bijection
  <2>2. IsFiniteSet(D) /\ Cardinality(D) < MaxCred BY DoneIsFew
  <2>3. IsFiniteSet(pass.kept) /\ Cardinality(pass.kept) <= Cardinality(D)
    BY <2>1, <2>2, FS_Surjection
  <2>4. fresh \ DOMAIN pass.reg # {}
    <3> SUFFICES ASSUME fresh \subseteq DOMAIN pass.reg PROVE FALSE OBVIOUS
    <3>1. fresh \in SUBSET pass.kept BY DEF Keeps, Roomy
    <3>2. Cardinality(fresh) <= Cardinality(pass.kept) BY <3>1, <2>3, FS_Subset
    <3> QED BY <3>2, <2>2, <2>3, FS_CardinalityType, Sizes DEF Roomy
  <2>5. (fresh \ DOMAIN pass.reg) \in SUBSET Ids BY DEF Roomy
  <2>6. FreshId(fresh \ DOMAIN pass.reg, low) \in fresh \ DOMAIN pass.reg BY <2>4, <2>5, FreshIsFresh
  <2>7. id = FreshId(fresh \ DOMAIN pass.reg, low) BY <1>3 DEF Taken
  <2>8. id \in fresh /\ id \notin DOMAIN pass.reg BY <2>6, <2>7
  <2> QED BY <2>8 DEF Roomy, Keeps
<1> QED BY <1>2, <1>3

\* One turn, for a group that is there.
LEMMA TurnKeeps ==
    ASSUME NEW m, DOMAIN m \subseteq Ids, NEW cfg \in Config, NEW fresh, NEW low, Roomy(m, fresh),
           NEW g \in Keys, g \in Groups(cfg), NEW pass, NEW who, Keeps(m, cfg, fresh, g - 1, pass, who)
    PROVE  \E new : Keeps(m, cfg, fresh, g, Converge(m, cfg, fresh, low, pass, g), new)
<1> DEFINE cands == (Candidates(m, cfg, g) \cap DOMAIN pass.reg) \ pass.kept
           id    == Taken(m, cfg, fresh, low, pass, g)
           user  == IF cands # {} THEN pass.reg[id] ELSE NewUser
           rest  == Restrict(pass.reg, DOMAIN pass.reg \ cands)
           put   == [user EXCEPT !.name = GroupName(g), !.binds = GroupBinds(cfg, g)]
           reg   == Assign(rest, id, put)
           kept  == pass.kept \cup {id}
           D     == Done(cfg, g - 1)
           new   == [h \in D \cup {g} |-> IF h = g THEN id ELSE who[h]]
<1>1. Converge(m, cfg, fresh, low, pass, g) = [reg |-> reg, kept |-> kept]
  BY DEF Converge, Taken
<1>2. /\ id \in Ids /\ id \notin pass.kept
      /\ \/ id \in DOMAIN pass.reg /\ id \in Candidates(m, cfg, g) /\ id \in DOMAIN m
         \/ id \in fresh /\ id \notin DOMAIN pass.reg /\ id \notin DOMAIN m
  BY TakenIsFree
<1>3. user = Source(m, id)
  <2>1. CASE id \in DOMAIN pass.reg /\ id \in Candidates(m, cfg, g) /\ id \in DOMAIN m
    <3>1. cands # {} /\ pass.reg[id] = m[id] BY <1>2, <2>1 DEF Keeps
    <3> QED BY <2>1, <3>1 DEF Source
  <2>2. CASE id \in fresh /\ id \notin DOMAIN pass.reg /\ id \notin DOMAIN m
    <3>1. cands = {}
      <4> SUFFICES ASSUME cands # {} PROVE FALSE OBVIOUS
      <4>1. id = Min(cands) BY DEF Taken
      <4>2. cands \in SUBSET Nat BY DEF Keeps, Ids
      <4> QED BY <2>2, <4>1, <4>2, MinIn
    <3> QED BY <2>2, <3>1 DEF Source
  <2> QED BY <1>2, <2>1, <2>2
<1>4. put = Shaped(m, cfg, id, g) BY <1>3 DEF Shaped
<1> HIDE DEF id, user, put
<1>5. DOMAIN reg = (DOMAIN pass.reg \ cands) \cup {id} /\ reg[id] = put
  BY DEF Assign, Restrict
<1>6. \A x \in DOMAIN pass.reg \ cands : x # id => reg[x] = pass.reg[x]
  BY DEF Assign, Restrict
<1> HIDE DEF reg
<1>7. Done(cfg, g) = D \cup {g} /\ g \notin D
  BY Sizes, GroupsAreKeys DEF Done, Keys
<1>8. who \in [D -> pass.kept] /\ who \in Bijection(D, pass.kept)
  BY DEF Keeps, Bijection, Injection
<1>9. new \in Bijection(D \cup {g}, kept)
  <2>1. new \in [D \cup {g} -> kept] BY <1>7, <1>8
  <2>2. \A a, b \in D \cup {g} : new[a] = new[b] => a = b
    BY <1>2, <1>7, <1>8, Fun_BijectionProperties
  <2>3. \A x \in kept : \E a \in D \cup {g} : new[a] = x
    BY <1>7, <1>8 DEF Bijection, Surjection
  <2> QED BY <2>1, <2>2, <2>3, Fun_IsBij
<1>10. \A h \in D \cup {g} : reg[new[h]] = Shaped(m, cfg, new[h], h)
  <2> SUFFICES ASSUME NEW h \in D \cup {g} PROVE reg[new[h]] = Shaped(m, cfg, new[h], h) OBVIOUS
  <2>1. CASE h = g BY <2>1, <1>4, <1>5
  <2>2. CASE h # g
    <3>1. new[h] = who[h] /\ who[h] \in pass.kept BY <2>2, <1>8
    <3>2. who[h] \in DOMAIN pass.reg \ cands /\ who[h] # id BY <3>1, <1>2 DEF Keeps
    <3>3. reg[who[h]] = pass.reg[who[h]] BY <3>2, <1>6
    <3>4. pass.reg[who[h]] = Shaped(m, cfg, who[h], h) BY <2>2 DEF Keeps
    <3> QED BY <3>1, <3>3, <3>4
  <2> QED BY <2>1, <2>2
<1>11. kept \subseteq DOMAIN reg /\ DOMAIN reg \subseteq DOMAIN m \cup kept /\ kept \subseteq DOMAIN m \cup fresh
  BY <1>2, <1>5 DEF Keeps
<1>12. \A x \in DOMAIN reg \ kept : reg[x] = m[x]
  BY <1>5, <1>6 DEF Keeps
<1>13. Keeps(m, cfg, fresh, g, [reg |-> reg, kept |-> kept], new)
  BY <1>7, <1>9, <1>10, <1>11, <1>12 DEF Keeps
<1> QED BY <1>1, <1>13

\* All turns.
LEMMA TurnsKeep ==
    ASSUME NEW m, DOMAIN m \subseteq Ids, NEW cfg \in Config, NEW fresh, NEW low, Roomy(m, fresh),
           NEW turn, IsTurns(turn, m, cfg, fresh, low)
    PROVE  \A g \in 0..MaxCred + MaxName : \E who : Keeps(m, cfg, fresh, g, turn[g], who)
<1>1. /\ turn[0] = [reg |-> m, kept |-> {}]
      /\ \A g \in Keys : turn[g] = Turn(m, cfg, fresh, low, g, turn[g - 1])
  BY DEF IsTurns
<1> DEFINE N == MaxCred + MaxName
           T == {g \in 0..N : ~\E who : Keeps(m, cfg, fresh, g, turn[g], who)}
<1>2. N \in Nat /\ Keys = 1..N BY Sizes DEF Keys
<1>3. T = {}
  <2> SUFFICES ASSUME T # {} PROVE FALSE OBVIOUS
  <2>0. T \in SUBSET Nat OBVIOUS
  <2>1. PICK g \in T : \A j \in T : g <= j BY <2>0, Least
  <2>2. CASE g = 0
    <3>1. Done(cfg, 0) = {} BY GroupsAreKeys, <1>2 DEF Done
    <3>2. <<>> \in Bijection({}, {})
      BY DEF Bijection, Injection, Surjection, IsInjective
    <3>3. turn[0].reg = m /\ turn[0].kept = {} BY <1>1
    <3>4. Keeps(m, cfg, fresh, 0, turn[0], <<>>)
      <4>1. \A id \in DOMAIN m \ {} : turn[0].reg[id] = m[id] BY <3>3
      <4> HIDE DEF T
      <4> QED BY <3>1, <3>2, <3>3, <4>1, Zenon DEF Keeps
    <3> QED BY <2>1, <2>2, <3>4
  <2>3. CASE g # 0
    <3>1. g \in Keys /\ g - 1 \in 0..N /\ g - 1 \notin T BY <1>2, <2>1, <2>3
    <3>2. PICK who : Keeps(m, cfg, fresh, g - 1, turn[g - 1], who) BY <3>1
    <3>3. CASE g \in Groups(cfg)
      <4>1. turn[g] = Converge(m, cfg, fresh, low, turn[g - 1], g) BY <1>1, <3>1, <3>3 DEF Turn
      <4>2. \E new : Keeps(m, cfg, fresh, g, turn[g], new) BY <3>1, <3>2, <3>3, <4>1, TurnKeeps
      <4> QED BY <2>1, <4>2
    <3>4. CASE g \notin Groups(cfg)
      <4>1. turn[g] = turn[g - 1] BY <1>1, <3>1, <3>4 DEF Turn
      <4>2. Done(cfg, g) = Done(cfg, g - 1) BY <3>1, <3>4, <1>2, GroupsAreKeys DEF Done
      <4>3. Keeps(m, cfg, fresh, g, turn[g], who) BY <3>2, <4>1, <4>2 DEF Keeps
      <4> QED BY <2>1, <4>3
    <3> QED BY <3>3, <3>4
  <2> QED BY <2>2, <2>3
<1> QED BY <1>3

\* What a call makes of m, without the algorithm: a user for each group and no
\* other, under an id that had a user of m or a fresh one, with the group's
\* name and credentials, and the lifecycle it had.
Mirrored(m, cfg, fresh, stamp, new, who) ==
    /\ DOMAIN new \subseteq DOMAIN m \cup fresh
    /\ who \in Bijection(Groups(cfg), DOMAIN new)
    /\ \A g \in Groups(cfg) :
          LET u == Source(m, who[g]) IN
          new[who[g]] = [u EXCEPT !.name = GroupName(g), !.binds = GroupBinds(cfg, g),
                                  !.token = IF u.token = 0 /\ ~u.off THEN stamp ELSE u.token]

LEMMA ReconciledMirrors ==
    ASSUME NEW m, DOMAIN m \subseteq Ids, \A id \in DOMAIN m : m[id] \in User,
           NEW cfg \in Config, NEW fresh, NEW low, Roomy(m, fresh), NEW stamp
    PROVE  \E who : Mirrored(m, cfg, fresh, stamp, Reconciled(m, cfg, fresh, low, stamp), who)
<1> DEFINE pass == Converged(m, cfg, fresh, low)
           new  == Reconciled(m, cfg, fresh, low, stamp)
<1>0. PICK turn : IsTurns(turn, m, cfg, fresh, low) /\ pass = turn[MaxCred + MaxName] BY LoopTurns
<1>1. PICK who : Keeps(m, cfg, fresh, MaxCred + MaxName, pass, who)
  <2>1. MaxCred + MaxName \in 0..MaxCred + MaxName BY Sizes
  <2> QED BY <1>0, <2>1, TurnsKeep
<1> HIDE DEF pass
<1>2. Done(cfg, MaxCred + MaxName) = Groups(cfg) BY GroupsAreKeys, Sizes DEF Done, Keys
<1>3. new = Mint(Restrict(pass.reg, pass.kept), stamp) BY DEF Reconciled, DropUnclaimed, pass
<1>4. DOMAIN new = pass.kept BY <1>3 DEF Mint, Restrict
<1>5. \A id \in pass.kept :
         new[id] = IF pass.reg[id].token = 0 /\ ~pass.reg[id].off
                   THEN [pass.reg[id] EXCEPT !.token = stamp] ELSE pass.reg[id]
  BY <1>3 DEF Mint, Restrict
<1>6. who \in Bijection(Groups(cfg), pass.kept) /\ who \in [Groups(cfg) -> pass.kept]
  BY <1>1, <1>2 DEF Keeps, Bijection, Injection
<1>7. ASSUME NEW g \in Groups(cfg)
      PROVE  LET u == Source(m, who[g]) IN
             new[who[g]] = [u EXCEPT !.name = GroupName(g), !.binds = GroupBinds(cfg, g),
                                     !.token = IF u.token = 0 /\ ~u.off THEN stamp ELSE u.token]
  <2> DEFINE u == Source(m, who[g])
             v == [u EXCEPT !.name = GroupName(g), !.binds = GroupBinds(cfg, g)]
  <2>1. u \in User
    <3>1. NewUser \in User BY Sizes DEF NewUser, User
    <3> QED BY <3>1 DEF Source
  <2>2. pass.reg[who[g]] = v BY <1>1, <1>2 DEF Keeps, Shaped
  <2> HIDE DEF u
  <2>3. v.token = u.token /\ v.off = u.off BY <2>1 DEF User
  <2>4. who[g] \in pass.kept BY <1>6
  <2>5. new[who[g]] = IF u.token = 0 /\ ~u.off THEN [v EXCEPT !.token = stamp] ELSE v
    BY <1>5, <2>2, <2>3, <2>4
  <2>6. CASE u.token = 0 /\ ~u.off BY <2>5, <2>6, <2>1 DEF User, u
  <2>7. CASE ~(u.token = 0 /\ ~u.off)
    <3>1. v = [v EXCEPT !.token = u.token] BY <2>1 DEF User
    <3> QED BY <2>5, <2>7, <2>1, <3>1 DEF User, u
  <2> QED BY <2>6, <2>7
<1>8. DOMAIN new \subseteq DOMAIN m \cup fresh BY <1>1, <1>4 DEF Keeps
<1>9. Mirrored(m, cfg, fresh, stamp, new, who) BY <1>4, <1>6, <1>7, <1>8 DEF Mirrored
<1> QED BY <1>9

\* Such a registry mirrors the configuration.
LEMMA MirroredIsMirror ==
    ASSUME NEW m, \A id \in DOMAIN m : m[id] \in User, NEW cfg \in Config, NEW fresh, NEW stamp,
           NEW new, NEW who, Mirrored(m, cfg, fresh, stamp, new, who)
    PROVE  Mirrors(new, cfg)
<1> DEFINE G == Groups(cfg)
<1>0. who \in Bijection(G, DOMAIN new) BY DEF Mirrored
<1>1. /\ who \in [G -> DOMAIN new]
      /\ \A a, b \in G : who[a] = who[b] => a = b
      /\ \A id \in DOMAIN new : \E g \in G : who[g] = id
  BY <1>0, Fun_BijectionProperties
<1>2. \A g \in G : new[who[g]].name = GroupName(g) /\ new[who[g]].binds = GroupBinds(cfg, g)
  <2> SUFFICES ASSUME NEW g \in G
               PROVE  new[who[g]].name = GroupName(g) /\ new[who[g]].binds = GroupBinds(cfg, g)
    OBVIOUS
  <2>1. NewUser \in User BY Sizes DEF NewUser, User
  <2>2. Source(m, who[g]) \in User BY <2>1 DEF Source
  <2> QED BY <2>2 DEF Mirrored, User
<1>3. ASSUME NEW c \in Listed(cfg)
      PROVE  \E id \in DOMAIN new :
                /\ \A other \in DOMAIN new : c \in new[other].binds <=> other = id
                /\ <<c, new[id].name>> \in cfg
  <2>1. Owner(cfg, c) \in G BY DEF Groups
  <2>2. \A g \in G : c \in GroupBinds(cfg, g) <=> g = Owner(cfg, c) BY DEF GroupBinds
  <2>3. PICK e \in cfg : e[1] = c /\ Owner(cfg, c) = Identity(e) BY OwnerLists
  <2>4. e \in Creds \X (Names \cup {0}) /\ e = <<e[1], e[2]>> BY DEF Config
  <2>5. GroupName(Owner(cfg, c)) = e[2] BY <2>3, <2>4, IdentityKey
  <2> DEFINE id == who[Owner(cfg, c)]
  <2>6. id \in DOMAIN new BY <1>1, <2>1
  <2>7. \A other \in DOMAIN new : c \in new[other].binds <=> other = id
    BY <1>1, <1>2, <2>1, <2>2
  <2>8. <<c, new[id].name>> \in cfg BY <1>2, <2>1, <2>3, <2>4, <2>5
  <2> QED BY <2>6, <2>7, <2>8
<1>4. ASSUME NEW id \in DOMAIN new
      PROVE  /\ new[id].binds # {} /\ new[id].binds \subseteq Listed(cfg)
             /\ new[id].name = 0 => Cardinality(new[id].binds) = 1
             /\ \A other \in DOMAIN new \ {id} :
                   new[id].name \in Names => new[other].name # new[id].name
  <2>1. PICK g \in G : who[g] = id BY <1>1
  <2>2. new[id].name = GroupName(g) /\ new[id].binds = GroupBinds(cfg, g) BY <1>2, <2>1
  <2>3. GroupBinds(cfg, g) # {} /\ GroupBinds(cfg, g) \subseteq Listed(cfg) BY DEF Groups, GroupBinds
  <2>4. G \subseteq Keys BY GroupsAreKeys
  <2>5. ASSUME GroupName(g) = 0 PROVE Cardinality(GroupBinds(cfg, g)) = 1
    <3>1. g <= MaxCred BY <2>4, <2>5, Sizes DEF GroupName, Keys
    <3>2. \A c \in GroupBinds(cfg, g) : c = g
      <4> SUFFICES ASSUME NEW c \in GroupBinds(cfg, g) PROVE c = g OBVIOUS
      <4>1. c \in Listed(cfg) /\ Owner(cfg, c) = g BY DEF GroupBinds
      <4>2. PICK e \in cfg : e[1] = c /\ g = Identity(e) BY <4>1, OwnerLists
      <4>3. e \in Creds \X (Names \cup {0}) BY DEF Config
      <4> QED BY <3>1, <4>2, <4>3, IdentityKey
    <3>3. GroupBinds(cfg, g) = {g} BY <2>3, <3>2
    <3> QED BY <3>3, FS_Singleton
  <2>6. ASSUME NEW other \in DOMAIN new \ {id}, GroupName(g) \in Names, new[other].name = GroupName(g)
        PROVE  FALSE
    <3>1. PICK h \in G : who[h] = other BY <1>1
    <3>2. GroupName(h) = GroupName(g) /\ h # g BY <1>2, <2>1, <2>6, <3>1
    <3>3. h \in Keys /\ g \in Keys BY <2>4
    <3> QED BY <2>6, <3>2, <3>3, Sizes DEF GroupName, Keys, Names
  <2> QED BY <2>2, <2>3, <2>5, <2>6
<1> QED BY <1>3, <1>4 DEF Mirrors

\* A user without a token was revoked, and a revoked user has none.
TokenState(u) == (u.token = 0) <=> u.off

\* Such a registry is one, with the token states of the one it was made of, and
\* no larger than the configuration.
LEMMA MirroredIsRegistry ==
    ASSUME NEW m, IsRegistry(m), \A id \in DOMAIN m : TokenState(m[id]),
           NEW cfg \in Config, NEW fresh, fresh \subseteq Ids, NEW stamp \in 1..MaxOps,
           NEW new, NEW who, Mirrored(m, cfg, fresh, stamp, new, who)
    PROVE  /\ IsRegistry(new) /\ \A id \in DOMAIN new : TokenState(new[id])
           /\ IsFiniteSet(DOMAIN new) /\ Cardinality(DOMAIN new) <= MaxCred
<1> DEFINE G == Groups(cfg)
<1>0. who \in Bijection(G, DOMAIN new) BY DEF Mirrored
<1>1. /\ who \in Surjection(G, DOMAIN new)
      /\ \A id \in DOMAIN new : \E g \in G : who[g] = id
  BY <1>0, Fun_BijectionProperties
<1>2. IsFiniteSet(DOMAIN new) /\ Cardinality(DOMAIN new) <= Cardinality(G)
  BY <1>1, GroupsAreFew, FS_Surjection
<1>3. Cardinality(DOMAIN new) <= MaxCred BY <1>2, GroupsAreFew, FS_CardinalityType, Sizes
<1>4. DOMAIN new \subseteq Ids BY DEF Mirrored, IsRegistry
<1>5. ASSUME NEW id \in DOMAIN new PROVE new[id] \in User /\ TokenState(new[id])
  <2>1. PICK g \in G : who[g] = id BY <1>1
  <2> DEFINE u == Source(m, id)
             t == IF u.token = 0 /\ ~u.off THEN stamp ELSE u.token
  <2>2. u \in User /\ (TokenState(u) \/ (u.token = 0 /\ u.off = FALSE))
    <3>1. NewUser \in User /\ NewUser.token = 0 /\ NewUser.off = FALSE BY Sizes DEF NewUser, User
    <3> QED BY <3>1 DEF Source, IsRegistry
  <2>3. new[id] = [u EXCEPT !.name = GroupName(g), !.binds = GroupBinds(cfg, g), !.token = t]
    BY <2>1 DEF Mirrored
  <2> HIDE DEF u
  <2>4. GroupBinds(cfg, g) \in SUBSET Creds /\ GroupName(g) \in Names \cup {0} BY GroupsAreKeys
  <2>5. t \in 0..MaxOps BY <2>2, Sizes DEF User
  <2> HIDE DEF t
  <2>6. new[id] \in User BY <2>2, <2>3, <2>4, <2>5 DEF User
  <2>7. new[id].token = t /\ new[id].off = u.off BY <2>2, <2>3 DEF User
  <2>8. (t = 0) <=> u.off BY <2>2 DEF t, TokenState
  <2> QED BY <2>6, <2>7, <2>8 DEF TokenState
<1> QED BY <1>2, <1>3, <1>4, <1>5 DEF IsRegistry

-----------------------------------------------------------------------------
(* The steps.                                                                *)

HeldIds == {held[p].id : p \in {q \in Patchers : held[q] # Nobody}}

\* Whatever stale users UpdateUser requests put back, the registry, the file and
\* the copies leave a reconcile ids to use.
Limit == MaxCred + Cardinality(Patchers)

Room ==
    /\ Cardinality(DOMAIN mem \cup HeldIds) <= Limit
    /\ Cardinality(DOMAIN file) <= Limit

\* The registries and the copies requests hold are well formed and have the
\* two token states there are.
Registries ==
    /\ IsRegistry(mem) /\ IsRegistry(file)
    /\ \A id \in DOMAIN mem : TokenState(mem[id])
    /\ \A id \in DOMAIN file : TokenState(file[id])
    /\ unsaved \in BOOLEAN

Copies ==
    /\ DOMAIN held = Patchers
    /\ \A p \in Patchers : held[p] = Nobody \/ held[p].id \in Ids
    /\ \A p \in Patchers : held[p] # Nobody => held[p].user \in User /\ TokenState(held[p].user)

Others ==
    /\ active \in Configs \cup {{}} /\ published \in Configs \cup {{}}
    /\ fs \in {"rw", "ro"} /\ ops \in 0..MaxOps

RegInv == Registries /\ Copies /\ Others /\ Room

LEMMA Patches == IsFiniteSet(Patchers) /\ Cardinality(Patchers) \in Nat /\ Limit \in Nat
BY RegistryAssumption, FS_CardinalityType DEF Limit

LEMMA IdsAreFinite == IsFiniteSet(Ids) /\ Cardinality(Ids) = MaxId
BY FS_Interval, Sizes DEF Ids

LEMMA HeldAreFew ==
    ASSUME \A p \in Patchers : held[p] = Nobody \/ held[p].id \in Ids
    PROVE  HeldIds \subseteq Ids /\ IsFiniteSet(HeldIds) /\ Cardinality(HeldIds) <= Cardinality(Patchers)
<1> DEFINE Q == {q \in Patchers : held[q] # Nobody}
           f == [q \in Q |-> held[q].id]
<1>1. IsFiniteSet(Q) /\ Cardinality(Q) <= Cardinality(Patchers) BY Patches, FS_Subset
<1>2. f \in Surjection(Q, HeldIds) BY DEF Surjection, HeldIds
<1>3. IsFiniteSet(HeldIds) /\ Cardinality(HeldIds) <= Cardinality(Q) BY <1>1, <1>2, FS_Surjection
<1>4. Cardinality(HeldIds) <= Cardinality(Patchers) BY <1>1, <1>3, Patches, FS_CardinalityType
<1> QED BY <1>3, <1>4 DEF HeldIds

LEMMA Domains ==
    ASSUME RegInv
    PROVE  /\ DOMAIN mem \subseteq Ids /\ DOMAIN file \subseteq Ids /\ HeldIds \subseteq Ids
           /\ IsFiniteSet(DOMAIN mem \cup HeldIds) /\ IsFiniteSet(DOMAIN file)
<1>1. DOMAIN mem \subseteq Ids /\ DOMAIN file \subseteq Ids BY DEF RegInv, Registries, IsRegistry
<1>2. HeldIds \subseteq Ids BY HeldAreFew DEF RegInv, Copies
<1> QED BY <1>1, <1>2, IdsAreFinite, FS_Subset

\* Why a reconcile never runs out of ids.
LEMMA UnusedIsRoomy ==
    ASSUME RegInv, NEW m \in {mem, file}
    PROVE  Roomy(m, Unused)
<1> DEFINE A == DOMAIN mem \cup HeldIds
           B == DOMAIN file
<1>1. Unused = Ids \ (A \cup B) BY DEF Unused, HeldIds
<1>2. IsFiniteSet(A) /\ IsFiniteSet(B) BY Domains
<1>3. /\ Cardinality(A) \in Nat /\ Cardinality(B) \in Nat
      /\ Cardinality(A) <= Limit /\ Cardinality(B) <= Limit
  BY <1>2, FS_CardinalityType DEF RegInv, Room
<1>4. /\ IsFiniteSet(A \cup B)
      /\ Cardinality(A \cup B) = Cardinality(A) + Cardinality(B) - Cardinality(A \cap B)
  BY <1>2, FS_Union
<1>5. IsFiniteSet(A \cap B) BY <1>2, FS_Intersection
<1>6. Cardinality(A \cap B) \in Nat BY <1>5, FS_CardinalityType
<1>7. Cardinality(A \cup B) <= 2 * Limit BY <1>3, <1>4, <1>6, Patches
<1>8. A \cup B \subseteq Ids BY Domains
<1>9. /\ IsFiniteSet(Ids \ (A \cup B))
      /\ Cardinality(Ids \ (A \cup B)) = Cardinality(Ids) - Cardinality(Ids \cap (A \cup B))
  BY IdsAreFinite, FS_Difference
<1>10. Ids \cap (A \cup B) = A \cup B BY <1>8
<1>11. Cardinality(A \cup B) \in Nat BY <1>4, FS_CardinalityType
<1>12. Cardinality(Unused) >= MaxCred
  <2>1. Cardinality(Unused) = MaxId - Cardinality(A \cup B) BY <1>1, <1>9, <1>10, IdsAreFinite
  <2>2. MaxId >= 3 * MaxCred + 2 * Cardinality(Patchers) BY RegistryAssumption
  <2>3. Limit = MaxCred + Cardinality(Patchers) BY DEF Limit
  <2> QED BY <2>1, <2>2, <2>3, <1>7, <1>11, Patches, Sizes
<1>13. Unused \cap DOMAIN m = {} BY <1>1
<1> QED BY <1>1, <1>9, <1>12, <1>13 DEF Roomy

\* A reconcile of the map, or of the file, with a configuration.
LEMMA ReconcileMirrors ==
    ASSUME RegInv, NEW m, m = mem \/ m = file, NEW cfg \in Config,
           ops' \in 1..MaxOps, Reconcile(m, cfg)
    PROVE  /\ \E who : Mirrored(m, cfg, Unused, ops', mem', who)
           /\ Mirrors(mem', cfg)
           /\ IsRegistry(mem') /\ \A id \in DOMAIN mem' : TokenState(mem'[id])
           /\ IsFiniteSet(DOMAIN mem') /\ Cardinality(DOMAIN mem') <= MaxCred
           /\ file' = file \/ file' = mem'
           /\ unsaved' \in BOOLEAN
<1>1. PICK low \in BOOLEAN : mem' = Reconciled(m, cfg, Unused, low, ops') BY DEF Reconcile
<1>2. IsRegistry(m) /\ \A id \in DOMAIN m : TokenState(m[id]) BY DEF RegInv, Registries
<1>3. Roomy(m, Unused) BY UnusedIsRoomy
<1>4. PICK who : Mirrored(m, cfg, Unused, ops', mem', who)
  BY <1>1, <1>2, <1>3, ReconciledMirrors DEF IsRegistry
<1>5. Mirrors(mem', cfg) BY <1>2, <1>4, MirroredIsMirror DEF IsRegistry
<1>6. Unused \subseteq Ids BY DEF Unused
<1>7. /\ IsRegistry(mem') /\ \A id \in DOMAIN mem' : TokenState(mem'[id])
      /\ IsFiniteSet(DOMAIN mem') /\ Cardinality(DOMAIN mem') <= MaxCred
  BY <1>2, <1>4, <1>6, MirroredIsRegistry
<1>8. (file' = file \/ file' = mem') /\ unsaved' \in BOOLEAN BY DEF Reconcile
<1> QED BY <1>4, <1>5, <1>7, <1>8

\* A write of one user, of an id the registry or a request has.
LEMMA AssignIsRegistry ==
    ASSUME NEW m, IsRegistry(m), \A id \in DOMAIN m : TokenState(m[id]),
           NEW id \in Ids, NEW user \in User, TokenState(user)
    PROVE  /\ IsRegistry(Assign(m, id, user))
           /\ \A x \in DOMAIN Assign(m, id, user) : TokenState(Assign(m, id, user)[x])
           /\ DOMAIN Assign(m, id, user) = DOMAIN m \cup {id}
<1> DEFINE n == Assign(m, id, user)
<1>1. DOMAIN n = DOMAIN m \cup {id} /\ n[id] = user /\ \A x \in DOMAIN m : x # id => n[x] = m[x]
  BY DEF Assign
<1> HIDE DEF n
<1>2. \A x \in DOMAIN n : n[x] \in User /\ TokenState(n[x])
  <2> SUFFICES ASSUME NEW x \in DOMAIN n PROVE n[x] \in User /\ TokenState(n[x]) OBVIOUS
  <2>1. CASE x = id BY <1>1, <2>1
  <2>2. CASE x # id
    <3>1. x \in DOMAIN m /\ n[x] = m[x] BY <1>1, <2>2
    <3> QED BY <3>1 DEF IsRegistry
  <2> QED BY <2>1, <2>2
<1>3. DOMAIN n \subseteq Ids BY <1>1 DEF IsRegistry
<1> QED BY <1>1, <1>2, <1>3 DEF IsRegistry, n

LEMMA StoreKeeps ==
    ASSUME RegInv, NEW m, Store(m), IsRegistry(m), \A id \in DOMAIN m : TokenState(m[id]),
           DOMAIN m \subseteq DOMAIN mem \cup HeldIds, HeldIds' \subseteq HeldIds
    PROVE  Registries' /\ Room'
<1>1. Registries /\ Room BY DEF RegInv
<1> DEFINE A == DOMAIN mem \cup HeldIds
<1>2. IsFiniteSet(A) /\ Cardinality(A) \in Nat BY Domains, FS_CardinalityType
<1>3. DOMAIN mem' \cup HeldIds' \subseteq A BY DEF Store
<1>4. Cardinality(DOMAIN mem' \cup HeldIds') <= Limit
  <2>1. /\ IsFiniteSet(DOMAIN mem' \cup HeldIds')
        /\ Cardinality(DOMAIN mem' \cup HeldIds') <= Cardinality(A)
    BY <1>2, <1>3, FS_Subset
  <2> QED BY <1>1, <1>2, <2>1, Patches, FS_CardinalityType DEF Room
<1>5. Cardinality(DOMAIN file') <= Limit
  <2>1. CASE file' = file BY <1>1, <2>1 DEF Room
  <2>2. CASE file' = m
    <3>1. IsFiniteSet(DOMAIN m) /\ Cardinality(DOMAIN m) <= Cardinality(A) BY <1>2, FS_Subset
    <3> QED BY <1>1, <1>2, <2>2, <3>1, Patches, FS_CardinalityType DEF Room
  <2> QED BY <2>1, <2>2 DEF Store
<1>6. Registries'
  <2>1. CASE fs = "rw" /\ mem' = m /\ file' = m /\ unsaved' = FALSE BY <2>1 DEF Registries
  <2>2. CASE UNCHANGED <<mem, file, unsaved>> BY <1>1, <2>2 DEF Registries
  <2> QED BY <2>1, <2>2 DEF Store
<1> QED BY <1>4, <1>5, <1>6 DEF Room

LEMMA ReconcileKeeps ==
    ASSUME RegInv, NEW m, m = mem \/ m = file, NEW cfg \in Config,
           ops' \in 1..MaxOps, Reconcile(m, cfg),
           IsFiniteSet(HeldIds'), Cardinality(HeldIds') <= Cardinality(Patchers)
    PROVE  Registries' /\ Room'
<1>1. /\ IsRegistry(mem') /\ \A id \in DOMAIN mem' : TokenState(mem'[id])
      /\ IsFiniteSet(DOMAIN mem') /\ Cardinality(DOMAIN mem') <= MaxCred
      /\ file' = file \/ file' = mem'
      /\ unsaved' \in BOOLEAN
  BY ReconcileMirrors
<1>2. Registries /\ Room BY DEF RegInv
<1>3. Registries'
  <2>1. CASE file' = file BY <1>1, <1>2, <2>1 DEF Registries
  <2>2. CASE file' = mem' BY <1>1, <2>2 DEF Registries
  <2> QED BY <1>1, <2>1, <2>2
<1>4. Cardinality(DOMAIN mem' \cup HeldIds') <= Limit
  <2>1. Cardinality(DOMAIN mem' \cup HeldIds')
           = Cardinality(DOMAIN mem') + Cardinality(HeldIds') - Cardinality(DOMAIN mem' \cap HeldIds')
    BY <1>1, FS_Union
  <2>2. IsFiniteSet(DOMAIN mem' \cap HeldIds') BY <1>1, FS_Intersection
  <2>3. /\ Cardinality(DOMAIN mem' \cap HeldIds') \in Nat /\ Cardinality(DOMAIN mem') \in Nat
        /\ Cardinality(HeldIds') \in Nat
    BY <1>1, <2>2, FS_CardinalityType
  <2> QED BY <1>1, <2>1, <2>3, Patches, Sizes DEF Limit
<1>5. Cardinality(DOMAIN file') <= Limit
  <2>1. Cardinality(DOMAIN mem') \in Nat BY <1>1, FS_CardinalityType
  <2>2. Cardinality(DOMAIN mem') <= Limit BY <1>1, <2>1, Patches, Sizes DEF Limit
  <2> QED BY <1>1, <1>2, <2>2 DEF Room
<1> QED BY <1>3, <1>4, <1>5 DEF Room

LEMMA ConfigsAreConfig == Configs \cup {{}} \subseteq Config
BY RegistryAssumption DEF Config

LEMMA OperationCounts == ASSUME Others, Operation PROVE ops' \in 1..MaxOps
BY Sizes DEF Others, Operation

LEMMA ApplyKeeps ==
    ASSUME RegInv, NEW cfg \in Configs, Apply(cfg)
    PROVE  RegInv' /\ Mirrors(mem', active')
<1>1. Copies /\ Others BY DEF RegInv
<1>2. cfg \in Config BY ConfigsAreConfig
<1>3. ops' \in 1..MaxOps BY <1>1, OperationCounts DEF Apply
<1>4. HeldIds' = HeldIds /\ Copies' BY <1>1 DEF Apply, HeldIds, Copies
<1>5. IsFiniteSet(HeldIds') /\ Cardinality(HeldIds') <= Cardinality(Patchers)
  BY <1>1, <1>4, HeldAreFew DEF Copies
<1>6. Reconcile(mem, cfg) BY DEF Apply
<1>7. Registries' /\ Room' BY <1>2, <1>3, <1>5, <1>6, ReconcileKeeps
<1>8. Others' BY <1>1, <1>3 DEF Apply, Others
<1>9. Mirrors(mem', cfg) BY <1>2, <1>3, <1>6, ReconcileMirrors
<1> QED BY <1>4, <1>7, <1>8, <1>9 DEF RegInv, Apply

LEMMA RestartKeeps ==
    ASSUME RegInv, NEW cfg \in StartConfigs, Restart(cfg)
    PROVE  RegInv' /\ Mirrors(mem', active')
<1>1. Copies /\ Others BY DEF RegInv
<1>2. cfg \in Configs \cup {{}} BY <1>1 DEF StartConfigs, Others
<1>3. cfg \in Config BY <1>2, ConfigsAreConfig
<1>4. ops' \in 1..MaxOps BY <1>1, OperationCounts DEF Restart
<1>5. HeldIds' = {} /\ Copies' BY DEF Restart, HeldIds, Copies
<1>6. IsFiniteSet(HeldIds') /\ Cardinality(HeldIds') <= Cardinality(Patchers)
  BY <1>5, FS_EmptySet, Patches
<1>7. Reconcile(file, cfg) BY DEF Restart
<1>8. Registries' /\ Room' BY <1>3, <1>4, <1>6, <1>7, ReconcileKeeps
<1>9. Others' BY <1>1, <1>2, <1>4 DEF Restart, Others
<1>10. Mirrors(mem', cfg) BY <1>3, <1>4, <1>7, ReconcileMirrors
<1> QED BY <1>5, <1>8, <1>9, <1>10 DEF RegInv, Restart

LEMMA TokenKeeps ==
    ASSUME RegInv, NEW id \in DOMAIN mem, RotateToken(id) \/ RevokeToken(id)
    PROVE  RegInv'
<1>1. Registries /\ Copies /\ Others /\ Room BY DEF RegInv
<1>2. ops' \in 1..MaxOps BY <1>1, OperationCounts DEF RotateToken, RevokeToken
<1>3. mem[id] \in User /\ DOMAIN mem \subseteq Ids BY <1>1 DEF Registries, IsRegistry
<1>4. PICK t \in 0..MaxOps, off \in BOOLEAN :
         (t = 0 <=> off) /\ Store([mem EXCEPT ![id].token = t, ![id].off = off])
  <2> DEFINE P(t, off) == (t = 0 <=> off) /\ Store([mem EXCEPT ![id].token = t, ![id].off = off])
  <2> SUFFICES \E t \in 0..MaxOps, off \in BOOLEAN : P(t, off) OBVIOUS
  <2>1. CASE RotateToken(id)
    <3>1. ops' \in 0..MaxOps /\ (ops' = 0 <=> FALSE) BY <1>2
    <3>2. P(ops', FALSE) BY <2>1, <3>1 DEF RotateToken
    <3> HIDE DEF P
    <3> QED BY <3>1, <3>2
  <2>2. CASE RevokeToken(id)
    <3>1. 0 \in 0..MaxOps BY Sizes
    <3>2. P(0, TRUE) BY <2>2 DEF RevokeToken
    <3> HIDE DEF P
    <3> QED BY <3>1, <3>2
  <2> QED BY <2>1, <2>2
<1> DEFINE n == [mem EXCEPT ![id].token = t, ![id].off = off]
           u == [mem[id] EXCEPT !.token = t, !.off = off]
<1>5. u \in User BY <1>3 DEF User
<1>6. u.token = t /\ u.off = off BY <1>3 DEF User
<1>7. TokenState(u) BY <1>4, <1>6 DEF TokenState
<1>8. DOMAIN n = DOMAIN mem /\ n[id] = u /\ \A x \in DOMAIN mem : x # id => n[x] = mem[x]
  OBVIOUS
<1> HIDE DEF u, n
<1>9. IsRegistry(n) /\ \A x \in DOMAIN n : TokenState(n[x])
  <2> SUFFICES ASSUME NEW x \in DOMAIN n PROVE n[x] \in User /\ TokenState(n[x])
    BY <1>3, <1>8 DEF IsRegistry
  <2>1. CASE x = id BY <1>5, <1>7, <1>8, <2>1
  <2>2. CASE x # id BY <1>1, <1>8, <2>2 DEF Registries, IsRegistry
  <2> QED BY <2>1, <2>2
<1>10. HeldIds' = HeldIds /\ Copies' BY <1>1 DEF RotateToken, RevokeToken, HeldIds, Copies
<1>11. Store(n) BY <1>4 DEF n
<1>12. Registries' /\ Room' BY <1>8, <1>9, <1>10, <1>11, StoreKeeps
<1>13. Others' BY <1>1, <1>2 DEF RotateToken, RevokeToken, Others
<1> QED BY <1>10, <1>12, <1>13 DEF RegInv

LEMMA GetKeeps ==
    ASSUME RegInv, NEW p \in Patchers, NEW id \in DOMAIN mem, UpdateGet(p, id)
    PROVE  RegInv'
<1>1. Registries /\ Copies /\ Others /\ Room BY DEF RegInv
<1>2. ops' \in 1..MaxOps BY <1>1, OperationCounts DEF UpdateGet
<1> DEFINE copy == [id |-> id, user |-> mem[id]]
<1>3. copy.id \in Ids /\ copy.user \in User /\ TokenState(copy.user)
  BY <1>1 DEF Registries, IsRegistry
<1>4. copy.id = id OBVIOUS
<1> HIDE DEF copy
<1>5. held' = [held EXCEPT ![p] = copy] BY DEF UpdateGet, copy
<1>6. DOMAIN held' = Patchers /\ held'[p] = copy /\ \A q \in Patchers : q # p => held'[q] = held[q]
  BY <1>1, <1>5 DEF Copies
<1>7. Copies'
  <2> SUFFICES ASSUME NEW q \in Patchers
               PROVE  /\ held'[q] = Nobody \/ held'[q].id \in Ids
                      /\ held'[q] # Nobody => held'[q].user \in User /\ TokenState(held'[q].user)
    BY <1>6 DEF Copies
  <2>1. CASE q = p BY <1>3, <1>6, <2>1
  <2>2. CASE q # p BY <1>1, <1>6, <2>2 DEF Copies
  <2> QED BY <2>1, <2>2
<1>8. HeldIds' \subseteq HeldIds \cup {id}
  <2> SUFFICES ASSUME NEW q \in Patchers, held'[q] # Nobody PROVE held'[q].id \in HeldIds \cup {id}
    BY DEF HeldIds
  <2>1. CASE q = p BY <1>4, <1>6, <2>1
  <2>2. CASE q # p BY <1>6, <2>2 DEF HeldIds
  <2> QED BY <2>1, <2>2
<1>9. UNCHANGED <<mem, file, active, published, fs, unsaved>> BY DEF UpdateGet
<1>10. Registries' /\ Others' BY <1>1, <1>2, <1>9 DEF Registries, Others
<1>11. Room'
  <2> DEFINE A == DOMAIN mem \cup HeldIds
  <2>1. (DOMAIN mem \cup HeldIds)' \subseteq A BY <1>8, <1>9
  <2>2. IsFiniteSet(A) /\ Cardinality(A) <= Limit BY <1>1, Domains DEF Room
  <2>3. /\ IsFiniteSet((DOMAIN mem \cup HeldIds)')
        /\ Cardinality((DOMAIN mem \cup HeldIds)') <= Cardinality(A)
    BY <2>1, <2>2, FS_Subset
  <2>4. Cardinality((DOMAIN mem \cup HeldIds)') <= Limit
    BY <2>2, <2>3, Patches, FS_CardinalityType
  <2> QED BY <1>1, <1>9, <2>4 DEF Room
<1> QED BY <1>7, <1>10, <1>11 DEF RegInv

LEMMA PutKeeps ==
    ASSUME RegInv, NEW p \in Patchers, NEW on \in BOOLEAN, UpdatePut(p, on)
    PROVE  RegInv'
<1>1. Registries /\ Copies /\ Others /\ Room BY DEF RegInv
<1> DEFINE u == [held[p].user EXCEPT !.enabled = on]
           n == Assign(mem, held[p].id, u)
<1>2. held[p].id \in Ids /\ held[p].id \in HeldIds /\ held[p].user \in User /\ TokenState(held[p].user)
  BY <1>1 DEF UpdatePut, Copies, HeldIds
<1>3. u \in User BY <1>2 DEF User
<1>4. u.token = held[p].user.token /\ u.off = held[p].user.off BY <1>2 DEF User
<1>5. TokenState(u) BY <1>2, <1>4 DEF TokenState
<1> HIDE DEF u
<1>6. /\ IsRegistry(n) /\ \A x \in DOMAIN n : TokenState(n[x])
      /\ DOMAIN n = DOMAIN mem \cup {held[p].id}
  BY <1>1, <1>2, <1>3, <1>5, AssignIsRegistry DEF Registries
<1> HIDE DEF n
<1>7. /\ DOMAIN held' = Patchers /\ held'[p] = Nobody
      /\ \A q \in Patchers : q # p => held'[q] = held[q]
  BY <1>1 DEF UpdatePut, Copies
<1>8. Copies' BY <1>1, <1>7 DEF Copies
<1>9. HeldIds' \subseteq HeldIds BY <1>7 DEF HeldIds
<1>10. Store(n) BY DEF UpdatePut, n, u
<1>11. DOMAIN n \subseteq DOMAIN mem \cup HeldIds BY <1>2, <1>6
<1>12. Registries' /\ Room' BY <1>6, <1>9, <1>10, <1>11, StoreKeeps
<1>13. Others' BY <1>1 DEF UpdatePut, Others
<1> QED BY <1>8, <1>12, <1>13 DEF RegInv

LEMMA RegInit == Init => RegInv
<1> SUFFICES ASSUME Init PROVE RegInv OBVIOUS
<1>0. DOMAIN mem = {} /\ DOMAIN file = {} BY DEF Init
<1>1. Registries
  <2>1. unsaved \in BOOLEAN BY DEF Init
  <2> QED BY <1>0, <2>1 DEF Registries, IsRegistry
<1>2. Copies BY DEF Init, Copies
<1>3. Others BY Sizes DEF Init, Others
<1>4. DOMAIN mem = {} /\ DOMAIN file = {} /\ HeldIds = {} BY DEF Init, HeldIds
<1>5. Room BY <1>4, FS_EmptySet, Patches DEF Room
<1> QED BY <1>1, <1>2, <1>3, <1>5 DEF RegInv

LEMMA RegStep == RegInv /\ [Next]_vars => RegInv'
<1> SUFFICES ASSUME RegInv, [Next]_vars PROVE RegInv' OBVIOUS
<1>1. ASSUME NEW cfg \in Configs, Apply(cfg) PROVE RegInv' BY <1>1, ApplyKeeps
<1>2. ASSUME NEW id \in DOMAIN mem, RotateToken(id) \/ RevokeToken(id) PROVE RegInv'
  BY <1>2, TokenKeeps
<1>3. ASSUME NEW p \in Patchers, NEW id \in DOMAIN mem, UpdateGet(p, id) PROVE RegInv'
  BY <1>3, GetKeeps
<1>4. ASSUME NEW p \in Patchers, NEW on \in BOOLEAN, UpdatePut(p, on) PROVE RegInv'
  BY <1>4, PutKeeps
<1>5. ASSUME NEW cfg \in StartConfigs, Restart(cfg) PROVE RegInv' BY <1>5, RestartKeeps
<1>6. CASE FsChange
  BY <1>6 DEF FsChange, RegInv, Registries, Copies, Others, Room, HeldIds
<1>7. CASE UNCHANGED vars
  BY <1>7 DEF vars, RegInv, Registries, Copies, Others, Room, HeldIds
<1> QED BY <1>1, <1>2, <1>3, <1>4, <1>5, <1>6, <1>7 DEF Next

-----------------------------------------------------------------------------
(* Tokens, and the mirror.                                                   *)

LEMMA RegInvHolds == Spec => []RegInv
BY RegInit, RegStep, PTL DEF Spec

\* The registry, the file, the configurations and the copies requests hold keep
\* their types through every reconcile, write, failure and restart.
THEOREM RegistryTyped == Spec => []RegTypeOK
<1>1. RegInv => RegTypeOK
  BY DEF RegInv, Registries, Copies, Others, RegTypeOK
<1> QED BY <1>1, RegInvHolds, PTL

\* Whichever of Reconcile, Put, RotateToken, RevokeToken and Load came last, and
\* however old the copy a Put wrote back: a user without a token was revoked,
\* and a revoked user has no token.
THEOREM RevokedHasNoToken == Spec => []TokenOrRevoked
<1>1. RegInv => TokenOrRevoked
  BY DEF RegInv, Registries, TokenState, TokenOrRevoked
<1> QED BY <1>1, RegInvHolds, PTL

\* Every Apply leaves a mirror of the configuration it published: one user for
\* each name or nameless credential, with the credentials listed under it and
\* no other, whatever fragments and stale users it found, for configurations of
\* any size, well formed or not.
THEOREM ApplyLeavesMirror == Spec => ApplyMirrors
<1>1. RegInv /\ [Next]_vars => [Applied => Mirrors(mem', active')]_vars
  BY ApplyKeeps DEF Applied
<1> QED BY <1>1, RegInvHolds, PTL DEF Spec, ApplyMirrors

-----------------------------------------------------------------------------
(* The user that one name claims.                                            *)

\* Name n claims user id and no other, and nothing else claims it.
Undisputed(m, cfg, id, n) ==
    /\ id \in DOMAIN m /\ n \in Names
    /\ Claimants(m[id], cfg) = {n}
    /\ \A other \in DOMAIN m \ {id} : n \notin Claimants(m[other], cfg)

\* Its group has it for the one candidate, and no other group has it for one.
LEMMA OneCandidate ==
    ASSUME NEW m, NEW cfg \in Config, WellFormed(cfg), NEW id, NEW n, Undisputed(m, cfg, id, n)
    PROVE  /\ MaxCred + n \in Groups(cfg)
           /\ Candidates(m, cfg, MaxCred + n) = {id}
           /\ \A g \in Groups(cfg) : g # MaxCred + n => id \notin Candidates(m, cfg, g)
<1>0. /\ id \in DOMAIN m /\ n \in Nat \ {0} /\ Claimants(m[id], cfg) = {n}
      /\ \A other \in DOMAIN m \ {id} : n \notin Claimants(m[other], cfg)
  BY Sizes DEF Undisputed, Names
<1>1. ASSUME NEW e \in cfg PROVE e[1] \in Listed(cfg) /\ Owner(cfg, e[1]) = Identity(e)
  <2>1. e[1] \in Listed(cfg) BY DEF Listed
  <2>2. PICK f \in cfg : f[1] = e[1] /\ Owner(cfg, e[1]) = Identity(f) BY <2>1, OwnerLists
  <2>3. e = f BY <2>2 DEF WellFormed
  <2> QED BY <2>1, <2>2, <2>3
<1>2. ASSUME NEW e \in cfg, NEW x \in DOMAIN m, e[1] \in m[x].binds \/ (e[2] = m[x].name /\ m[x].name # 0)
      PROVE  e[2] \in Claimants(m[x], cfg)
  BY <1>2 DEF Claimants
<1>3. ASSUME NEW g \in Groups(cfg)
      PROVE  \E e \in cfg : g = Identity(e) /\ GroupName(g) = e[2] /\ e[2] \in Nat
                            /\ (g <= MaxCred <=> e[2] = 0) /\ (e[2] # 0 => g = MaxCred + e[2])
  <2>1. PICK c \in Listed(cfg) : g = Owner(cfg, c) BY DEF Groups
  <2>2. PICK e \in cfg : g = Identity(e) BY <2>1, OwnerLists
  <2>3. e \in Creds \X (Names \cup {0}) BY DEF Config
  <2>4. e[2] \in Nat BY <2>3, Sizes DEF Names
  <2>5. e[2] # 0 => g = MaxCred + e[2] BY <2>2 DEF Identity
  <2> QED BY <2>2, <2>3, <2>4, <2>5, IdentityKey
<1>4. ASSUME NEW g \in Groups(cfg), NEW x \in Candidates(m, cfg, g)
      PROVE  x \in DOMAIN m /\ GroupName(g) \in Claimants(m[x], cfg)
  <2>1. x \in DOMAIN m /\ (\/ m[x].name = GroupName(g) /\ m[x].name # 0
                           \/ m[x].binds \cap GroupBinds(cfg, g) # {})
    BY <1>4 DEF Candidates
  <2>2. CASE m[x].name = GroupName(g) /\ m[x].name # 0
    <3>1. PICK e \in cfg : GroupName(g) = e[2] BY <1>3
    <3> QED BY <1>2, <2>1, <2>2, <3>1
  <2>3. CASE m[x].binds \cap GroupBinds(cfg, g) # {}
    <3>1. PICK c \in Listed(cfg) : c \in m[x].binds /\ Owner(cfg, c) = g BY <2>3 DEF GroupBinds
    <3>2. PICK e \in cfg : e[1] = c /\ g = Identity(e) BY <3>1, OwnerLists
    <3>3. e \in Creds \X (Names \cup {0}) BY DEF Config
    <3>4. GroupName(g) = e[2] BY <3>2, <3>3, IdentityKey
    <3> QED BY <1>2, <2>1, <3>1, <3>2, <3>4
  <2> QED BY <2>1, <2>2, <2>3
<1>5. PICK e \in cfg : e[2] = n /\ (e[1] \in m[id].binds \/ e[2] = m[id].name)
  <2>1. n \in Claimants(m[id], cfg) BY <1>0
  <2> QED BY <2>1 DEF Claimants
<1>6. Identity(e) = MaxCred + n /\ GroupName(MaxCred + n) = n
  <2>1. e \in Creds \X (Names \cup {0}) BY DEF Config
  <2>2. Identity(e) = MaxCred + n BY <1>0, <1>5 DEF Identity
  <2> QED BY <1>5, <2>1, <2>2, IdentityKey
<1>7. MaxCred + n \in Groups(cfg) /\ e[1] \in GroupBinds(cfg, MaxCred + n)
  BY <1>1, <1>6 DEF Groups, GroupBinds
<1>8. id \in Candidates(m, cfg, MaxCred + n)
  BY <1>0, <1>5, <1>6, <1>7 DEF Candidates
<1>9. \A x \in Candidates(m, cfg, MaxCred + n) : x = id BY <1>0, <1>4, <1>6, <1>7
<1>10. ASSUME NEW g \in Groups(cfg), g # MaxCred + n, id \in Candidates(m, cfg, g) PROVE FALSE
  <2>1. GroupName(g) = n BY <1>0, <1>4, <1>10
  <2>2. g = MaxCred + n BY <1>0, <1>3, <2>1
  <2> QED BY <1>10, <2>2
<1> QED BY <1>7, <1>8, <1>9, <1>10

\* Until its group's turn the user is there and not kept; then it is kept.
Spared(pass, g, id, n) ==
    IF g < MaxCred + n THEN id \in DOMAIN pass.reg \ pass.kept
    ELSE id \in pass.kept /\ pass.reg[id].name = n

LEMMA TurnSpares ==
    ASSUME NEW m, DOMAIN m \subseteq Ids, \A x \in DOMAIN m : m[x] \in User,
           NEW cfg \in Config, WellFormed(cfg),
           NEW fresh, NEW low, Roomy(m, fresh), NEW id, NEW n, Undisputed(m, cfg, id, n),
           NEW g \in Keys, g \in Groups(cfg), NEW pass, NEW who, Keeps(m, cfg, fresh, g - 1, pass, who),
           Spared(pass, g - 1, id, n)
    PROVE  Spared(Converge(m, cfg, fresh, low, pass, g), g, id, n)
<1> DEFINE cands == (Candidates(m, cfg, g) \cap DOMAIN pass.reg) \ pass.kept
           took  == Taken(m, cfg, fresh, low, pass, g)
           user  == IF cands # {} THEN pass.reg[took] ELSE NewUser
           rest  == Restrict(pass.reg, DOMAIN pass.reg \ cands)
           put   == [user EXCEPT !.name = GroupName(g), !.binds = GroupBinds(cfg, g)]
           reg   == Assign(rest, took, put)
           kept  == pass.kept \cup {took}
<1>1. Converge(m, cfg, fresh, low, pass, g) = [reg |-> reg, kept |-> kept]
  BY DEF Converge, Taken
<1>2. /\ took \in Ids /\ took \notin pass.kept
      /\ \/ took \in DOMAIN pass.reg /\ took \in Candidates(m, cfg, g) /\ took \in DOMAIN m
         \/ took \in fresh /\ took \notin DOMAIN pass.reg /\ took \notin DOMAIN m
  BY TakenIsFree
<1>3. /\ MaxCred + n \in Groups(cfg)
      /\ Candidates(m, cfg, MaxCred + n) = {id}
      /\ \A h \in Groups(cfg) : h # MaxCred + n => id \notin Candidates(m, cfg, h)
  BY OneCandidate
<1>4. n \in Nat \ {0} /\ g \in Nat \ {0} /\ MaxCred \in Nat BY Sizes DEF Undisputed, Names, Keys
<1>5. DOMAIN reg = (DOMAIN pass.reg \ cands) \cup {took} /\ reg[took] = put
      /\ \A x \in DOMAIN pass.reg \ cands : x # took => reg[x] = pass.reg[x]
  BY DEF Assign, Restrict
<1> HIDE DEF reg
<1> SUFFICES Spared([reg |-> reg, kept |-> kept], g, id, n) BY <1>1
<1>6. CASE g = MaxCred + n
  <2>1. id \in DOMAIN pass.reg \ pass.kept BY <1>4, <1>6 DEF Spared
  <2>2. cands = {id} BY <1>3, <1>6, <2>1
  <2>3. took = id
    <3>1. cands \in SUBSET Nat BY DEF Keeps, Ids, Candidates
    <3>2. took = Min(cands) BY <2>2 DEF Taken
    <3> QED BY <2>2, <3>1, <3>2, MinIn
  <2>4. user = m[id] /\ m[id] \in User BY <2>1, <2>2, <2>3 DEF Keeps, Undisputed
  <2>5. put.name = GroupName(g) BY <2>4 DEF User
  <2>6. GroupName(g) = n BY <1>4, <1>6 DEF GroupName
  <2>7. id \in kept /\ reg[id].name = n BY <1>5, <2>3, <2>5, <2>6
  <2> HIDE DEF kept
  <2> QED BY <1>4, <1>6, <2>7 DEF Spared
<1>7. CASE g < MaxCred + n
  <2>1. id \in DOMAIN pass.reg \ pass.kept BY <1>4, <1>7 DEF Spared
  <2>2. id \notin Candidates(m, cfg, g) BY <1>3, <1>4, <1>7
  <2>3. took # id BY <1>2, <2>1, <2>2
  <2>4. id \in DOMAIN reg \ kept BY <1>5, <2>1, <2>2, <2>3
  <2> HIDE DEF kept
  <2> QED BY <1>7, <2>4 DEF Spared
<1>8. CASE g > MaxCred + n
  <2>1. id \in pass.kept /\ pass.reg[id].name = n BY <1>4, <1>8 DEF Spared
  <2>2. id \in DOMAIN pass.reg \ cands /\ id # took BY <1>2, <2>1 DEF Keeps
  <2>3. id \in kept /\ reg[id].name = n BY <1>5, <2>1, <2>2
  <2> HIDE DEF kept
  <2> QED BY <1>4, <1>8, <2>3 DEF Spared
<1> QED BY <1>4, <1>6, <1>7, <1>8

LEMMA TurnsSpare ==
    ASSUME NEW m, DOMAIN m \subseteq Ids, \A x \in DOMAIN m : m[x] \in User,
           NEW cfg \in Config, WellFormed(cfg),
           NEW fresh, NEW low, Roomy(m, fresh), NEW id, NEW n, Undisputed(m, cfg, id, n),
           NEW turn, IsTurns(turn, m, cfg, fresh, low)
    PROVE  \A g \in 0..MaxCred + MaxName : Spared(turn[g], g, id, n)
<1>1. /\ turn[0] = [reg |-> m, kept |-> {}]
      /\ \A g \in Keys : turn[g] = Turn(m, cfg, fresh, low, g, turn[g - 1])
  BY DEF IsTurns
<1> DEFINE N == MaxCred + MaxName
           T == {g \in 0..N : ~Spared(turn[g], g, id, n)}
<1>2. N \in Nat /\ Keys = 1..N /\ MaxCred \in Nat BY Sizes DEF Keys
<1>3. n \in Nat \ {0} /\ id \in DOMAIN m BY Sizes DEF Undisputed, Names
<1>4. \A g \in 0..N : \E who : Keeps(m, cfg, fresh, g, turn[g], who) BY TurnsKeep
<1> SUFFICES ASSUME T # {} PROVE FALSE OBVIOUS
<1>5. T \in SUBSET Nat OBVIOUS
<1>6. PICK g \in T : \A j \in T : g <= j BY <1>5, Least
<1>7. CASE g = 0
  <2>1. Spared(turn[0], 0, id, n)
    <3>1. 0 < MaxCred + n BY <1>2, <1>3
    <3>2. id \in DOMAIN turn[0].reg \ turn[0].kept BY <1>1, <1>3
    <3> QED BY <3>1, <3>2 DEF Spared
  <2> QED BY <1>6, <1>7, <2>1
<1>8. CASE g # 0
  <2>1. g \in Keys /\ g - 1 \in 0..N /\ g - 1 \notin T BY <1>2, <1>6, <1>8
  <2>2. Spared(turn[g - 1], g - 1, id, n) BY <2>1
  <2>3. PICK who : Keeps(m, cfg, fresh, g - 1, turn[g - 1], who) BY <1>4, <2>1
  <2>4. CASE g \in Groups(cfg)
    <3>1. turn[g] = Converge(m, cfg, fresh, low, turn[g - 1], g) BY <1>1, <2>1, <2>4 DEF Turn
    <3>2. Spared(turn[g], g, id, n) BY <2>1, <2>2, <2>3, <2>4, <3>1, TurnSpares
    <3> QED BY <1>6, <3>2
  <2>5. CASE g \notin Groups(cfg)
    <3>1. turn[g] = turn[g - 1] BY <1>1, <2>1, <2>5 DEF Turn
    <3>2. g # MaxCred + n
      <4> HIDE DEF T
      <4>1. MaxCred + n \in Groups(cfg) BY OneCandidate
      <4> QED BY <2>5, <4>1
    <3>3. g - 1 < MaxCred + n <=> g < MaxCred + n BY <1>2, <1>3, <2>1, <3>2
    <3>4. Spared(turn[g], g, id, n) BY <2>2, <3>1, <3>3 DEF Spared
    <3> QED BY <1>6, <3>4
  <2> QED BY <2>4, <2>5
<1> QED BY <1>7, <1>8

\* What a call makes of an undisputed user.
LEMMA ReconciledSpares ==
    ASSUME NEW m, DOMAIN m \subseteq Ids, \A x \in DOMAIN m : m[x] \in User,
           NEW cfg \in Config, WellFormed(cfg),
           NEW fresh, NEW low, Roomy(m, fresh), NEW stamp, NEW id, NEW n, Undisputed(m, cfg, id, n)
    PROVE  LET new == Reconciled(m, cfg, fresh, low, stamp) IN
           /\ id \in DOMAIN new /\ new[id].name = n
           /\ new[id].token = m[id].token \/ m[id].token = 0
           /\ new[id].off = m[id].off /\ new[id].enabled = m[id].enabled
<1> DEFINE pass == Converged(m, cfg, fresh, low)
           N == MaxCred + MaxName
           new == Reconciled(m, cfg, fresh, low, stamp)
<1>1. PICK turn : IsTurns(turn, m, cfg, fresh, low) /\ pass = turn[N] BY LoopTurns
<1>2. N \in 0..N /\ ~(N < MaxCred + n) BY Sizes DEF Undisputed, Names
<1>3. Spared(turn[N], N, id, n) BY <1>1, <1>2, TurnsSpare
<1>4. id \in pass.kept BY <1>1, <1>2, <1>3 DEF Spared
<1>5. pass.reg[id].name = n BY <1>1, <1>2, <1>3 DEF Spared
<1>6. new = Mint(Restrict(pass.reg, pass.kept), stamp) BY DEF Reconciled, DropUnclaimed
<1>7. PICK who : Keeps(m, cfg, fresh, N, pass, who)
  BY <1>1, <1>2, TurnsKeep
<1>8. PICK h \in Done(cfg, N) : who[h] = id
  BY <1>4, <1>7, Fun_BijectionProperties DEF Keeps
<1>9. pass.reg[id] = Shaped(m, cfg, id, h) BY <1>7, <1>8 DEF Keeps
<1> HIDE DEF pass
<1> DEFINE v == pass.reg[id]
<1>10. id \in DOMAIN new /\ new[id] = IF v.token = 0 /\ ~v.off THEN [v EXCEPT !.token = stamp] ELSE v
  BY <1>4, <1>6 DEF Mint, Restrict
<1> HIDE DEF new
<1>11. m[id] \in User /\ id \in DOMAIN m BY DEF Undisputed
<1>12. v = [m[id] EXCEPT !.name = GroupName(h), !.binds = GroupBinds(cfg, h)]
  BY <1>9, <1>11 DEF Shaped, Source
<1>13. v.token = m[id].token /\ v.off = m[id].off /\ v.enabled = m[id].enabled
  BY <1>11, <1>12 DEF User
<1>14. CASE v.token = 0 /\ ~v.off
  <2>1. new[id] = [v EXCEPT !.token = stamp] BY <1>10, <1>14
  <2>2. new[id].name = v.name /\ new[id].off = v.off /\ new[id].enabled = v.enabled
    BY <1>11, <1>12, <2>1 DEF User
  <2> QED BY <1>5, <1>10, <1>13, <1>14, <2>2 DEF new
<1>15. CASE ~(v.token = 0 /\ ~v.off)
  <2>1. new[id] = v BY <1>10, <1>15
  <2> QED BY <1>5, <1>10, <1>13, <2>1 DEF new
<1> QED BY <1>14, <1>15

\* While no credential is listed under two names, an Apply keeps the id, the
\* token, the revocation and the lifecycle of every user that one name claims
\* and that is the only one it claims: a rename, a credential added or removed
\* and whatever becomes of other users never reissue a subscription.
THEOREM UndisputedIsKept == Spec => UndisputedUserKept
<1> DEFINE Kept(id, n) ==
      /\ id \in DOMAIN mem'
      /\ mem'[id].name = n
      /\ mem'[id].token = mem[id].token \/ mem[id].token = 0
      /\ mem'[id].off = mem[id].off
      /\ mem'[id].enabled = mem[id].enabled
<1>1. ASSUME RegInv, NEW cfg \in Configs, Apply(cfg), WellFormed(active'),
             NEW id \in DOMAIN mem, NEW n \in Names, Claimants(mem[id], active') = {n},
             \A other \in DOMAIN mem \ {id} : n \notin Claimants(mem[other], active')
      PROVE  Kept(id, n)
  <2>1. active' = cfg /\ Reconcile(mem, cfg) BY <1>1 DEF Apply
  <2>2. PICK low \in BOOLEAN : mem' = Reconciled(mem, cfg, Unused, low, ops') BY <2>1 DEF Reconcile
  <2>3. cfg \in Config BY ConfigsAreConfig
  <2>4. Roomy(mem, Unused) BY <1>1, UnusedIsRoomy
  <2>5. DOMAIN mem \subseteq Ids /\ \A x \in DOMAIN mem : mem[x] \in User
    BY <1>1 DEF RegInv, Registries, IsRegistry
  <2>6. Undisputed(mem, cfg, id, n) BY <1>1, <2>1 DEF Undisputed
  <2>7. WellFormed(cfg) BY <1>1, <2>1
  <2> QED BY <2>2, <2>3, <2>4, <2>5, <2>6, <2>7, ReconciledSpares
<1>2. RegInv /\ [Next]_vars =>
        [Applied /\ WellFormed(active') =>
           \A id \in DOMAIN mem, n \in Names :
              /\ Claimants(mem[id], active') = {n}
              /\ \A other \in DOMAIN mem \ {id} : n \notin Claimants(mem[other], active')
              => Kept(id, n)]_vars
  BY <1>1 DEF Applied
<1> QED BY <1>2, RegInvHolds, PTL DEF Spec, UndisputedUserKept

-----------------------------------------------------------------------------
(* Memory and file.                                                          *)

\* The two ways the registry is written: Store, by one user's writes, and
\* Reconcile, of the map itself or of the file a fresh process read.
LEMMA StoreAgrees ==
    ASSUME MemoryIsFile, NEW m, Store(m)
    PROVE  MemoryIsFile'
BY DEF MemoryIsFile, Store

LEMMA ReconcileAgrees ==
    ASSUME MemoryIsFile, NEW m, NEW cfg, Reconcile(m, cfg), m \in {mem, file}
    PROVE  MemoryIsFile'
<1>1. PICK new : /\ mem' = new
                 /\ \/ new = m /\ UNCHANGED file /\ unsaved' = (m # file)
                    \/ new # m /\ fs = "rw" /\ file' = new /\ unsaved' = FALSE
                    \/ new # m /\ fs # "rw" /\ UNCHANGED file /\ unsaved' = TRUE
  BY DEF Reconcile
<1>2. CASE new = m
  BY <1>1, <1>2 DEF MemoryIsFile
<1>3. CASE new # m
  BY <1>1, <1>3 DEF MemoryIsFile
<1> QED BY <1>2, <1>3

LEMMA StepAgrees == MemoryIsFile /\ [Next]_vars => MemoryIsFile'
<1> SUFFICES ASSUME MemoryIsFile, [Next]_vars PROVE MemoryIsFile'
  OBVIOUS
<1>1. ASSUME NEW cfg \in Configs, Apply(cfg) PROVE MemoryIsFile'
  BY <1>1, ReconcileAgrees DEF Apply
<1>2. ASSUME NEW id \in DOMAIN mem, RotateToken(id) PROVE MemoryIsFile'
  BY <1>2, StoreAgrees DEF RotateToken
<1>3. ASSUME NEW id \in DOMAIN mem, RevokeToken(id) PROVE MemoryIsFile'
  BY <1>3, StoreAgrees DEF RevokeToken
<1>4. ASSUME NEW p \in Patchers, NEW id \in DOMAIN mem, UpdateGet(p, id)
      PROVE  MemoryIsFile'
  BY <1>4 DEF UpdateGet, MemoryIsFile
<1>5. ASSUME NEW p \in Patchers, NEW on \in BOOLEAN, UpdatePut(p, on)
      PROVE  MemoryIsFile'
  BY <1>5, StoreAgrees DEF UpdatePut
<1>6. ASSUME NEW cfg \in StartConfigs, Restart(cfg) PROVE MemoryIsFile'
  BY <1>6, ReconcileAgrees DEF Restart
<1>7. CASE FsChange
  BY <1>7 DEF FsChange, MemoryIsFile
<1>8. CASE UNCHANGED vars
  BY <1>8 DEF vars, MemoryIsFile
<1> QED BY <1>1, <1>2, <1>3, <1>4, <1>5, <1>6, <1>7, <1>8 DEF Next

\* Whatever failed on the way, and however UpdateUser requests, token calls,
\* applies and restarts interleave, the map the panel serves from is the file
\* a restart will read, unless the last change was a reconcile whose own save
\* failed: Put, RotateToken and RevokeToken roll back, Reconcile does not.
THEOREM RegistryIsFile == Spec => []MemoryIsFile
<1>1. Init => MemoryIsFile
  BY DEF Init, MemoryIsFile
<1> QED BY <1>1, StepAgrees, PTL DEF Spec
=============================================================================
