----------------------------- MODULE UserRegistry -----------------------------
(***************************************************************************)
(* The registry of panel users (internal/users): users.toml and the map    *)
(* that mirrors it, the reconciler that derives both from the active       *)
(* configuration, the subscription token's Rotate and Revoke, and the      *)
(* handler UpdateUser, which reads a user under one lock and writes it     *)
(* back under another.                                                     *)
(*                                                                         *)
(* An entry <<c, n>> of a configuration says that inbound credential c     *)
(* (an inbound tag and a key) carries the user name n; n = 0 is no name.   *)
(* A token is the number of the operation that minted it, 0 when empty.    *)
(***************************************************************************)
EXTENDS FiniteSetsExt, Functions, Integers

CONSTANTS
    MaxCred,    \* credentials, in the order of (tag, credential)
    MaxName,    \* names, in lexicographic order
    MaxId,      \* registry ids, in lexicographic order
    Configs,    \* the active configurations a run publishes
    Patchers,   \* concurrent UpdateUser requests
    Nobody,     \* a request that holds no user
    ConfigMayBreak, \* whether config.json may fail to load at a start
    MaxOps      \* bound: operations and restarts

Creds   == 1..MaxCred
Names   == 1..MaxName
Ids     == 1..MaxId

ASSUME RegistryAssumption ==
    /\ MaxCred \in Nat /\ MaxName \in Nat /\ MaxOps \in Nat
    /\ IsFiniteSet(Patchers)
    /\ MaxId \in Nat /\ MaxId >= 3 * MaxCred + 2 * Cardinality(Patchers)
    /\ ConfigMayBreak \in BOOLEAN
    /\ Configs \subseteq SUBSET (Creds \X (Names \cup {0}))

VARIABLES
    mem,       \* Manager.byID: a function from ids in use to users
    file,      \* users.toml
    active,    \* the server users of config.Manager's activeConfig
    published, \* the server users of config.json
    fs,        \* whether users.toml can be written: "rw" or "ro"
    held,      \* the copy each UpdateUser request took: [id, user] or Nobody
    unsaved,   \* history: a reconcile whose save failed is the last change
    ops

vars == <<mem, file, active, published, fs, held, unsaved, ops>>

User == [name : Names \cup {0}, binds : SUBSET Creds,
         token : 0..MaxOps, off : BOOLEAN, enabled : BOOLEAN]

IsRegistry(m) == DOMAIN m \subseteq Ids /\ \A id \in DOMAIN m : m[id] \in User

Operation == ops < MaxOps /\ ops' = ops + 1

\* m.byID[id] = user
Assign(m, id, user) ==
    [x \in DOMAIN m \cup {id} |-> IF x = id THEN user ELSE m[x]]

-----------------------------------------------------------------------------
(* The groups a configuration asks for.                                      *)

\* Reconcile's identity key: a nameless credential is a group of its own and
\* sorts before every name ("\x00" + tag + "\x00" + credential).
Identity(e) == IF e[2] = 0 THEN e[1] ELSE MaxCred + e[2]

\* A credential listed under two identities belongs to the first of them.
Owner(cfg, c)      == Min({Identity(e) : e \in {x \in cfg : x[1] = c}})
Listed(cfg)        == {e[1] : e \in cfg}
Groups(cfg)        == {Owner(cfg, c) : c \in Listed(cfg)}
GroupBinds(cfg, g) == {c \in Listed(cfg) : Owner(cfg, c) = g}

\* Mutant: a nameless user is named by its identity key.
NameIsIdentity(g) == g - MaxCred

GroupName(g) == IF g <= MaxCred THEN 0 ELSE g - MaxCred

-----------------------------------------------------------------------------
(* Reconcile.                                                                *)

\* Mutant: users are matched by name alone.
CandidatesByName(m, cfg, g) ==
    {id \in DOMAIN m : m[id].name = GroupName(g) /\ m[id].name # 0}

\* Users of the registry as it was found that may survive as group g.
Candidates(m, cfg, g) ==
    {id \in DOMAIN m :
        \/ m[id].name = GroupName(g) /\ m[id].name # 0
        \/ m[id].binds \cap GroupBinds(cfg, g) # {}}

NewUser == [name |-> 0, binds |-> {}, token |-> 0, off |-> FALSE,
            enabled |-> TRUE]

\* Mutant: a user no group claimed is kept (no A1).
KeepUnclaimed(pass) == pass.reg

\* A1: a user that no group chose is deleted.
DropUnclaimed(pass) == Restrict(pass.reg, pass.kept)

\* Mutant: a revoked user gets a token like any other.
MintRevoked(m, stamp) ==
    [id \in DOMAIN m |->
        IF m[id].token = 0 THEN [m[id] EXCEPT !.token = stamp] ELSE m[id]]

\* A user without a token gets one, unless it was revoked.
Mint(m, stamp) ==
    [id \in DOMAIN m |->
        IF m[id].token = 0 /\ ~m[id].off
        THEN [m[id] EXCEPT !.token = stamp] ELSE m[id]]

\* newID's answer sorts before or after the ids in use as chance will have it.
FreshId(fresh, low) == IF low THEN Min(fresh) ELSE Max(fresh)

\* One turn of the loop over the groups: the smallest candidate still there
\* survives, the others are deleted; with none a user with a fresh id is made.
Converge(m, cfg, fresh, low, pass, g) ==
    LET cands == (Candidates(m, cfg, g) \cap DOMAIN pass.reg) \ pass.kept
        id    == IF cands # {} THEN Min(cands) ELSE FreshId(fresh \ DOMAIN pass.reg, low)
        user  == IF cands # {} THEN pass.reg[id] ELSE NewUser
        rest  == Restrict(pass.reg, DOMAIN pass.reg \ cands)
    IN [reg  |-> Assign(rest, id, [user EXCEPT !.name = GroupName(g),
                                               !.binds = GroupBinds(cfg, g)]),
        kept |-> pass.kept \cup {id}]

\* The loop, which takes the groups in the order of their identity keys.
Converged(m, cfg, fresh, low) ==
    LET turn[g \in 0..MaxCred + MaxName] ==
            IF g = 0 THEN [reg |-> m, kept |-> {}]
            ELSE IF g \in Groups(cfg)
                 THEN Converge(m, cfg, fresh, low, turn[g - 1], g)
                 ELSE turn[g - 1]
    IN turn[MaxCred + MaxName]

\* What one call makes of registry m, given the ids not in use.
Reconciled(m, cfg, fresh, low, stamp) ==
    Mint(DropUnclaimed(Converged(m, cfg, fresh, low)), stamp)

\* Random ids do not repeat: ids no map, file or request mentions.
Unused == Ids \ (DOMAIN mem \cup DOMAIN file
                 \cup {held[p].id : p \in {q \in Patchers : held[q] # Nobody}})

\* The call itself, on registry m: it saves only what changed, and a save that
\* fails leaves the map ahead of the file.
Reconcile(m, cfg) ==
    \E new \in {Reconciled(m, cfg, Unused, low, ops') : low \in BOOLEAN} :
       /\ mem' = new
       /\ \/ new = m /\ UNCHANGED file /\ unsaved' = (m # file)
          \/ new # m /\ fs = "rw" /\ file' = new /\ unsaved' = FALSE
          \/ new # m /\ fs # "rw" /\ UNCHANGED file /\ unsaved' = TRUE

-----------------------------------------------------------------------------
(* Writes of one user.                                                       *)

\* Mutant: no roll back when the save fails.
StoreForgetful(m) ==
    /\ mem' = m
    /\ file' = IF fs = "rw" THEN m ELSE file
    /\ unsaved' = (unsaved /\ fs # "rw")

\* saveLocked of a changed map, undone in memory when it fails.
Store(m) ==
    \/ fs = "rw" /\ mem' = m /\ file' = m /\ unsaved' = FALSE
    \/ fs # "rw" /\ UNCHANGED <<mem, file, unsaved>>

RotateToken(id) ==
    /\ Operation
    /\ Store([mem EXCEPT ![id].token = ops', ![id].off = FALSE])
    /\ UNCHANGED <<active, published, fs, held>>

RevokeToken(id) ==
    /\ Operation
    /\ Store([mem EXCEPT ![id].token = 0, ![id].off = TRUE])
    /\ UNCHANGED <<active, published, fs, held>>

\* UpdateUser: Get copies the user; the body is decoded with no lock held...
UpdateGet(p, id) ==
    /\ Operation
    /\ held[p] = Nobody
    /\ held' = [held EXCEPT ![p] = [id |-> id, user |-> mem[id]]]
    /\ UNCHANGED <<mem, file, active, published, fs, unsaved>>

\* ... and Put stores the whole copy, whether or not the id is still there.
UpdatePut(p, on) ==
    /\ held[p] # Nobody
    /\ Store(Assign(mem, held[p].id, [held[p].user EXCEPT !.enabled = on]))
    /\ held' = [held EXCEPT ![p] = Nobody]
    /\ UNCHANGED <<active, published, fs, ops>>

-----------------------------------------------------------------------------
\* ApplyConfig publishes a configuration and reconciles the registry with it.
Apply(cfg) ==
    /\ Operation
    /\ active' = cfg /\ published' = cfg
    /\ Reconcile(mem, cfg)
    /\ UNCHANGED <<fs, held>>

\* A restart of the panel with active configuration cfg: users.toml is loaded
\* and reconciled.
Restart(cfg) ==
    /\ Operation
    /\ active' = cfg
    /\ Reconcile(file, cfg)
    /\ held' = [p \in Patchers |-> Nobody]
    /\ UNCHANGED <<published, fs>>

\* config.json loads, or it does not (an outside edit broke it, its volume is
\* not there yet) and the panel starts on NewEmptyManager.
StartConfigs == {published} \cup IF ConfigMayBreak THEN {{}} ELSE {}

FsChange ==
    /\ fs' = IF fs = "rw" THEN "ro" ELSE "rw"
    /\ UNCHANGED <<mem, file, active, published, held, unsaved, ops>>

Init ==
    /\ mem = <<>> /\ file = <<>>
    /\ active = {} /\ published = {}
    /\ fs = "rw"
    /\ held = [p \in Patchers |-> Nobody]
    /\ unsaved = FALSE
    /\ ops = 0

Next ==
    \/ \E cfg \in Configs : Apply(cfg)
    \/ \E id \in DOMAIN mem : RotateToken(id) \/ RevokeToken(id)
    \/ \E p \in Patchers, id \in DOMAIN mem : UpdateGet(p, id)
    \/ \E p \in Patchers, on \in BOOLEAN : UpdatePut(p, on)
    \/ \E cfg \in StartConfigs : Restart(cfg)
    \/ FsChange

Spec == Init /\ [][Next]_vars

-----------------------------------------------------------------------------
(* Properties.                                                               *)

\* The registry's shape, and the two token states there are: a user without a
\* token was revoked and a revoked user has none ("the derived invariant
\* TokenDisabled => Token == ''", ByToken), whichever writer came last.
RegTypeOK ==
    /\ IsRegistry(mem) /\ IsRegistry(file)
    /\ active \in Configs \cup {{}} /\ published \in Configs \cup {{}}
    /\ fs \in {"rw", "ro"} /\ unsaved \in BOOLEAN /\ ops \in 0..MaxOps
    /\ \A p \in Patchers : held[p] = Nobody \/ held[p].id \in Ids

TokenOrRevoked ==
    \A id \in DOMAIN mem : (mem[id].token = 0) <=> mem[id].off

\* "memory never diverges from disk" (Put): but for a reconcile whose own save
\* failed, what the panel serves is what a restart will read.
MemoryIsFile == ~unsaved => mem = file

\* What "the registry mirrors the active config" (Reconcile) comes to, said
\* without the algorithm: every listed credential has one user, no user has
\* another, a user's credentials are listed under its name, a name has one
\* user, and a nameless user one credential.
Mirrors(m, cfg) ==
    /\ \A c \in Listed(cfg) : \E id \in DOMAIN m :
          /\ \A other \in DOMAIN m : c \in m[other].binds <=> other = id
          /\ <<c, m[id].name>> \in cfg
    /\ \A id \in DOMAIN m :
          /\ m[id].binds # {} /\ m[id].binds \subseteq Listed(cfg)
          /\ m[id].name = 0 => Cardinality(m[id].binds) = 1
          /\ \A other \in DOMAIN m \ {id} : m[id].name \in Names => m[other].name # m[id].name

Applied == \E cfg \in Configs : Apply(cfg)

\* An Apply leaves a mirror of the configuration it published, whatever it
\* found: fragments, stale bindings an UpdateUser wrote back, a malformed
\* configuration that lists one credential under two names.
ApplyMirrors == [][Applied => Mirrors(mem', active')]_vars

\* Claimants of a user: the names a configuration now gives its credentials,
\* and its own name while the configuration still has it.
Claimants(u, cfg) ==
    {e[2] : e \in {x \in cfg : 
              x[1] \in u.binds \/ (x[2] = u.name /\ u.name # 0)}}

WellFormed(cfg) == \A e, f \in cfg : e[1] = f[1] => e = f

\* While no credential is listed under two names, a user that one name claims,
\* and that is the only user that name claims, keeps its id, token, revocation
\* and lifecycle: a pure rename, a credential added or one removed never
\* reissues a subscription.
UndisputedUserKept ==
    [][Applied /\ WellFormed(active') =>
         \A id \in DOMAIN mem, n \in Names :
            /\ Claimants(mem[id], active') = {n}
            /\ \A other \in DOMAIN mem \ {id} : n \notin Claimants(mem[other], active')
            => /\ id \in DOMAIN mem'
               /\ mem'[id].name = n
               /\ mem'[id].token = mem[id].token \/ mem[id].token = 0
               /\ mem'[id].off = mem[id].off
               /\ mem'[id].enabled = mem[id].enabled]_vars

\* "TokenDisabled makes the revoke STICKY ... only Rotate re-enables"
\* (RevokeToken): a revoked user that is still there stays revoked.
RevokeIsSticky ==
    [][\A id \in DOMAIN mem \cap DOMAIN mem' :
         mem[id].off /\ ~mem'[id].off => RotateToken(id)]_vars

\* "empty active -> no-op" (the startup reconcile in main.go): a start that
\* reads no configuration leaves users.toml alone.
EmptyStartIsNoOp == [][active # {} /\ active' = {} /\ ~Applied => file' = file]_vars
=============================================================================
