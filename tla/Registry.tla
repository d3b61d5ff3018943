------------------------------ MODULE Registry ------------------------------
(***************************************************************************)
(* The modules and the three registries that steps find them in            *)
(* (src/modules/ledger.go, anchor_provider.go), the wiring that creates    *)
(* modules and steps (src/internal/plugin.go), and the lookups of the      *)
(* steps, step.audit.append (src/steps/append.go) among them.              *)
(*                                                                         *)
(* The host creates, initialises and stops modules while steps run.  Each  *)
(* registry has a mutex, held for one map access; LedgerModule.Init and    *)
(* Stop write two registries and open or close a pool, so steps and other  *)
(* modules fall in between.  A step keeps the pool it looked up.           *)
(***************************************************************************)
EXTENDS Integers, Sequences, FiniteSets, SequencesExt

CONSTANTS
    LedgerModules,      \* audit.ledger modules
    ProviderModules,    \* audit.anchor_provider.* modules
    NameOf,             \* ledger partition name or provider instance name
    Configs,            \* module configurations to try
    Steps,              \* concurrent steps
    None,               \* no module, no pool
    MaxPools            \* bound: pools opened by one module

Modules == LedgerModules \cup ProviderModules
Names   == {NameOf[m] : m \in Modules}
Pools   == LedgerModules \X (1..MaxPools)

ASSUME ModuleAssumption == LedgerModules \cap ProviderModules = {}
ASSUME NameAssumption == DOMAIN NameOf = Modules
ASSUME PoolAssumption == MaxPools \in Nat /\ None \notin Modules \cup Pools

VARIABLES
    careful,                \* the host never runs two modules of a name at a time
    ledgerRegistry,         \* partition name -> pool of the registered Appender
    dbRegistry,             \* partition name -> *sql.DB
    anchorProviderRegistry, \* instance name -> provider module
    life,                   \* where the host's calls on each module stand
    db,                     \* m.db of each ledger module
    opened,                 \* pools a module has opened so far
    open,                   \* pools that are open
    step                    \* each step: what it found

registries == <<ledgerRegistry, dbRegistry, anchorProviderRegistry>>
pools      == <<db, opened, open>>
vars       == <<careful, registries, life, pools, step>>

Idle == [pc |-> "idle"]

Init ==
    /\ careful \in BOOLEAN
    /\ ledgerRegistry = [n \in Names |-> None]
    /\ dbRegistry = [n \in Names |-> None]
    /\ anchorProviderRegistry = [n \in Names |-> None]
    /\ life = [m \in Modules |-> "absent"]
    /\ db = [m \in LedgerModules |-> None]
    /\ opened = [m \in LedgerModules |-> 0]
    /\ open = {}
    /\ step = [s \in Steps |-> Idle]

-----------------------------------------------------------------------------
(* Creating modules.  A configuration has a type, whether its bytes decode, *)
(* the fields that are set, and those among them that do not load or parse. *)

\* NewLedgerModule; the DSN is only parsed by Init.
NewLedgerModule(cfg) == {"name", "dsn"} \subseteq cfg.set

\* NewOpenTimestampsProviderModule and its NewProvider.
NewOpenTimestampsProvider(cfg) == "calendar_servers" \in cfg.set

\* buildAuth: the agent, else a key file; basic and anonymous cannot fail.
AuthBuilds(cfg) ==
    IF "use_ssh_agent" \in cfg.set THEN "use_ssh_agent" \notin cfg.bad
                                   ELSE "ssh_key_path" \notin cfg.bad

\* The git NewProvider: branch, template and author have defaults.
NewGitProvider(cfg) ==
    "remote" \in cfg.set /\ "commit_template" \notin cfg.bad /\ AuthBuilds(cfg)

\* The factory asks for the remote itself, too.
NewGitAnchorProviderModule(cfg) == "remote" \in cfg.set /\ NewGitProvider(cfg)

\* NewSigstoreProviderModule and its NewProvider; the URL has a default.
NewSigstoreProvider(cfg) == "rekor_url" \notin cfg.bad

\* CreateTypedModule: the deferred types ethereum and aws_qldb are refused.
CreateTypedModule(cfg) ==
    /\ cfg.decodes
    /\ CASE cfg.type = "audit.ledger" -> NewLedgerModule(cfg)
         [] cfg.type = "audit.anchor_provider.opentimestamps" -> NewOpenTimestampsProvider(cfg)
         [] cfg.type = "audit.anchor_provider.git" -> NewGitAnchorProviderModule(cfg)
         [] cfg.type = "audit.anchor_provider.sigstore" -> NewSigstoreProvider(cfg)
         [] OTHER -> FALSE

\* The host creates module m from cfg, or is told why not and gives up; it also
\* gives up on a ledger whose Init will fail, as sql.Open refuses its DSN.
Create(m, cfg) ==
    /\ life[m] = "absent"
    /\ cfg.type = "audit.ledger" <=> m \in LedgerModules
    /\ life' = [life EXCEPT ![m] =
         IF ~CreateTypedModule(cfg) THEN "refused"
         ELSE IF "dsn" \in cfg.bad THEN "unopenable" ELSE "created"]
    /\ UNCHANGED <<careful, registries, pools, step>>

-----------------------------------------------------------------------------
(* LedgerModule.                                                           *)

At(m, now, next) == life[m] = now /\ life' = [life EXCEPT ![m] = next]

\* A module on which a call of the host is under way or has taken effect.
Live(m) == life[m] \in {"opened", "ledger", "ready", "unledger", "closing"}

\* The host's calls on m: with a careful host a name belongs to one module at a
\* time, from the call of Init to the return of Stop.
MayCall(m) ==
    careful => \A o \in Modules \ {m} : NameOf[o] = NameOf[m] => ~Live(o)

\* Mistake: Init does not ask whether it has run already.
OpenPoolAgain(m) ==
    /\ life[m] \in {"created", "ready", "stopped"}
    /\ MayCall(m)
    /\ opened[m] < MaxPools
    /\ LET pool == <<m, opened[m] + 1>> IN
         /\ db' = [db EXCEPT ![m] = pool]
         /\ open' = open \cup {pool}
    /\ opened' = [opened EXCEPT ![m] = @ + 1]
    /\ life' = [life EXCEPT ![m] = "opened"]
    /\ UNCHANGED <<careful, registries, step>>

\* Init: sql.Open, unless the module has a pool already; also after Stop, which
\* leaves m.db set.
OpenPool(m) ==
    /\ life[m] \in {"created", "ready", "stopped"}
    /\ MayCall(m)
    /\ db[m] = None
    /\ opened[m] < MaxPools
    /\ LET pool == <<m, opened[m] + 1>> IN
         /\ db' = [db EXCEPT ![m] = pool]
         /\ open' = open \cup {pool}
    /\ opened' = [opened EXCEPT ![m] = @ + 1]
    /\ life' = [life EXCEPT ![m] = "opened"]
    /\ UNCHANGED <<careful, registries, step>>

\* ... RegisterLedger ...
RegisterLedger(m) ==
    /\ At(m, "opened", "ledger")
    /\ ledgerRegistry' = [ledgerRegistry EXCEPT ![NameOf[m]] = db[m]]
    /\ UNCHANGED <<careful, dbRegistry, anchorProviderRegistry, pools, step>>

\* Mistake: Init registers the appender only.
RegisterDBForgotten(m) ==
    /\ At(m, "ledger", "ready")
    /\ UNCHANGED <<careful, registries, pools, step>>

\* ... and RegisterDB.
RegisterDB(m) ==
    /\ At(m, "ledger", "ready")
    /\ dbRegistry' = [dbRegistry EXCEPT ![NameOf[m]] = db[m]]
    /\ UNCHANGED <<careful, ledgerRegistry, anchorProviderRegistry, pools, step>>

\* Stop, also of a module that was never initialised: UnregisterLedger ...
UnregisterLedger(m) ==
    /\ life[m] \in {"unopenable", "created", "ready"}
    /\ MayCall(m)
    /\ life' = [life EXCEPT ![m] = "unledger"]
    /\ ledgerRegistry' = [ledgerRegistry EXCEPT ![NameOf[m]] = None]
    /\ UNCHANGED <<careful, dbRegistry, anchorProviderRegistry, pools, step>>

\* Mistake: only one registry is cleared.
UnregisterDBForgotten(m) ==
    /\ At(m, "unledger", "closing")
    /\ UNCHANGED <<careful, registries, pools, step>>

\* ... UnregisterDB ...
UnregisterDB(m) ==
    /\ At(m, "unledger", "closing")
    /\ dbRegistry' = [dbRegistry EXCEPT ![NameOf[m]] = None]
    /\ UNCHANGED <<careful, ledgerRegistry, anchorProviderRegistry, pools, step>>

\* Mistake: Stop leaves the pool open.
ClosePoolForgotten(m) ==
    /\ At(m, "closing", "stopped")
    /\ UNCHANGED <<careful, registries, pools, step>>

\* ... and db.Close, if there is a pool.
ClosePool(m) ==
    /\ At(m, "closing", "stopped")
    /\ open' = open \ {db[m]}
    /\ UNCHANGED <<careful, registries, db, opened, step>>

-----------------------------------------------------------------------------
(* anchorProviderModule: Init may be called again, also after Stop.        *)

RegisterAnchorProvider(m) ==
    /\ life[m] \in {"created", "stopped"}
    /\ MayCall(m)
    /\ life' = [life EXCEPT ![m] = "ready"]
    /\ anchorProviderRegistry' = [anchorProviderRegistry EXCEPT ![NameOf[m]] = m]
    /\ UNCHANGED <<careful, ledgerRegistry, dbRegistry, pools, step>>

UnregisterAnchorProvider(m) ==
    /\ life[m] \in {"created", "ready"}
    /\ MayCall(m)
    /\ life' = [life EXCEPT ![m] = "stopped"]
    /\ anchorProviderRegistry' = [anchorProviderRegistry EXCEPT ![NameOf[m]] = None]
    /\ UNCHANGED <<careful, ledgerRegistry, dbRegistry, pools, step>>

-----------------------------------------------------------------------------
(* Steps.                                                                  *)

\* StepTypes: what the plugin advertises.
StepTypes == {"append", "verify", "merkle_root", "anchor",
              "poll_anchor_confirmation", "proof", "public_receipt"}

\* stepFactories, with the registries each handler looks into: append in the
\* ledgers, every other one in the databases, two of them also in the providers.
StepFactories ==
    << [type |-> "append",                   ledger |-> TRUE,  provider |-> FALSE],
       [type |-> "verify",                   ledger |-> FALSE, provider |-> FALSE],
       [type |-> "merkle_root",              ledger |-> FALSE, provider |-> FALSE],
       [type |-> "anchor",                   ledger |-> FALSE, provider |-> TRUE],
       [type |-> "poll_anchor_confirmation", ledger |-> FALSE, provider |-> TRUE],
       [type |-> "proof",                    ledger |-> FALSE, provider |-> FALSE],
       [type |-> "public_receipt",           ledger |-> FALSE, provider |-> FALSE] >>

\* CreateTypedStep: the first factory that does not decline.
CreateTypedStep(type) ==
    LET able == {n \in 1..Len(StepFactories) : StepFactories[n].type = type}
    IN  StepFactories[CHOOSE n \in able : \A o \in able : n <= o]

Go(s, q) ==
    /\ step' = [step EXCEPT ![s] = q]
    /\ UNCHANGED <<careful, registries, life, pools>>

GetLedger(n)         == ledgerRegistry[n]
GetDB(n)             == dbRegistry[n]
GetAnchorProvider(i) == anchorProviderRegistry[i]

\* A step is called for ledger name n and provider name i, with its required
\* fields set.
CallStep(s, type, n, i) ==
    /\ step[s] = Idle
    /\ Go(s, [pc |-> "called", needs |-> CreateTypedStep(type), ledger |-> n, instance |-> i])

\* Mistake: the handler ignores whether the name is registered.
FindLedgerUnchecked(s) ==
    /\ step[s].pc = "called"
    /\ LET q == step[s]
       IN  Go(s, [pc |-> IF q.needs.provider THEN "found" ELSE "running",
                  pool |-> IF q.needs.ledger THEN GetLedger(q.ledger) ELSE GetDB(q.ledger),
                  instance |-> q.instance])

\* AppendHandler asks for the Appender, the others for the database.
FindLedger(s) ==
    /\ step[s].pc = "called"
    /\ LET q    == step[s]
           pool == IF q.needs.ledger THEN GetLedger(q.ledger) ELSE GetDB(q.ledger)
       IN  Go(s, IF pool = None THEN [pc |-> "not registered"]
                 ELSE [pc |-> IF q.needs.provider THEN "found" ELSE "running",
                       pool |-> pool, instance |-> q.instance])

\* ... and then anchor and poll for the provider.
FindProvider(s) ==
    /\ step[s].pc = "found"
    /\ Go(s, IF GetAnchorProvider(step[s].instance) = None
             THEN [pc |-> "not registered"]
             ELSE [step[s] EXCEPT !.pc = "running"])

\* The handler's statements on the pool it found: Append, or a query.
UsePool(s) ==
    /\ step[s].pc = "running"
    /\ Go(s, [pc |-> IF step[s].pool \in open THEN "answered" ELSE "closed",
              pool |-> step[s].pool])

FinishStep(s) ==
    /\ step[s].pc \in {"not registered", "answered", "closed"}
    /\ Go(s, Idle)

-----------------------------------------------------------------------------
LedgerStep(m) ==
    \/ OpenPool(m) \/ RegisterLedger(m) \/ RegisterDB(m)
    \/ UnregisterLedger(m) \/ UnregisterDB(m) \/ ClosePool(m)

ProviderStep(m) == RegisterAnchorProvider(m) \/ UnregisterAnchorProvider(m)

StepStep(s) ==
    \/ \E type \in StepTypes, l \in LedgerModules, p \in ProviderModules :
         CallStep(s, type, NameOf[l], NameOf[p])
    \/ FindLedger(s) \/ FindProvider(s) \/ UsePool(s) \/ FinishStep(s)

Next ==
    \/ \E m \in Modules, cfg \in Configs : Create(m, cfg)
    \/ \E m \in LedgerModules : LedgerStep(m)
    \/ \E m \in ProviderModules : ProviderStep(m)
    \/ \E s \in Steps : StepStep(s)

Spec == Init /\ [][Next]_vars

-----------------------------------------------------------------------------
(* Properties.                                                             *)

\* What a step can hold.
StepStates ==
    {Idle} \cup [pc : {"called"}, needs : ToSet(StepFactories), ledger : Names, instance : Names]
           \cup [pc : {"found", "running"}, pool : Pools, instance : Names]
           \cup [pc : {"not registered"}]
           \cup [pc : {"answered", "closed"}, pool : Pools]

\* Types of the registries, of the modules and of what each step holds.
TypeOK ==
    /\ careful \in BOOLEAN
    /\ ledgerRegistry \in [Names -> Pools \cup {None}]
    /\ dbRegistry \in [Names -> Pools \cup {None}]
    /\ anchorProviderRegistry \in [Names -> ProviderModules \cup {None}]
    /\ life \in [Modules -> {"absent", "refused", "unopenable", "created", "opened",
                            "ledger", "ready", "unledger", "closing", "stopped"}]
    /\ db \in [LedgerModules -> Pools \cup {None}]
    /\ opened \in [LedgerModules -> 0..MaxPools]
    /\ open \subseteq Pools
    /\ step \in [Steps -> StepStates]

\* No lookup ever returns a pool that is closed already, at whichever point of Init
\* or Stop it comes, even where two modules share a partition name and take each
\* other's entries away: Stop closes its pool last.
LookupsAreLive ==
    \A n \in Names : {ledgerRegistry[n], dbRegistry[n]} \subseteq open \cup {None}

\* A module that is up is found under its name, in both registries alike, so that
\* every step that names it gets its pool; likewise a provider.  Needs a host that
\* does not start a module before the other one of that name has stopped.
ReadyIsServed ==
    \A m \in Modules : life[m] = "ready" /\ careful =>
        IF m \in LedgerModules
        THEN ledgerRegistry[NameOf[m]] = db[m] /\ dbRegistry[NameOf[m]] = db[m]
        ELSE anchorProviderRegistry[NameOf[m]] = m

\* No pool is lost: every open pool is the one its module will close when it is
\* stopped ("Returns an error if called more than once to prevent connection pool
\* leaks", ledger.go).
NoPoolLeaks ==
    \A q \in open : db[q[1]] = q /\ life[q[1]] # "stopped"

\* The pools that steps under way have looked up.
Held == {step[s].pool : s \in {t \in Steps : step[t].pc \in {"found", "running"}}}

\* Two steps that name the same ledger never work on two open pools at a time, one
\* appending to one database while the other verifies another, even if the ledger
\* was replaced between their lookups (with a careful host).
OneDatabaseAtATime ==
    \A q, r \in Held \cap open :
        NameOf[q[1]] = NameOf[r[1]] /\ careful => q = r
=============================================================================
