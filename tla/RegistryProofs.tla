--------------------------- MODULE RegistryProofs ---------------------------
(***************************************************************************)
(* Proofs about Registry for every set of modules, names, configurations   *)
(* and steps, and any number of pools.                                     *)
(***************************************************************************)
EXTENDS Registry, TLAPS

-----------------------------------------------------------------------------
(* Type correctness.                                                       *)

\* The name of a module is a name.
LEMMA NameType == \A m \in Modules : NameOf[m] \in Names
  BY DEF Names

\* The first pool of a module, or the next, is a pool.
LEMMA PoolType ==
  ASSUME NEW m \in LedgerModules, NEW n \in 0..MaxPools, n < MaxPools
  PROVE  /\ <<m, n + 1>> \in Pools
         /\ n + 1 \in 0..MaxPools
         /\ <<m, n + 1>> # None
  BY PoolAssumption DEF Pools

\* CreateTypedStep finds a factory for every advertised step type.
LEMMA FactoryType ==
  ASSUME NEW type \in StepTypes
  PROVE  CreateTypedStep(type) \in ToSet(StepFactories)
<1> DEFINE able == {n \in 1..Len(StepFactories) : StepFactories[n].type = type}
<1>1. Len(StepFactories) = 7 /\ DOMAIN StepFactories = 1..7
  BY DEF StepFactories
<1>2. \E n \in able : \A o \in able : n <= o
  <2>1. \E n \in 1..7 : able = {n}
    BY <1>1 DEF StepTypes, StepFactories
  <2>2. QED
    BY <2>1
<1>3. (CHOOSE n \in able : \A o \in able : n <= o) \in 1..7
  BY <1>1, <1>2
<1>4. QED
  BY <1>1, <1>3 DEF CreateTypedStep, ToSet

\* What a handler takes from its own record is there and has its type.
LEMMA StepShape ==
  ASSUME NEW q \in StepStates
  PROVE  /\ q.pc = "called" => q.ledger \in Names /\ q.instance \in Names
         /\ q.pc = "found" => [q EXCEPT !.pc = "running"] \in StepStates
         /\ q.pc = "running" => q.pool \in Pools
<1>1. CASE q = Idle
  BY <1>1 DEF Idle
<1>2. CASE q \in [pc : {"called"}, needs : ToSet(StepFactories), ledger : Names,
                  instance : Names]
  BY <1>2
<1>3. CASE q \in [pc : {"found", "running"}, pool : Pools, instance : Names]
  <2>1. [q EXCEPT !.pc = "running"]
          \in [pc : {"found", "running"}, pool : Pools, instance : Names]
    BY <1>3
  <2>2. QED
    BY <1>3, <2>1 DEF StepStates
<1>4. CASE q \in [pc : {"not registered"}]
  BY <1>4
<1>5. CASE q \in [pc : {"answered", "closed"}, pool : Pools]
  BY <1>5
<1>6. QED
  BY <1>1, <1>2, <1>3, <1>4, <1>5 DEF StepStates

\* Nothing is registered, open or in use to begin with.
LEMMA TypeInit == Init => TypeOK
  BY PoolAssumption DEF Init, TypeOK, StepStates, Idle

\* Every step of the host and of the handlers keeps the types.
LEMMA TypeStep == TypeOK /\ [Next]_vars => TypeOK'
<1> SUFFICES ASSUME TypeOK, [Next]_vars PROVE TypeOK'
  OBVIOUS
<1> USE DEF TypeOK, registries, pools
<1>1. CASE UNCHANGED vars
  BY <1>1 DEF vars
<1>2. ASSUME NEW m \in Modules, NEW cfg \in Configs, Create(m, cfg) PROVE TypeOK'
  BY <1>2 DEF Create
<1>3. ASSUME NEW m \in LedgerModules, OpenPool(m) PROVE TypeOK'
  BY <1>3, PoolType DEF OpenPool
<1>4. ASSUME NEW m \in LedgerModules, RegisterLedger(m) PROVE TypeOK'
  BY <1>4 DEF RegisterLedger, At
<1>5. ASSUME NEW m \in LedgerModules, RegisterDB(m) PROVE TypeOK'
  BY <1>5 DEF RegisterDB, At
<1>6. ASSUME NEW m \in LedgerModules, UnregisterLedger(m) PROVE TypeOK'
  BY <1>6 DEF UnregisterLedger
<1>7. ASSUME NEW m \in LedgerModules, UnregisterDB(m) PROVE TypeOK'
  BY <1>7 DEF UnregisterDB, At
<1>8. ASSUME NEW m \in LedgerModules, ClosePool(m) PROVE TypeOK'
  BY <1>8 DEF ClosePool, At
<1>9. ASSUME NEW m \in ProviderModules, RegisterAnchorProvider(m) PROVE TypeOK'
  BY <1>9 DEF RegisterAnchorProvider
<1>10. ASSUME NEW m \in ProviderModules, UnregisterAnchorProvider(m) PROVE TypeOK'
  BY <1>10 DEF UnregisterAnchorProvider
<1>11. ASSUME NEW s \in Steps, NEW q \in StepStates, Go(s, q) PROVE TypeOK'
  BY <1>11 DEF Go
<1>12. ASSUME NEW s \in Steps, StepStep(s) PROVE \E q \in StepStates : Go(s, q)
  <2>1. ASSUME NEW type \in StepTypes, NEW l \in LedgerModules, NEW p \in ProviderModules,
               CallStep(s, type, NameOf[l], NameOf[p])
        PROVE  \E q \in StepStates : Go(s, q)
    <3>1. NameOf[l] \in Names /\ NameOf[p] \in Names
      BY NameType DEF Modules
    <3>2. [pc |-> "called", needs |-> CreateTypedStep(type), ledger |-> NameOf[l],
           instance |-> NameOf[p]] \in StepStates
      BY <3>1, FactoryType DEF StepStates
    <3>3. QED
      BY <2>1, <3>2 DEF CallStep
  <2>2. CASE FindLedger(s)
    <3> DEFINE q    == step[s]
               pool == IF q.needs.ledger THEN GetLedger(q.ledger) ELSE GetDB(q.ledger)
    <3>1. q \in StepStates /\ q.pc = "called"
      BY <2>2 DEF FindLedger
    <3>2. q.ledger \in Names /\ q.instance \in Names
      BY <3>1, StepShape
    <3>3. pool \in Pools \cup {None}
      BY <3>2 DEF GetLedger, GetDB
    <3> HIDE DEF pool
    <3>4. CASE pool = None
      <4>1. [pc |-> "not registered"] \in StepStates
        BY DEF StepStates
      <4>2. QED
        BY <2>2, <3>4, <4>1 DEF FindLedger, pool
    <3>5. CASE pool # None
      <4>1. [pc |-> IF q.needs.provider THEN "found" ELSE "running",
             pool |-> pool, instance |-> q.instance] \in StepStates
        BY <3>2, <3>3, <3>5 DEF StepStates
      <4>2. QED
        BY <2>2, <3>5, <4>1 DEF FindLedger, pool
    <3>6. QED
      BY <3>4, <3>5
  <2>3. CASE FindProvider(s)
    <3>1. step[s] \in StepStates /\ step[s].pc = "found"
      BY <2>3 DEF FindProvider
    <3>2. [step[s] EXCEPT !.pc = "running"] \in StepStates
      BY <3>1, StepShape
    <3>3. [pc |-> "not registered"] \in StepStates
      BY DEF StepStates
    <3>4. QED
      BY <2>3, <3>2, <3>3 DEF FindProvider
  <2>4. CASE UsePool(s)
    <3>1. step[s] \in StepStates /\ step[s].pc = "running"
      BY <2>4 DEF UsePool
    <3>2. step[s].pool \in Pools
      BY <3>1, StepShape
    <3>3. [pc |-> IF step[s].pool \in open THEN "answered" ELSE "closed",
           pool |-> step[s].pool] \in StepStates
      BY <3>2 DEF StepStates
    <3>4. QED
      BY <2>4, <3>3 DEF UsePool
  <2>5. CASE FinishStep(s)
    BY <2>5 DEF FinishStep, StepStates
  <2>6. QED
    BY <1>12, <2>1, <2>2, <2>3, <2>4, <2>5 DEF StepStep
<1>13. QED
  BY <1>1, <1>2, <1>3, <1>4, <1>5, <1>6, <1>7, <1>8, <1>9, <1>10, <1>11, <1>12
  DEF Next, LedgerStep, ProviderStep

\* Type correctness: every reachable state of the registries, the modules and the
\* steps under way has its type, so a step that runs always holds a pool.
THEOREM TypeCorrect == Spec => []TypeOK
<1>1. QED
  BY TypeInit, TypeStep, PTL DEF Spec

-----------------------------------------------------------------------------
(* Pools.  Where a module stands says where its pool is and which registry *)
(* has it, whatever other modules of the name do.                          *)

\* A pool belongs to its module, is open from sql.Open to db.Close, and only then.
PoolOwned ==
    /\ \A m \in LedgerModules :
         /\ db[m] # None => db[m][1] = m
         /\ life[m] \in {"absent", "refused", "unopenable", "created"} => db[m] = None
         /\ life[m] \in {"opened", "ledger", "ready"} => db[m] \in open
         /\ life[m] \in {"unledger", "closing"} => db[m] \in open \cup {None}
    /\ \A q \in open : db[q[1]] = q /\ Live(q[1])

\* A registry entry is the pool of a module that is between its registration and
\* the removal of that entry.
EntriesOwned ==
    \A n \in Names :
        /\ ledgerRegistry[n] # None =>
             /\ db[ledgerRegistry[n][1]] = ledgerRegistry[n]
             /\ NameOf[ledgerRegistry[n][1]] = n
             /\ life[ledgerRegistry[n][1]] \in {"ledger", "ready"}
        /\ dbRegistry[n] # None =>
             /\ db[dbRegistry[n][1]] = dbRegistry[n]
             /\ NameOf[dbRegistry[n][1]] = n
             /\ life[dbRegistry[n][1]] \in {"ready", "unledger"}

\* With a careful host at most one module of a name is live, and the registries
\* have what it has put there.
OneAtATime ==
    careful =>
        /\ \A m, o \in Modules : Live(m) /\ Live(o) /\ NameOf[m] = NameOf[o] => m = o
        /\ \A m \in LedgerModules :
             /\ life[m] \in {"ledger", "ready"} => ledgerRegistry[NameOf[m]] = db[m]
             /\ life[m] = "ready" => dbRegistry[NameOf[m]] = db[m]
        /\ \A m \in ProviderModules :
             life[m] = "ready" => anchorProviderRegistry[NameOf[m]] = m

IndInv == TypeOK /\ PoolOwned /\ EntriesOwned /\ OneAtATime

\* The owner of a pool is a ledger module.
LEMMA PoolOwner ==
  /\ \A q \in Pools : q[1] \in LedgerModules /\ q # None
  /\ \A m \in LedgerModules : m \in Modules /\ m \notin ProviderModules
  BY PoolAssumption, ModuleAssumption DEF Pools, Modules

\* No module has been created to begin with.
LEMMA IndInit == Init => IndInv
<1> SUFFICES ASSUME Init PROVE PoolOwned /\ EntriesOwned /\ OneAtATime
  BY TypeInit DEF IndInv
<1>1. \A m \in Modules : life[m] = "absent" /\ ~Live(m)
  BY DEF Init, Live
<1>2. QED
  BY <1>1, PoolOwner DEF Init, PoolOwned, EntriesOwned, OneAtATime, Modules

\* The parts of the invariant that are to be shown of every step.
Kept == PoolOwned' /\ EntriesOwned' /\ OneAtATime'

\* Where no other module of m's name is live, a call of the host on m only has to
\* see to the entries of m itself.
LEMMA OnlyOneTouched ==
  ASSUME IndInv, TypeOK', NEW m \in LedgerModules,
         UNCHANGED <<careful, anchorProviderRegistry>>,
         careful => \A o \in Modules : o # m /\ NameOf[o] = NameOf[m] => ~Live(o),
         \A o \in Modules : o # m => life'[o] = life[o],
         \A o \in LedgerModules : o # m => db'[o] = db[o],
         \A n \in Names : n # NameOf[m] => /\ ledgerRegistry'[n] = ledgerRegistry[n]
                                         /\ dbRegistry'[n] = dbRegistry[n],
         life'[m] \in {"ledger", "ready"} => ledgerRegistry'[NameOf[m]] = db'[m],
         life'[m] = "ready" => dbRegistry'[NameOf[m]] = db'[m]
  PROVE  OneAtATime'
<1> SUFFICES ASSUME careful
             PROVE  /\ \A k, o \in Modules :
                         Live(k)' /\ Live(o)' /\ NameOf[k] = NameOf[o] => k = o
                    /\ \A k \in LedgerModules :
                         /\ life'[k] \in {"ledger", "ready"} => ledgerRegistry'[NameOf[k]] = db'[k]
                         /\ life'[k] = "ready" => dbRegistry'[NameOf[k]] = db'[k]
                    /\ \A k \in ProviderModules :
                         life'[k] = "ready" => anchorProviderRegistry'[NameOf[k]] = k
  BY DEF OneAtATime
<1>1. \A o \in Modules : o # m => (Live(o)' <=> Live(o))
  BY DEF Live
<1>2. ASSUME NEW k \in Modules, NEW o \in Modules, Live(k)', Live(o)', NameOf[k] = NameOf[o]
      PROVE  k = o
  BY <1>1, <1>2 DEF IndInv, OneAtATime
<1>3. ASSUME NEW k \in LedgerModules
      PROVE  /\ life'[k] \in {"ledger", "ready"} => ledgerRegistry'[NameOf[k]] = db'[k]
             /\ life'[k] = "ready" => dbRegistry'[NameOf[k]] = db'[k]
  <2>1. CASE k = m
    BY <2>1
  <2>2. CASE k # m
    <3>1. k \in Modules /\ NameOf[k] \in Names /\ life'[k] = life[k] /\ db'[k] = db[k]
      BY <2>2, PoolOwner, NameType
    <3>2. life[k] \in {"ledger", "ready"} => Live(k)
      BY DEF Live
    <3>3. life[k] \in {"ledger", "ready"} => NameOf[k] # NameOf[m]
      BY <2>2, <3>1, <3>2
    <3>4. QED
      BY <3>1, <3>3 DEF IndInv, OneAtATime
  <2>3. QED
    BY <2>1, <2>2
<1>4. ASSUME NEW k \in ProviderModules, life'[k] = "ready"
      PROVE  anchorProviderRegistry'[NameOf[k]] = k
  BY <1>4, PoolOwner DEF IndInv, OneAtATime, Modules
<1>5. QED
  BY <1>2, <1>3, <1>4

\* A live module is the only one of its name.
LEMMA OnlyOneLive ==
  ASSUME IndInv, NEW m \in LedgerModules, Live(m)
  PROVE  careful => \A o \in Modules : o # m /\ NameOf[o] = NameOf[m] => ~Live(o)
  BY PoolOwner DEF IndInv, OneAtATime

\* A module is created, or not: it has nothing, and was not live.
LEMMA CreateStep ==
  ASSUME IndInv, TypeOK', NEW m \in Modules, NEW cfg \in Configs, Create(m, cfg)
  PROVE  Kept
<1> USE DEF IndInv, TypeOK, registries, pools
<1>1. /\ life[m] = "absent"
      /\ life'[m] \in {"refused", "unopenable", "created"}
      /\ \A o \in Modules : o # m => life'[o] = life[o]
      /\ UNCHANGED <<careful, ledgerRegistry, dbRegistry, anchorProviderRegistry,
                     db, opened, open, step>>
  BY DEF Create
<1>2. \A o \in Modules : Live(o)' <=> Live(o)
  BY <1>1 DEF Live
<1>3. PoolOwned'
  BY <1>1, <1>2, PoolOwner DEF PoolOwned
<1>4. EntriesOwned'
  BY <1>1, PoolOwner DEF EntriesOwned
<1>5. OneAtATime'
  BY <1>1, <1>2 DEF OneAtATime, Modules
<1>6. QED
  BY <1>3, <1>4, <1>5 DEF Kept

\* sql.Open: the module had no pool, so the new one is the only one it has.
LEMMA OpenStep ==
  ASSUME IndInv, TypeOK', NEW m \in LedgerModules, OpenPool(m)
  PROVE  Kept
<1> USE DEF IndInv, TypeOK, registries, pools
<1> DEFINE pool == <<m, opened[m] + 1>>
<1>1. /\ life[m] \in {"created", "ready", "stopped"} /\ life'[m] = "opened"
      /\ \A o \in Modules : o # m => life'[o] = life[o]
      /\ MayCall(m)
      /\ db[m] = None /\ db'[m] = pool
      /\ \A o \in LedgerModules : o # m => db'[o] = db[o]
      /\ open' = open \cup {pool}
      /\ UNCHANGED <<careful, ledgerRegistry, dbRegistry, anchorProviderRegistry, step>>
  BY PoolOwner DEF OpenPool
<1>2. pool \in Pools /\ pool # None /\ pool[1] = m
  BY PoolType DEF OpenPool
<1> HIDE DEF pool
<1>3. Live(m)' /\ \A o \in Modules : o # m => (Live(o)' <=> Live(o))
  BY <1>1 DEF Live
<1>4. \A q \in open : q[1] # m
  BY <1>1, PoolOwner DEF PoolOwned
<1>5. PoolOwned'
  <2>1. ASSUME NEW o \in LedgerModules
        PROVE  /\ db'[o] # None => db'[o][1] = o
               /\ life'[o] \in {"absent", "refused", "unopenable", "created"} => db'[o] = None
               /\ life'[o] \in {"opened", "ledger", "ready"} => db'[o] \in open'
               /\ life'[o] \in {"unledger", "closing"} => db'[o] \in open' \cup {None}
    BY <1>1, <1>2, PoolOwner DEF PoolOwned
  <2>2. ASSUME NEW q \in open' PROVE db'[q[1]] = q /\ Live(q[1])'
    BY <1>1, <1>2, <1>3, <1>4, PoolOwner DEF PoolOwned
  <2>3. QED
    BY <2>1, <2>2 DEF PoolOwned
<1>6. EntriesOwned'
  BY <1>1, PoolOwner DEF EntriesOwned, PoolOwned
<1>7. OneAtATime'
  BY <1>1, <1>3, PoolOwner DEF OneAtATime, MayCall, Modules
<1>8. QED
  BY <1>5, <1>6, <1>7 DEF Kept

\* RegisterLedger: the entry is the module's own open pool.
LEMMA RegisterLedgerStep ==
  ASSUME IndInv, TypeOK', NEW m \in LedgerModules, RegisterLedger(m)
  PROVE  Kept
<1> USE DEF IndInv, TypeOK, registries, pools
<1>1. /\ life[m] = "opened" /\ life'[m] = "ledger"
      /\ \A o \in Modules : o # m => life'[o] = life[o]
      /\ ledgerRegistry'[NameOf[m]] = db[m]
      /\ \A n \in Names : n # NameOf[m] => ledgerRegistry'[n] = ledgerRegistry[n]
      /\ UNCHANGED <<careful, dbRegistry, anchorProviderRegistry, db, opened, open, step>>
  BY PoolOwner, NameType DEF RegisterLedger, At
<1>2. \A o \in Modules : o # m => (Live(o)' <=> Live(o))
  BY <1>1 DEF Live
<1>3. Live(m) /\ Live(m)'
  BY <1>1 DEF Live
<1>4. PoolOwned'
  BY <1>1, <1>2, <1>3, PoolOwner DEF PoolOwned
<1>5. EntriesOwned'
  BY <1>1, PoolOwner DEF EntriesOwned, PoolOwned
<1>6. OneAtATime'
  BY <1>1, <1>3, OnlyOneLive, OnlyOneTouched
<1>7. QED
  BY <1>4, <1>5, <1>6 DEF Kept

\* RegisterDB: likewise.
LEMMA RegisterDBStep ==
  ASSUME IndInv, TypeOK', NEW m \in LedgerModules, RegisterDB(m)
  PROVE  Kept
<1> USE DEF IndInv, TypeOK, registries, pools
<1>1. /\ life[m] = "ledger" /\ life'[m] = "ready"
      /\ \A o \in Modules : o # m => life'[o] = life[o]
      /\ dbRegistry'[NameOf[m]] = db[m]
      /\ \A n \in Names : n # NameOf[m] => dbRegistry'[n] = dbRegistry[n]
      /\ UNCHANGED <<careful, ledgerRegistry, anchorProviderRegistry, db, opened, open, step>>
  BY PoolOwner, NameType DEF RegisterDB, At
<1>2. \A o \in Modules : o # m => (Live(o)' <=> Live(o))
  BY <1>1 DEF Live
<1>3. Live(m) /\ Live(m)'
  BY <1>1 DEF Live
<1>4. PoolOwned'
  BY <1>1, <1>2, <1>3, PoolOwner DEF PoolOwned
<1>5. EntriesOwned'
  BY <1>1, PoolOwner DEF EntriesOwned, PoolOwned
<1>6. OneAtATime'
  BY <1>1, <1>3, OnlyOneLive, OnlyOneTouched, PoolOwner DEF OneAtATime
<1>7. QED
  BY <1>4, <1>5, <1>6 DEF Kept

\* UnregisterLedger: a module with a pool leaves it in one registry only; one without
\* may take away the entry of another module of its name.
LEMMA UnregisterLedgerStep ==
  ASSUME IndInv, TypeOK', NEW m \in LedgerModules, UnregisterLedger(m)
  PROVE  Kept
<1> USE DEF IndInv, TypeOK, registries, pools
<1>1. /\ life[m] \in {"unopenable", "created", "ready"} /\ life'[m] = "unledger"
      /\ \A o \in Modules : o # m => life'[o] = life[o]
      /\ MayCall(m)
      /\ ledgerRegistry'[NameOf[m]] = None
      /\ \A n \in Names : n # NameOf[m] => ledgerRegistry'[n] = ledgerRegistry[n]
      /\ UNCHANGED <<careful, dbRegistry, anchorProviderRegistry, db, opened, open, step>>
  BY PoolOwner, NameType DEF UnregisterLedger
<1>2. \A o \in Modules : o # m => (Live(o)' <=> Live(o))
  BY <1>1 DEF Live
<1>3. Live(m)'
  BY <1>1 DEF Live
<1>4. PoolOwned'
  BY <1>1, <1>2, <1>3, PoolOwner DEF PoolOwned
<1>5. EntriesOwned'
  BY <1>1, PoolOwner DEF EntriesOwned, PoolOwned
<1>6. OneAtATime'
  BY <1>1, OnlyOneTouched DEF MayCall
<1>7. QED
  BY <1>4, <1>5, <1>6 DEF Kept

\* UnregisterDB: from here on no registry has the module's pool.
LEMMA UnregisterDBStep ==
  ASSUME IndInv, TypeOK', NEW m \in LedgerModules, UnregisterDB(m)
  PROVE  Kept
<1> USE DEF IndInv, TypeOK, registries, pools
<1>1. /\ life[m] = "unledger" /\ life'[m] = "closing"
      /\ \A o \in Modules : o # m => life'[o] = life[o]
      /\ dbRegistry'[NameOf[m]] = None
      /\ \A n \in Names : n # NameOf[m] => dbRegistry'[n] = dbRegistry[n]
      /\ UNCHANGED <<careful, ledgerRegistry, anchorProviderRegistry, db, opened, open, step>>
  BY PoolOwner, NameType DEF UnregisterDB, At
<1>2. \A o \in Modules : o # m => (Live(o)' <=> Live(o))
  BY <1>1 DEF Live
<1>3. Live(m) /\ Live(m)'
  BY <1>1 DEF Live
<1>4. PoolOwned'
  BY <1>1, <1>2, <1>3, PoolOwner DEF PoolOwned
<1>5. EntriesOwned'
  BY <1>1, PoolOwner DEF EntriesOwned, PoolOwned
<1>6. OneAtATime'
  BY <1>1, <1>3, OnlyOneLive, OnlyOneTouched
<1>7. QED
  BY <1>4, <1>5, <1>6 DEF Kept

\* db.Close: the pool is in no registry any more.
LEMMA CloseStep ==
  ASSUME IndInv, TypeOK', NEW m \in LedgerModules, ClosePool(m)
  PROVE  Kept
<1> USE DEF IndInv, TypeOK, registries, pools
<1>1. /\ life[m] = "closing" /\ life'[m] = "stopped"
      /\ \A o \in Modules : o # m => life'[o] = life[o]
      /\ open' = open \ {db[m]}
      /\ UNCHANGED <<careful, ledgerRegistry, dbRegistry, anchorProviderRegistry, db, opened, step>>
  BY PoolOwner, NameType DEF ClosePool, At
<1>2. \A o \in Modules : o # m => (Live(o)' <=> Live(o))
  BY <1>1 DEF Live
<1>3. \A q \in open' : q[1] # m
  BY <1>1, PoolOwner DEF PoolOwned
<1>4. \A o \in LedgerModules : o # m /\ db[o] \in open => db[o] \in open'
  BY <1>1, PoolOwner DEF PoolOwned
<1>5. PoolOwned'
  <2>1. ASSUME NEW o \in LedgerModules
        PROVE  /\ db'[o] # None => db'[o][1] = o
               /\ life'[o] \in {"absent", "refused", "unopenable", "created"} => db'[o] = None
               /\ life'[o] \in {"opened", "ledger", "ready"} => db'[o] \in open'
               /\ life'[o] \in {"unledger", "closing"} => db'[o] \in open' \cup {None}
    BY <1>1, <1>4, PoolOwner DEF PoolOwned
  <2>2. ASSUME NEW q \in open' PROVE db'[q[1]] = q /\ Live(q[1])'
    BY <1>1, <1>2, <1>3, PoolOwner DEF PoolOwned
  <2>3. QED
    BY <2>1, <2>2 DEF PoolOwned
<1>6. EntriesOwned'
  BY <1>1, PoolOwner DEF EntriesOwned
<1>7. OneAtATime'
  <2>1. Live(m)
    BY <1>1 DEF Live
  <2>2. QED
    BY <1>1, <2>1, OnlyOneLive, OnlyOneTouched
<1>8. QED
  BY <1>5, <1>6, <1>7 DEF Kept

\* Init and Stop of a provider module leave the ledgers alone.
LEMMA ProviderModuleStep ==
  ASSUME IndInv, TypeOK', NEW m \in ProviderModules, ProviderStep(m)
  PROVE  Kept
<1> USE DEF IndInv, TypeOK, registries, pools
<1>1. /\ m \in Modules /\ m \notin LedgerModules
      /\ MayCall(m)
      /\ \A o \in Modules : o # m => life'[o] = life[o]
      /\ UNCHANGED <<careful, ledgerRegistry, dbRegistry, db, opened, open, step>>
  BY PoolOwner DEF ProviderStep, RegisterAnchorProvider, UnregisterAnchorProvider, Modules
<1>2. /\ \A n \in Names : n # NameOf[m] => anchorProviderRegistry'[n] = anchorProviderRegistry[n]
      /\ \/ life'[m] = "ready" /\ anchorProviderRegistry'[NameOf[m]] = m
         \/ life'[m] = "stopped"
  BY <1>1, NameType DEF ProviderStep, RegisterAnchorProvider, UnregisterAnchorProvider
<1>3. \A o \in Modules : o # m => (Live(o)' <=> Live(o))
  BY <1>1 DEF Live
<1>4. PoolOwned'
  BY <1>1, <1>3, PoolOwner DEF PoolOwned
<1>5. EntriesOwned'
  BY <1>1, PoolOwner DEF EntriesOwned
<1>6. OneAtATime'
  BY <1>1, <1>2, <1>3, PoolOwner, NameType DEF OneAtATime, MayCall, Live, Modules
<1>7. QED
  BY <1>4, <1>5, <1>6 DEF Kept

\* Steps only read.
LEMMA HandlerStep ==
  ASSUME IndInv, NEW s \in Steps, StepStep(s)
  PROVE  Kept
<1>1. UNCHANGED <<careful, registries, life, pools>>
  BY DEF StepStep, CallStep, FindLedger, FindProvider, UsePool, FinishStep, Go
<1>2. QED
  BY <1>1 DEF IndInv, Kept, PoolOwned, EntriesOwned, OneAtATime, Live, registries, pools

\* Every step of the host and of the handlers keeps the invariant.
LEMMA IndStep == IndInv /\ [Next]_vars => IndInv'
<1> SUFFICES ASSUME IndInv, [Next]_vars PROVE Kept
  BY TypeStep DEF IndInv, Kept
<1>1. TypeOK'
  BY TypeStep DEF IndInv
<1>2. CASE UNCHANGED vars
  BY <1>2 DEF IndInv, Kept, PoolOwned, EntriesOwned, OneAtATime, Live, vars, registries, pools
<1>3. QED
  BY <1>1, <1>2, CreateStep, OpenStep, RegisterLedgerStep, RegisterDBStep,
     UnregisterLedgerStep, UnregisterDBStep, CloseStep, ProviderModuleStep, HandlerStep
  DEF Next, LedgerStep

\* The invariant holds throughout.
LEMMA IndCorrect == Spec => []IndInv
<1>1. QED
  BY IndInit, IndStep, PTL DEF Spec

-----------------------------------------------------------------------------
(* What follows.                                                           *)

\* Whatever the host does, and wherever in Init or Stop of whichever module of the
\* name it comes, GetLedger or GetDB never returns a pool that is closed.
THEOREM LookupsCorrect == Spec => []LookupsAreLive
<1>1. IndInv => LookupsAreLive
  BY PoolOwner DEF IndInv, TypeOK, PoolOwned, EntriesOwned, LookupsAreLive
<1>2. QED
  BY <1>1, IndCorrect, PTL

\* Init refuses to open a second pool and Stop closes the one it opened, so no
\* open pool is ever out of its module's reach.
THEOREM NoLeaks == Spec => []NoPoolLeaks
<1>1. IndInv => NoPoolLeaks
  BY DEF IndInv, PoolOwned, NoPoolLeaks, Live
<1>2. QED
  BY <1>1, IndCorrect, PTL

\* If the host never runs two modules of a name at a time, a module whose Init has
\* returned is found under its name by every lookup.
THEOREM ReadyCorrect == Spec => []ReadyIsServed
<1>1. IndInv => ReadyIsServed
  BY DEF IndInv, OneAtATime, ReadyIsServed, Modules
<1>2. QED
  BY <1>1, IndCorrect, PTL

\* ... and the steps under way work on at most one open pool of each ledger, also
\* those that looked it up before it was replaced.
THEOREM OneDatabaseCorrect == Spec => []OneDatabaseAtATime
<1>1. IndInv => OneDatabaseAtATime
  <2> SUFFICES ASSUME IndInv, NEW q \in open, NEW r \in open,
                      NameOf[q[1]] = NameOf[r[1]], careful
               PROVE  q = r
    BY DEF OneDatabaseAtATime
  <2>1. q[1] \in Modules /\ r[1] \in Modules
    BY PoolOwner DEF IndInv, TypeOK
  <2>2. Live(q[1]) /\ Live(r[1]) /\ db[q[1]] = q /\ db[r[1]] = r
    BY DEF IndInv, PoolOwned
  <2>3. q[1] = r[1]
    BY <2>1, <2>2 DEF IndInv, OneAtATime
  <2>4. QED
    BY <2>2, <2>3
<1>2. QED
  BY <1>1, IndCorrect, PTL
=============================================================================
