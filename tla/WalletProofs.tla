----------------------------- MODULE WalletProofs ----------------------------
(***************************************************************************)
(* Proofs about WalletStore for any accounts and passwords: after any      *)
(* calls, failures and crashes one password opens everything, the list is  *)
(* backed by the database, and the files implement the abstract vault.     *)
(* Then about PasswordCache, for any passwords, durations and handler      *)
(* threads, and any bounds on the clock; and about the Database the wallet *)
(* keeps its accounts in, for any threads, keys and values.                *)
(***************************************************************************)
EXTENDS WalletStore, PasswordCache, Database, TLAPS

\* Every variable keeps its type; in particular the list never holds an address a
\* negative number of times.
THEOREM TypeCorrect == Spec => []TypeOK
  <1>1. Init => TypeOK
    <2> SUFFICES ASSUME Init PROVE TypeOK
      OBVIOUS
    <2>1. call \in [op : Ops, pw : Passwords, addr : Accounts]
      BY WalletAssumption DEF Init, Ops
    <2>2. /\ infoPath \in BOOLEAN /\ isLoaded \in BOOLEAN
          /\ storageLock \in BOOLEAN /\ reloaded \in BOOLEAN
      BY Zenon DEF Init
    <2> QED BY <2>1, <2>2 DEF Init, TypeOK, Steps, Results
  <1>2. TypeOK /\ [Next]_vars => TypeOK'
    <2> SUFFICES ASSUME TypeOK, [Next]_vars PROVE TypeOK'
      OBVIOUS
    <2> USE WalletAssumption DEF TypeOK, Ops, Steps, Results, disk, memory
    <2>1. ASSUME NEW p \in Passwords, LoadBegin(p) \/ SeedBegin(p) PROVE TypeOK'
      <3>1. CASE LoadBegin(p)
        <4> DEFINE again == reloaded \/ (infoPath /\ \E a \in Accounts : listed[a] > 0)
        <4>1. again \in BOOLEAN
          OBVIOUS
        <4>2. reloaded' = again
          BY <3>1 DEF LoadBegin
        <4> HIDE DEF again
        <4>3. reloaded' \in BOOLEAN
          BY <4>1, <4>2
        <4>4. UNCHANGED <<disk, memory>> /\ pending' \in SUBSET Accounts
          BY <3>1 DEF LoadBegin, Stored
        <4>5. /\ call' \in [op : Ops, pw : Passwords, addr : Accounts]
              /\ pc' \in Steps /\ result' \in Results
          BY <3>1 DEF LoadBegin, Begin
        <4> QED BY <4>3, <4>4, <4>5
      <3>2. CASE SeedBegin(p)
        BY <3>2 DEF SeedBegin, Begin
      <3> QED BY <2>1, <3>1, <3>2
    <2>2. ASSUME NEW p \in Passwords, NEW a \in Accounts,
                 CreateBegin(p, a) \/ CreateFromSeedBegin(p, a) \/ ImportBegin(p, a)
          PROVE  TypeOK'
      BY <2>2 DEF CreateBegin, CreateFromSeedBegin, ImportBegin, Begin
    <2>3. ASSUME NEW p \in Passwords, NEW a \in Accounts, Sign(p, a) PROVE TypeOK'
      BY <2>3 DEF Sign
    <2>4. ASSUME NEW a \in Accounts, DeleteBegin(a) PROVE TypeOK'
      BY <2>4 DEF DeleteBegin, Begin
    <2>5. ASSUME NEW a \in Accounts, LoadOne(a) PROVE TypeOK'
      BY <2>5 DEF LoadOne
    <2>6. CASE LoadThrows
      BY <2>6 DEF LoadThrows, Return
    <2>7. CASE LoadPopulated
      BY <2>7 DEF LoadPopulated, Goto
    <2>8. CASE CreateDirs
      BY <2>8 DEF CreateDirs, Goto
    <2>9. CASE PutInfo
      BY <2>9 DEF PutInfo, Goto
    <2>10. CASE PutInfoFails
      BY <2>10 DEF PutInfoFails, Return
    <2>11. CASE OpenSeed
      BY <2>11 DEF OpenSeed, Goto
    <2>12. CASE WriteSeed
      BY <2>12 DEF WriteSeed, Goto
    <2>13. CASE Verify
      BY <2>13 DEF Verify, Return
    <2>14. CASE ReadSeed
      BY <2>14 DEF ReadSeed, Return, Goto
    <2>15. CASE ImportCheck
      BY <2>15 DEF ImportCheck, Return, Goto
    <2>16. CASE PutAccount
      BY <2>16 DEF PutAccount, Goto
    <2>17. CASE PutAccountFails
      BY <2>17 DEF PutAccountFails, Return, Goto
    <2>18. CASE Construct
      BY <2>18 DEF Construct, Return, Goto
    <2>19. CASE ConstructThrows
      BY <2>19 DEF ConstructThrows, Return
    <2>20. CASE DeleteUnlist
      BY <2>20 DEF DeleteUnlist, Goto
    <2>21. CASE DbDelete
      BY <2>21 DEF DbDelete, Return
    <2>22. CASE DbDeleteFails
      BY <2>22 DEF DbDeleteFails, Return
    <2>23. CASE Crash
      BY <2>23 DEF Crash
    <2>24. CASE UNCHANGED vars
      BY <2>24 DEF vars
    <2> QED BY <2>1, <2>2, <2>3, <2>4, <2>5, <2>6, <2>7, <2>8, <2>9, <2>10, <2>11,
             <2>12, <2>13, <2>14, <2>15, <2>16, <2>17, <2>18, <2>19, <2>20, <2>21,
             <2>22, <2>23, <2>24
             DEF Next, CallBegin, CallStep
  <1> QED BY <1>1, <1>2, PTL DEF Spec

\* One password opens the seed, every stored key and the session, because walletInfo
\* is written before them all and never again.
LEMMA OnePasswordInductive == Spec => [](OnePassword /\ WalletInfoFirst)
  <1> DEFINE Inv == OnePassword /\ WalletInfoFirst
  <1>1. Init => Inv
    BY DEF Init, OnePassword, WalletInfoFirst
  <1>2. TypeOK /\ Inv /\ [Next]_vars => Inv'
    <2> SUFFICES ASSUME TypeOK, Inv, [Next]_vars PROVE Inv'
      OBVIOUS
    <2> USE WalletAssumption DEF TypeOK, OnePassword, WalletInfoFirst, disk, memory
    <2>1. ASSUME NEW p \in Passwords, LoadBegin(p) \/ SeedBegin(p) PROVE Inv'
      BY <2>1 DEF LoadBegin, SeedBegin, Begin
    <2>2. ASSUME NEW p \in Passwords, NEW a \in Accounts,
                 CreateBegin(p, a) \/ CreateFromSeedBegin(p, a) \/ ImportBegin(p, a)
          PROVE  Inv'
      BY <2>2 DEF CreateBegin, CreateFromSeedBegin, ImportBegin, Begin
    <2>3. ASSUME NEW p \in Passwords, NEW a \in Accounts, Sign(p, a) PROVE Inv'
      BY <2>3 DEF Sign
    <2>4. ASSUME NEW a \in Accounts, DeleteBegin(a) PROVE Inv'
      BY <2>4 DEF DeleteBegin, Begin
    <2>5. ASSUME NEW a \in Accounts, LoadOne(a) PROVE Inv'
      BY <2>5 DEF LoadOne
    <2>6. CASE LoadThrows
      BY <2>6 DEF LoadThrows, Return
    <2>7. CASE LoadPopulated
      BY <2>7 DEF LoadPopulated, Goto
    <2>8. CASE CreateDirs
      BY <2>8 DEF CreateDirs, Goto
    <2>9. CASE PutInfo
      <3>1. info = NoPassword /\ info' = call.pw /\ call' = call /\ pc' = "openSeed"
        BY <2>9 DEF PutInfo, Goto
      <3>2. UNCHANGED <<infoPath, seed, accounts, passHash>>
        BY <2>9 DEF PutInfo
      <3>3. call.pw \in Passwords
        OBVIOUS
      <3>4. seed \in {Absent, Blank} /\ passHash = NoPassword
        BY <3>1
      <3>5. \A a \in Accounts : accounts[a] = NoPassword
        BY <3>1
      <3>6. OnePassword'
        BY <3>1, <3>2, <3>4, <3>5
      <3>7. infoPath
        BY <2>9 DEF PutInfo
      <3> QED BY <3>1, <3>2, <3>6, <3>7
    <2>10. CASE PutInfoFails
      BY <2>10 DEF PutInfoFails, Return
    <2>11. CASE OpenSeed
      BY <2>11 DEF OpenSeed, Goto
    <2>12. CASE WriteSeed
      BY <2>12 DEF WriteSeed, Goto
    <2>13. CASE Verify
      BY <2>13 DEF Verify, Return
    <2>14. CASE ReadSeed
      BY <2>14 DEF ReadSeed, Return, Goto
    <2>15. CASE ImportCheck
      BY <2>15 DEF ImportCheck, Return, Goto
    <2>16. CASE PutAccount
      BY <2>16 DEF PutAccount, Goto
    <2>17. CASE PutAccountFails
      BY <2>17 DEF PutAccountFails, Return, Goto
    <2>18. CASE Construct
      BY <2>18 DEF Construct, Return, Goto
    <2>19. CASE ConstructThrows
      BY <2>19 DEF ConstructThrows, Return
    <2>20. CASE DeleteUnlist
      BY <2>20 DEF DeleteUnlist, Goto
    <2>21. CASE DbDelete
      BY <2>21 DEF DbDelete, Return
    <2>22. CASE DbDeleteFails
      BY <2>22 DEF DbDeleteFails, Return
    <2>23. CASE Crash
      BY <2>23 DEF Crash
    <2>24. CASE UNCHANGED vars
      BY <2>24 DEF vars
    <2> QED BY <2>1, <2>2, <2>3, <2>4, <2>5, <2>6, <2>7, <2>8, <2>9, <2>10, <2>11,
             <2>12, <2>13, <2>14, <2>15, <2>16, <2>17, <2>18, <2>19, <2>20, <2>21,
             <2>22, <2>23, <2>24
             DEF Next, CallBegin, CallStep
  <1> QED BY <1>1, <1>2, TypeCorrect, PTL DEF Spec

THEOREM OnePasswordAlways == Spec => []OnePassword
  BY OnePasswordInductive, PTL

\* The list shows each address once, backed by a stored key, until loadWallet runs
\* on a list that is not empty.
THEOREM ListIsBackedAlways == Spec => []ListIsBacked
  <1> DEFINE Inv == ListIsBacked /\ ListSteps
  <1>1. Init => Inv
    BY DEF Init, ListIsBacked, ListSteps
  <1>2. TypeOK /\ Inv /\ [Next]_vars => Inv'
    <2> SUFFICES ASSUME TypeOK, Inv, [Next]_vars PROVE Inv'
      OBVIOUS
    <2> USE WalletAssumption DEF TypeOK, ListIsBacked, ListSteps, Stored, disk, memory
    <2>1. ASSUME NEW p \in Passwords, LoadBegin(p) \/ SeedBegin(p) PROVE Inv'
      BY <2>1 DEF LoadBegin, SeedBegin, Begin
    <2>2. ASSUME NEW p \in Passwords, NEW a \in Accounts,
                 CreateBegin(p, a) \/ CreateFromSeedBegin(p, a) \/ ImportBegin(p, a)
          PROVE  Inv'
      BY <2>2 DEF CreateBegin, CreateFromSeedBegin, ImportBegin, Begin
    <2>3. ASSUME NEW p \in Passwords, NEW a \in Accounts, Sign(p, a) PROVE Inv'
      BY <2>3 DEF Sign
    <2>4. ASSUME NEW a \in Accounts, DeleteBegin(a) PROVE Inv'
      BY <2>4 DEF DeleteBegin, Begin
    <2>5. ASSUME NEW a \in Accounts, LoadOne(a) PROVE Inv'
      BY <2>5 DEF LoadOne
    <2>6. CASE LoadThrows
      BY <2>6 DEF LoadThrows, Return
    <2>7. CASE LoadPopulated
      BY <2>7 DEF LoadPopulated, Goto
    <2>8. CASE CreateDirs
      BY <2>8 DEF CreateDirs, Goto
    <2>9. CASE PutInfo
      BY <2>9 DEF PutInfo, Goto
    <2>10. CASE PutInfoFails
      BY <2>10 DEF PutInfoFails, Return
    <2>11. CASE OpenSeed
      BY <2>11 DEF OpenSeed, Goto
    <2>12. CASE WriteSeed
      BY <2>12 DEF WriteSeed, Goto
    <2>13. CASE Verify
      BY <2>13 DEF Verify, Return
    <2>14. CASE ReadSeed
      BY <2>14 DEF ReadSeed, Return, Goto
    <2>15. CASE ImportCheck
      BY <2>15 DEF ImportCheck, Return, Goto
    <2>16. CASE PutAccount
      BY <2>16 DEF PutAccount, Goto
    <2>17. CASE PutAccountFails
      BY <2>17 DEF PutAccountFails, Return, Goto
    <2>18. CASE Construct
      BY <2>18 DEF Construct, Return, Goto
    <2>19. CASE ConstructThrows
      BY <2>19 DEF ConstructThrows, Return
    <2>20. CASE DeleteUnlist
      BY <2>20 DEF DeleteUnlist, Goto
    <2>21. CASE DbDelete
      BY <2>21 DEF DbDelete, Return
    <2>22. CASE DbDeleteFails
      BY <2>22 DEF DbDeleteFails, Return
    <2>23. CASE Crash
      BY <2>23 DEF Crash
    <2>24. CASE UNCHANGED vars
      BY <2>24 DEF vars
    <2> QED BY <2>1, <2>2, <2>3, <2>4, <2>5, <2>6, <2>7, <2>8, <2>9, <2>10, <2>11,
             <2>12, <2>13, <2>14, <2>15, <2>16, <2>17, <2>18, <2>19, <2>20, <2>21,
             <2>22, <2>23, <2>24
             DEF Next, CallBegin, CallStep
  <1> QED BY <1>1, <1>2, TypeCorrect, PTL DEF Spec

\* Only deleteAccount gets to the steps that delete.
DeleteIsAsked == pc \in {"unlist", "dbDelete"} => call.op = "delete"

\* A stored key is lost only to deleteAccount of its own address, whatever fails and
\* wherever a crash falls.
THEOREM KeysAreKeptAlways == Spec => KeysAreKept
  <1> DEFINE Kept == \A a \in Stored : a \notin Stored' => call.op = "delete" /\ call.addr = a
  <1>1. Init => DeleteIsAsked
    BY DEF Init, DeleteIsAsked
  <1>2. TypeOK /\ DeleteIsAsked /\ [Next]_vars => DeleteIsAsked'
    <2> SUFFICES ASSUME TypeOK, DeleteIsAsked, [Next]_vars PROVE DeleteIsAsked'
      OBVIOUS
    <2> USE DEF DeleteIsAsked
    <2>1. ASSUME NEW p \in Passwords, LoadBegin(p) \/ SeedBegin(p) PROVE DeleteIsAsked'
      BY <2>1 DEF LoadBegin, SeedBegin, Begin
    <2>2. ASSUME NEW p \in Passwords, NEW a \in Accounts,
                 \/ CreateBegin(p, a) \/ CreateFromSeedBegin(p, a)
                 \/ ImportBegin(p, a) \/ Sign(p, a)
          PROVE  DeleteIsAsked'
      BY <2>2 DEF CreateBegin, CreateFromSeedBegin, ImportBegin, Sign, Begin
    <2>3. ASSUME NEW a \in Accounts, DeleteBegin(a) PROVE DeleteIsAsked'
      BY <2>3 DEF DeleteBegin, Begin
    <2>4. ASSUME NEW a \in Accounts, LoadOne(a) PROVE DeleteIsAsked'
      BY <2>4 DEF LoadOne
    <2>5. CASE LoadThrows \/ LoadPopulated \/ Verify \/ CreateDirs \/ PutInfo \/ PutInfoFails \/ OpenSeed
      BY <2>5 DEF LoadThrows, LoadPopulated, Verify, CreateDirs, PutInfo, PutInfoFails, OpenSeed,
                  Return, Goto
    <2>6. CASE WriteSeed \/ ReadSeed \/ ImportCheck \/ PutAccount \/ PutAccountFails
      BY <2>6 DEF WriteSeed, ReadSeed, ImportCheck, PutAccount, PutAccountFails, Return, Goto
    <2>7. CASE Construct \/ ConstructThrows \/ DeleteUnlist \/ DbDelete \/ DbDeleteFails
      BY <2>7 DEF Construct, ConstructThrows, DeleteUnlist, DbDelete, DbDeleteFails, Return, Goto
    <2>8. CASE Crash
      BY <2>8 DEF Crash
    <2>9. CASE UNCHANGED vars
      BY <2>9 DEF vars
    <2> QED BY <2>1, <2>2, <2>3, <2>4, <2>5, <2>6, <2>7, <2>8, <2>9 DEF Next, CallBegin, CallStep
  <1>3. TypeOK /\ DeleteIsAsked /\ [Next]_vars => [Kept]_vars
    <2> SUFFICES ASSUME TypeOK, DeleteIsAsked, [Next]_vars PROVE Kept
      OBVIOUS
    <2>1. CASE PutAccount
      BY <2>1, WalletAssumption DEF PutAccount, TypeOK, Stored
    <2>2. CASE DbDelete
      BY <2>2 DEF DbDelete, DeleteIsAsked, TypeOK, Stored
    <2>3. CASE ~ PutAccount /\ ~ DbDelete
      <3>1. accounts' = accounts
        BY <2>3 DEF Next, CallBegin, CallStep, LoadBegin, SeedBegin, CreateBegin,
           CreateFromSeedBegin, ImportBegin, Sign, DeleteBegin, LoadOne, LoadThrows, LoadPopulated,
           Verify, CreateDirs, PutInfo, PutInfoFails, OpenSeed, WriteSeed, ReadSeed, ImportCheck,
           PutAccountFails, Construct, ConstructThrows, DeleteUnlist, DbDeleteFails, Crash, vars, disk
      <3> QED BY <3>1 DEF Stored
    <2> QED BY <2>1, <2>2, <2>3
  <1> QED BY <1>1, <1>2, <1>3, TypeCorrect, PTL DEF Spec, KeysAreKept

\* Every step of the wallet is a step of the abstract vault or leaves it alone.
THEOREM ImplementsVaultAlways == Spec => ImplementsVault
  <1> DEFINE Step == [Vault!Next]_(Vault!vars)
  <1>1. Init => Vault!Init
    BY DEF Init, Vault!Init, Stored
  <1>2. TypeOK /\ OnePassword /\ WalletInfoFirst /\ [Next]_vars => Step
    <2> SUFFICES ASSUME TypeOK, OnePassword, WalletInfoFirst, [Next]_vars PROVE Step
      OBVIOUS
    <2> USE WalletAssumption DEF TypeOK, Stored, disk, memory, Vault!vars
    <2>1. ASSUME NEW p \in Passwords, LoadBegin(p) \/ SeedBegin(p) PROVE Step
      BY <2>1 DEF LoadBegin, SeedBegin, Begin
    <2>2. ASSUME NEW p \in Passwords, NEW a \in Accounts,
                 CreateBegin(p, a) \/ CreateFromSeedBegin(p, a) \/ ImportBegin(p, a)
          PROVE  Step
      BY <2>2 DEF CreateBegin, CreateFromSeedBegin, ImportBegin, Begin
    <2>3. ASSUME NEW p \in Passwords, NEW a \in Accounts, Sign(p, a) PROVE Step
      BY <2>3 DEF Sign
    <2>4. ASSUME NEW a \in Accounts, DeleteBegin(a) PROVE Step
      BY <2>4 DEF DeleteBegin, Begin
    <2>5. ASSUME NEW a \in Accounts, LoadOne(a) PROVE Step
      BY <2>5 DEF LoadOne
    <2>6. CASE LoadThrows
      BY <2>6 DEF LoadThrows, Return
    <2>7. CASE LoadPopulated
      BY <2>7 DEF LoadPopulated, Goto
    <2>8. CASE CreateDirs
      BY <2>8 DEF CreateDirs, Goto
    <2>9. CASE PutInfo
      <3>1. Vault!Claim(call.pw)
        BY <2>9 DEF PutInfo, Goto, WalletInfoFirst, Vault!Claim
      <3>2. call.pw \in Passwords
        OBVIOUS
      <3>3. Vault!Next
        BY <3>1, <3>2 DEF Vault!Next, Vault!Claim, Vault!Add, Vault!Remove
      <3> QED BY <3>3
    <2>10. CASE PutInfoFails
      BY <2>10 DEF PutInfoFails, Return
    <2>11. CASE OpenSeed
      BY <2>11 DEF OpenSeed, Goto
    <2>12. CASE WriteSeed
      BY <2>12 DEF WriteSeed, Goto
    <2>13. CASE Verify
      BY <2>13 DEF Verify, Return
    <2>14. CASE ReadSeed
      BY <2>14 DEF ReadSeed, Return, Goto
    <2>15. CASE ImportCheck
      BY <2>15 DEF ImportCheck, Return, Goto
    <2>16. CASE PutAccount
      <3>1. Vault!Add(call.addr)
        BY <2>16 DEF PutAccount, Goto, WalletInfoFirst, Vault!Add
      <3>2. call.addr \in Accounts
        OBVIOUS
      <3>3. Vault!Next
        BY <3>1, <3>2 DEF Vault!Next, Vault!Claim, Vault!Add, Vault!Remove
      <3> QED BY <3>3
    <2>17. CASE PutAccountFails
      BY <2>17 DEF PutAccountFails, Return, Goto
    <2>18. CASE Construct
      BY <2>18 DEF Construct, Return, Goto
    <2>19. CASE ConstructThrows
      BY <2>19 DEF ConstructThrows, Return
    <2>20. CASE DeleteUnlist
      BY <2>20 DEF DeleteUnlist, Goto
    <2>21. CASE DbDelete
      <3>1. Vault!Remove(call.addr)
        BY <2>21 DEF DbDelete, Return, Vault!Remove
      <3>2. call.addr \in Accounts
        OBVIOUS
      <3>3. Vault!Next
        BY <3>1, <3>2 DEF Vault!Next, Vault!Claim, Vault!Add, Vault!Remove
      <3> QED BY <3>3
    <2>22. CASE DbDeleteFails
      BY <2>22 DEF DbDeleteFails, Return
    <2>23. CASE Crash
      BY <2>23 DEF Crash
    <2>24. CASE UNCHANGED vars
      BY <2>24 DEF vars
    <2> QED BY <2>1, <2>2, <2>3, <2>4, <2>5, <2>6, <2>7, <2>8, <2>9, <2>10, <2>11,
             <2>12, <2>13, <2>14, <2>15, <2>16, <2>17, <2>18, <2>19, <2>20, <2>21,
             <2>22, <2>23, <2>24
             DEF Next, CallBegin, CallStep
  <1> QED BY <1>1, <1>2, TypeCorrect, OnePasswordInductive, PTL DEF Spec, ImplementsVault

----------------------------------------------------------------------------
(* The remembered password. *)

\* A handler identity that is still free exists when StoreSpawn picks one.
LEMMA NewHandlerFree ==
    ASSUME \E h \in Handlers : hpc[h] = "unborn"
    PROVE  NewHandler \in Handlers /\ hpc[NewHandler] = "unborn"
  BY DEF NewHandler

\* Every member and local keeps its type: in particular a stored deadline is a
\* point in time the clock can reach, whatever the threads overwrite.
THEOREM CacheTypeCorrect == CacheSpec => []CacheTypeOK
  <1>1. CacheInit => CacheTypeOK
    <2> SUFFICES ASSUME CacheInit PROVE CacheTypeOK
      OBVIOUS
    <2>1. last \in [kind : Kinds, solo : BOOLEAN, deadline : Nat,
                   keeper : Handlers \union {NoHandler}]
      BY Zenon DEF CacheInit, Kinds
    <2>2. arg \in [pw : Storable \union {Empty}, secs : Nat]
      BY DEF CacheInit
    <2> QED BY <2>1, <2>2, TimesAssumption DEF CacheInit, CacheTypeOK, CallerPc, HandlerPc
  <1>2. CacheTypeOK /\ [CacheNext]_cacheVars => CacheTypeOK'
    <2> SUFFICES ASSUME CacheTypeOK, [CacheNext]_cacheVars PROVE CacheTypeOK'
      OBVIOUS
    <2> USE SentinelsAssumption, TimesAssumption DEF CacheTypeOK, CallerPc, HandlerPc, Kinds
    <2>1. ASSUME NEW p \in Storable, NEW s \in Durations, StoreBegin(p, s) PROVE CacheTypeOK'
      <3>1. s \in Nat
        OBVIOUS
      <3>2. last' \in [kind : Kinds, solo : BOOLEAN, deadline : Nat,
                       keeper : Handlers \union {NoHandler}]
        <4>1. (\A h \in Handlers : ~Alive(h)) \in BOOLEAN
          OBVIOUS
        <4>2. QED BY <2>1, <4>1 DEF StoreBegin
      <3> QED BY <2>1, <3>1, <3>2 DEF StoreBegin
    <2>2. CASE StoreAssign
      BY <2>2 DEF StoreAssign
    <2>3. CASE StoreSetEnd
      BY <2>3 DEF StoreSetEnd
    <2>4. CASE StoreSpawn
      BY <2>4, NewHandlerFree DEF StoreSpawn
    <2>5. CASE ClearBegin
      BY <2>5 DEF ClearBegin
    <2>6. CASE ClearEnd
      BY <2>6 DEF ClearEnd
    <2>7. CASE Tick
      BY <2>7 DEF Tick
    <2>8. ASSUME NEW h \in Handlers, HandlerStep(h) PROVE CacheTypeOK'
      <3>1. CASE HandlerReadNow(h)
        BY <3>1 DEF HandlerReadNow
      <3>2. CASE HandlerTest(h)
        BY <3>2 DEF HandlerTest
      <3>3. CASE HandlerWake(h)
        BY <3>3 DEF HandlerWake
      <3>4. CASE HandlerClear(h)
        <4>1. (raced \/ cpc = "assigning") \in BOOLEAN
          OBVIOUS
        <4> QED BY <3>4, <4>1 DEF HandlerClear
      <3>5. CASE HandlerReset(h)
        BY <3>5 DEF HandlerReset
      <3> QED BY <2>8, <3>1, <3>2, <3>3, <3>4, <3>5 DEF HandlerStep
    <2>9. CASE UNCHANGED cacheVars
      BY <2>9 DEF cacheVars
    <2> QED BY <2>1, <2>2, <2>3, <2>4, <2>5, <2>6, <2>7, <2>8, <2>9
            DEF CacheNext, CallerStart, CallerStep
  <1> QED BY <1>1, <1>2, PTL DEF CacheSpec

\* A timed password always has the thread that will clear it, however many other
\* handlers share the members with that thread.
THEOREM KeeperAlways == CacheSpec => []TimedHasKeeper
  <1> DEFINE KeeperInv == TimedHasKeeper /\ CallPhase
  <1>1. CacheInit => KeeperInv
    BY DEF CacheInit, TimedHasKeeper, CallPhase
  <1>2. CacheTypeOK /\ KeeperInv /\ [CacheNext]_cacheVars => KeeperInv'
    <2> SUFFICES ASSUME CacheTypeOK, KeeperInv, [CacheNext]_cacheVars PROVE KeeperInv'
      OBVIOUS
    <2> USE DEF CacheTypeOK, TimedHasKeeper, CallPhase, WillClear
    <2>1. ASSUME NEW p \in Storable, NEW s \in Durations, StoreBegin(p, s)
          PROVE  KeeperInv'
      BY <2>1, TimesAssumption DEF StoreBegin
    <2>2. CASE StoreAssign
      BY <2>2 DEF StoreAssign
    <2>3. CASE StoreSetEnd
      BY <2>3 DEF StoreSetEnd
    <2>4. CASE StoreSpawn
      BY <2>4, NewHandlerFree DEF StoreSpawn
    <2>5. CASE ClearBegin
      BY <2>5 DEF ClearBegin
    <2>6. CASE ClearEnd
      BY <2>6 DEF ClearEnd
    <2>7. CASE Tick
      BY <2>7 DEF Tick
    <2>8. ASSUME NEW h \in Handlers, HandlerStep(h) PROVE KeeperInv'
      <3>1. CASE HandlerReadNow(h)
        BY <3>1 DEF HandlerReadNow
      <3>2. CASE HandlerTest(h)
        BY <3>2 DEF HandlerTest
      <3>3. CASE HandlerWake(h)
        BY <3>3 DEF HandlerWake
      <3>4. CASE HandlerClear(h)
        BY <3>4, SentinelsAssumption DEF HandlerClear
      <3>5. CASE HandlerReset(h)
        BY <3>5 DEF HandlerReset
      <3> QED BY <2>8, <3>1, <3>2, <3>3, <3>4, <3>5 DEF HandlerStep
    <2>9. CASE UNCHANGED cacheVars
      BY <2>9 DEF cacheVars
    <2> QED BY <2>1, <2>2, <2>3, <2>4, <2>5, <2>6, <2>7, <2>8, <2>9
            DEF CacheNext, CallerStart, CallerStep
  <1> QED BY <1>1, <1>2, CacheTypeCorrect, PTL DEF CacheSpec

\* The store that met no older handler keeps its own deadline: SoloStore holds in
\* every reachable state.
LEMMA SoloStoreAlways == CacheSpec => []SoloStore
  <1> DEFINE SoloInv == SoloStore /\ CallPhase
  <1>1. CacheInit => SoloInv
    BY DEF CacheInit, SoloStore, CallPhase
  <1>2. CacheTypeOK /\ SoloInv /\ [CacheNext]_cacheVars => SoloInv'
    <2> SUFFICES ASSUME CacheTypeOK, SoloInv, [CacheNext]_cacheVars PROVE SoloInv'
      OBVIOUS
    <2> USE DEF CacheTypeOK, SoloStore, CallPhase, WillClear, Alive
    <2>1. ASSUME NEW p \in Storable, NEW s \in Durations, StoreBegin(p, s)
          PROVE  SoloInv'
      BY <2>1, TimesAssumption DEF StoreBegin
    <2>2. CASE StoreAssign
      BY <2>2 DEF StoreAssign
    <2>3. CASE StoreSetEnd
      BY <2>3 DEF StoreSetEnd
    <2>4. CASE StoreSpawn
      BY <2>4, NewHandlerFree DEF StoreSpawn
    <2>5. CASE ClearBegin
      BY <2>5 DEF ClearBegin
    <2>6. CASE ClearEnd
      BY <2>6 DEF ClearEnd
    <2>7. CASE Tick
      BY <2>7 DEF Tick
    <2>8. ASSUME NEW h \in Handlers, HandlerStep(h) PROVE SoloInv'
      <3>1. CASE HandlerReadNow(h)
        BY <3>1 DEF HandlerReadNow
      <3>2. CASE HandlerTest(h)
        BY <3>2 DEF HandlerTest
      <3>3. CASE HandlerWake(h)
        BY <3>3 DEF HandlerWake
      <3>4. CASE HandlerClear(h)
        BY <3>4 DEF HandlerClear
      <3>5. CASE HandlerReset(h)
        BY <3>5 DEF HandlerReset
      <3> QED BY <2>8, <3>1, <3>2, <3>3, <3>4, <3>5 DEF HandlerStep
    <2>9. CASE UNCHANGED cacheVars
      BY <2>9 DEF cacheVars
    <2> QED BY <2>1, <2>2, <2>3, <2>4, <2>5, <2>6, <2>7, <2>8, <2>9
            DEF CacheNext, CallerStart, CallerStep
  <1> QED BY <1>1, <1>2, CacheTypeCorrect, PTL DEF CacheSpec

\* No step of any thread forgets such a password before its deadline.
THEOREM NotForgottenEarly == CacheSpec => KeptToDeadline
  <1>1. CacheTypeOK /\ SoloStore /\ [CacheNext]_cacheVars =>
          [ (/\ last.kind = "timed" /\ last.solo
             /\ cpc = "idle" /\ UNCHANGED cpc
             /\ password # Empty /\ password' = Empty)
            => now >= last.deadline ]_cacheVars
    <2> SUFFICES ASSUME CacheTypeOK, SoloStore, CacheNext,
                        last.kind = "timed", last.solo, cpc = "idle", UNCHANGED cpc,
                        password # Empty, password' = Empty
                 PROVE  now >= last.deadline
      OBVIOUS
    <2>1. PICK h \in Handlers : HandlerClear(h)
      BY DEF CacheNext, CallerStart, CallerStep, StoreBegin, StoreAssign, StoreSetEnd, StoreSpawn,
             ClearBegin, ClearEnd, Tick, HandlerStep, HandlerReadNow, HandlerTest,
             HandlerWake, HandlerReset
    <2>2. last.deadline <= now
      BY <2>1 DEF HandlerClear, SoloStore, Alive
    <2> QED BY <2>2 DEF CacheTypeOK
  <1> QED BY <1>1, CacheTypeCorrect, SoloStoreAlways, PTL DEF CacheSpec, KeptToDeadline

----------------------------------------------------------------------------
(* The database. *)

\* Every variable keeps its type; a thread in a call has the call's arguments.
THEOREM DbTypeCorrect == DbSpec => []DbTypeOK
  <1>1. DbInit => DbTypeOK
    BY DEF DbInit, DbTypeOK, Contents
  <1>2. DbTypeOK /\ [DbNext]_dbVars => DbTypeOK'
    <2> SUFFICES ASSUME DbTypeOK, [DbNext]_dbVars PROVE DbTypeOK'
      OBVIOUS
    <2> USE DEF DbTypeOK, Contents, shared
    <2>1. ASSUME NEW t \in Threads, NEW c \in Calls, Call(t, c) PROVE DbTypeOK'
      <3>1. UNCHANGED shared /\ tpc' = [tpc EXCEPT ![t] = "lock"] /\ tcall' = [tcall EXCEPT ![t] = c]
        BY <2>1 DEF Call
      <3>2. \A s \in Threads : tpc'[s] # "idle" => tcall'[s] \in Calls
        BY <2>1 DEF Call
      <3>3. /\ answer' \in [Threads -> Values \union {Missing, TornValue, "true", "false"}]
            /\ overlapped' \in [Threads -> BOOLEAN]
        BY <2>1 DEF Call
      <3>4. effect' \in [Threads -> {"none", "done", "failed"} \X (Values \union {Missing})]
        BY <2>1 DEF Call
      <3> QED BY <3>1, <3>2, <3>3, <3>4
    <2>2. ASSUME NEW t \in Threads, Lock(t) PROVE DbTypeOK'
      BY <2>2 DEF Lock
    <2>3. ASSUME NEW t \in Threads, GetFails(t) PROVE DbTypeOK'
      BY <2>3 DEF GetFails, Body
    <2>4. ASSUME NEW t \in Threads, Get(t) PROVE DbTypeOK'
      BY <2>4 DEF Get, Body, Calls
    <2>5. ASSUME NEW t \in Threads, GetCopy(t) PROVE DbTypeOK'
      BY <2>5 DEF GetCopy
    <2>6. ASSUME NEW t \in Threads, Put(t) PROVE DbTypeOK'
      BY <2>6 DEF Put, Body, Calls
    <2>7. ASSUME NEW t \in Threads, Delete(t) PROVE DbTypeOK'
      BY <2>7 DEF Delete, Body
    <2>8. ASSUME NEW t \in Threads, WriteFails(t) PROVE DbTypeOK'
      BY <2>8 DEF WriteFails, Body
    <2>9. ASSUME NEW t \in Threads, Report(t) PROVE DbTypeOK'
      BY <2>9 DEF Report
    <2>10. ASSUME NEW t \in Threads, Pairs(t) PROVE DbTypeOK'
      BY <2>10 DEF Pairs, Body
    <2>11. ASSUME NEW t \in Threads, DropDatabase(t) PROVE DbTypeOK'
      BY <2>11 DEF DropDatabase, Body
    <2>12. CASE UNCHANGED dbVars
      BY <2>12 DEF dbVars
    <2> QED BY <2>1, <2>2, <2>3, <2>4, <2>5, <2>6, <2>7, <2>8, <2>9, <2>10, <2>11, <2>12
            DEF DbNext, DbStep
  <1> QED BY <1>1, <1>2, PTL DEF DbSpec

\* A thread that is about to report a status has already had its effect (the early
\* return of a failed write is what TrueMeansDone rests on), and no thread has returned
\* before it returns.
ReportsDone ==
    \A t \in Threads :
        /\ tpc[t] = "report" => effect[t][1] = "done"
        /\ tpc[t] # "idle" => answer[t] = Missing

\* A put or delete that returned true took effect.
THEOREM TrueIsDone == DbSpec => []TrueMeansDone
  <1> DEFINE Inv == TrueMeansDone /\ ReportsDone
  <1>1. DbSentinelsAssumption /\ DbInit => Inv
    BY DEF DbInit, TrueMeansDone, ReportsDone, DbSentinelsAssumption
  <1>2. DbTypeOK /\ Inv /\ [DbNext]_dbVars => Inv'
    <2> SUFFICES ASSUME DbTypeOK, Inv, [DbNext]_dbVars PROVE Inv'
      OBVIOUS
    <2> USE DbSentinelsAssumption DEF DbTypeOK, TrueMeansDone, ReportsDone, shared
    <2>1. ASSUME NEW t \in Threads, NEW c \in Calls, Call(t, c) PROVE Inv'
      BY <2>1 DEF Call
    <2>2. ASSUME NEW t \in Threads, Lock(t) PROVE Inv'
      BY <2>2 DEF Lock
    <2>3. ASSUME NEW t \in Threads, GetFails(t) PROVE Inv'
      BY <2>3 DEF GetFails, Body
    <2>4. ASSUME NEW t \in Threads, Get(t) PROVE Inv'
      BY <2>4 DEF Get, Body
    <2>5. ASSUME NEW t \in Threads, GetCopy(t) PROVE Inv'
      <3>1. PICK v \in {tmpValue, TornValue} : answer' = [answer EXCEPT ![t] = v]
        BY <2>5 DEF GetCopy
      <3>2. v # "true"
        OBVIOUS
      <3>3. UNCHANGED effect /\ tpc' = [tpc EXCEPT ![t] = "idle"]
        BY <2>5 DEF GetCopy
      <3> QED BY <3>1, <3>2, <3>3
    <2>6. ASSUME NEW t \in Threads, Put(t) PROVE Inv'
      BY <2>6 DEF Put, Body
    <2>7. ASSUME NEW t \in Threads, Delete(t) PROVE Inv'
      BY <2>7 DEF Delete, Body
    <2>8. ASSUME NEW t \in Threads, WriteFails(t) PROVE Inv'
      BY <2>8 DEF WriteFails, Body
    <2>9. ASSUME NEW t \in Threads, Report(t) PROVE Inv'
      BY <2>9 DEF Report
    <2>10. ASSUME NEW t \in Threads, Pairs(t) PROVE Inv'
      BY <2>10 DEF Pairs, Body
    <2>11. ASSUME NEW t \in Threads, DropDatabase(t) PROVE Inv'
      BY <2>11 DEF DropDatabase, Body
    <2>12. CASE UNCHANGED dbVars
      BY <2>12 DEF dbVars
    <2> QED BY <2>1, <2>2, <2>3, <2>4, <2>5, <2>6, <2>7, <2>8, <2>9, <2>10, <2>11, <2>12
            DEF DbNext, DbStep
  <1> QED BY <1>1, <1>2, DbTypeCorrect, DbSentinelsAssumption, PTL DEF DbSpec

\* A get that waits to return has in tmpValue what it read, as long as no other get
\* came between.
BufferIsOwn ==
    \A t \in Threads :
        /\ tpc[t] = "copy" => tcall[t].op = "get"
        /\ tpc[t] = "report" => tcall[t].op # "get"
        /\ tpc[t] = "copy" /\ ~overlapped[t] => effect[t][2] = tmpValue

\* What a get returns is what LevelDB read for it, mixed at most with what is being
\* assigned to the buffer, unless another thread's get ran between its unlock and its return.
THEOREM GetReturnsItsReadAlways == DbSpec => []GetReturnsItsRead
  <1> DEFINE Inv == GetReturnsItsRead /\ BufferIsOwn /\ ReportsDone
  <1>1. DbInit => Inv
    BY DEF DbInit, Idle, GetReturnsItsRead, BufferIsOwn, ReportsDone
  <1>2. DbTypeOK /\ Inv /\ [DbNext]_dbVars => Inv'
    <2> SUFFICES ASSUME DbTypeOK, Inv, [DbNext]_dbVars PROVE Inv'
      OBVIOUS
    <2> USE DEF DbTypeOK, GetReturnsItsRead, BufferIsOwn, ReportsDone, shared
    <2>1. ASSUME NEW t \in Threads, NEW c \in Calls, Call(t, c) PROVE Inv'
      BY <2>1 DEF Call
    <2>2. ASSUME NEW t \in Threads, Lock(t) PROVE Inv'
      BY <2>2 DEF Lock
    <2>3. ASSUME NEW t \in Threads, GetFails(t) PROVE Inv'
      BY <2>3 DEF GetFails, Body
    <2>4. ASSUME NEW t \in Threads, Get(t) PROVE Inv'
      BY <2>4 DEF Get, Body
    <2>5. ASSUME NEW t \in Threads, GetCopy(t) PROVE Inv'
      <3>1. PICK v \in {tmpValue, TornValue} : answer' = [answer EXCEPT ![t] = v]
        BY <2>5 DEF GetCopy
      <3>2. tpc[t] = "copy" /\ tpc' = [tpc EXCEPT ![t] = "idle"] /\ UNCHANGED <<shared, tcall, effect, overlapped>>
        BY <2>5 DEF GetCopy
      <3> QED BY <3>1, <3>2
    <2>6. ASSUME NEW t \in Threads, Put(t) PROVE Inv'
      BY <2>6 DEF Put, Body
    <2>7. ASSUME NEW t \in Threads, Delete(t) PROVE Inv'
      BY <2>7 DEF Delete, Body
    <2>8. ASSUME NEW t \in Threads, WriteFails(t) PROVE Inv'
      BY <2>8 DEF WriteFails, Body
    <2>9. ASSUME NEW t \in Threads, Report(t) PROVE Inv'
      BY <2>9 DEF Report
    <2>10. ASSUME NEW t \in Threads, Pairs(t) PROVE Inv'
      BY <2>10 DEF Pairs, Body
    <2>11. ASSUME NEW t \in Threads, DropDatabase(t) PROVE Inv'
      BY <2>11 DEF DropDatabase, Body
    <2>12. CASE UNCHANGED dbVars
      BY <2>12 DEF dbVars
    <2> QED BY <2>1, <2>2, <2>3, <2>4, <2>5, <2>6, <2>7, <2>8, <2>9, <2>10, <2>11, <2>12
            DEF DbNext, DbStep
  <1> QED BY <1>1, <1>2, DbTypeCorrect, PTL DEF DbSpec

\* Every step of any thread is a step of the abstract map or leaves it alone.
THEOREM ImplementsMapAlways == DbSpec => ImplementsMap
  <1> DEFINE MapStep == [Map!Next]_store
  <1>1. DbInit => Map!Init
    BY DEF DbInit, Map!Init
  <1>2. DbTypeOK /\ [DbNext]_dbVars => MapStep
    <2> SUFFICES ASSUME DbTypeOK, [DbNext]_dbVars PROVE MapStep
      OBVIOUS
    <2>1. ASSUME NEW t \in Threads, Put(t) PROVE Map!Next
      <3>1. tcall[t].key \in Keys /\ tcall[t].value \in Values
        BY <2>1 DEF Put, Body, DbTypeOK, Calls
      <3>2. store' = [store EXCEPT ![tcall[t].key] = tcall[t].value]
        BY <2>1 DEF Put
      <3> QED BY <3>1, <3>2 DEF Map!Next, Map!Put, Map!Delete, Map!Drop
    <2>2. ASSUME NEW t \in Threads, Delete(t) PROVE Map!Next
      <3>1. tcall[t].key \in Keys
        BY <2>2 DEF Delete, Body, DbTypeOK, Calls
      <3>2. store' = [store EXCEPT ![tcall[t].key] = Missing]
        BY <2>2 DEF Delete
      <3> QED BY <3>1, <3>2 DEF Map!Next, Map!Put, Map!Delete, Map!Drop
    <2>3. ASSUME NEW t \in Threads, DropDatabase(t) PROVE Map!Next
      <3>1. PICK ks \in SUBSET Keys : store' = [k \in Keys |-> IF k \in ks THEN Missing ELSE store[k]]
        BY <2>3 DEF DropDatabase
      <3> QED BY <3>1 DEF Map!Next, Map!Put, Map!Delete, Map!Drop
    <2>4. ASSUME NEW t \in Threads,
                 \/ \E c \in Calls : Call(t, c)
                 \/ Lock(t) \/ GetFails(t) \/ Get(t) \/ GetCopy(t)
                 \/ WriteFails(t) \/ Report(t) \/ Pairs(t)
          PROVE  store' = store
      BY <2>4 DEF Call, Lock, GetFails, Get, GetCopy, WriteFails, Report, Pairs, shared
    <2>5. CASE UNCHANGED dbVars
      BY <2>5 DEF dbVars, shared
    <2> QED BY <2>1, <2>2, <2>3, <2>4, <2>5 DEF DbNext, DbStep
  <1> QED BY <1>1, <1>2, DbTypeCorrect, PTL DEF DbSpec, ImplementsMap, Map!Spec

=============================================================================
