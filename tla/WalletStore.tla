----------------------------- MODULE WalletStore -----------------------------
(***************************************************************************)
(* The wallet: its files, the in-memory account list, and the calls        *)
(* loadWallet, createAccount, importPrivKey, deleteAccount, getSeedPhrase  *)
(* and sign (Wallet.cpp, Account.cpp, Wallet.h).                           *)
(*                                                                         *)
(* One thread makes the calls.  Each call is a sequence of steps, one per  *)
(* effect: a directory, a database put or delete, a file truncated, a file *)
(* written, an HTTP request.  A put can fail, an HTTP request can fail (and *)
(* then throws out of the Account constructor), a stream write can fail    *)
(* without a word, and the process can die between any two steps.          *)
(***************************************************************************)
EXTENDS Integers, FiniteSets

CONSTANTS
    Accounts,      \* addresses
    Default,       \* the address of m/44'/60'/0'/0 under the wallet's seed
    Passwords,     \* passwords the user may type
    NoPassword,    \* no password yet
    Absent,        \* there is no seed file
    Blank,         \* the seed file exists and holds no JSON
    MaxListed      \* bound: occurrences of one address in accountList

ASSUME WalletAssumption ==
    /\ Default \in Accounts
    /\ NoPassword \notin Passwords
    /\ Absent \notin Passwords /\ Blank \notin Passwords
    /\ MaxListed \in Nat

VARIABLES
    (* on disk *)
    infoPath,      \* walletExistsPath() exists
    info,          \* the password that infoDB's "walletInfo" verifies
    seed,          \* the password the seed file is encrypted under, Absent or Blank
    accounts,      \* accountDB: the password each stored key is encrypted under
    (* in memory *)
    listed,        \* accountList, as the number of times each address is in it
    passHash,      \* the password that passSalt and passHash verify
    isLoaded,      \* Wallet::_isLoaded
    storageLock,   \* Utils' storageLock is held by nobody who will release it
    (* the call in progress *)
    pc, call, pending,
    (* history *)
    result,        \* how the last call ended
    reloaded       \* loadWallet ran on a list that was not empty

disk == <<infoPath, info, seed, accounts>>
memory == <<listed, passHash, isLoaded, storageLock>>
vars == <<disk, memory, pc, call, pending, result, reloaded>>

Ops == {"load", "create", "import", "delete", "seed", "sign"}
Steps == {"idle", "mkdirs", "putInfo", "openSeed", "writeSeed", "populate",
          "verify", "readSeed", "import", "put", "construct", "unlist", "dbDelete"}
Results == {"none", "ok", "error", "threw"}

TypeOK ==
    /\ infoPath \in BOOLEAN
    /\ info \in Passwords \union {NoPassword}
    /\ seed \in Passwords \union {Absent, Blank}
    /\ accounts \in [Accounts -> Passwords \union {NoPassword}]
    /\ listed \in [Accounts -> Nat]
    /\ passHash \in Passwords \union {NoPassword}
    /\ isLoaded \in BOOLEAN
    /\ storageLock \in BOOLEAN
    /\ pc \in Steps
    /\ call \in [op : Ops, pw : Passwords, addr : Accounts]
    /\ pending \subseteq Accounts
    /\ result \in Results
    /\ reloaded \in BOOLEAN

\* The accounts getAllPairs returns.
Stored == {a \in Accounts : accounts[a] # NoPassword}

----------------------------------------------------------------------------
\* A new process on an empty folder.  _isLoaded has no initialiser.
Init ==
    /\ infoPath = FALSE /\ info = NoPassword /\ seed = Absent
    /\ accounts = [a \in Accounts |-> NoPassword]
    /\ listed = [a \in Accounts |-> 0]
    /\ passHash = NoPassword
    /\ isLoaded \in BOOLEAN
    /\ storageLock = FALSE
    /\ pc = "idle"
    /\ call \in [op : {"load"}, pw : Passwords, addr : {Default}]
    /\ pending = {}
    /\ result = "none" /\ reloaded = FALSE

\* The process dies and a new one constructs a Wallet on the same folder.
Crash ==
    /\ listed' = [a \in Accounts |-> 0]
    /\ passHash' = NoPassword
    /\ isLoaded' \in BOOLEAN
    /\ storageLock' = FALSE
    /\ pc' = "idle" /\ pending' = {}
    /\ result' = "none" /\ reloaded' = FALSE
    /\ UNCHANGED <<disk, call>>

\* The call ends, by a return or by an exception.
Return(r) ==
    /\ pc' = "idle" /\ result' = r
    /\ UNCHANGED call

Goto(step) ==
    /\ pc' = step
    /\ UNCHANGED <<call, result>>

Begin(op, p, a, step) ==
    /\ pc = "idle"
    /\ call' = [op |-> op, pw |-> p, addr |-> a]
    /\ pc' = step
    /\ result' = IF step = "idle" THEN "error" ELSE "none"

----------------------------------------------------------------------------
(* loadWallet *)

\* A defect: a wallet that exists is created anew.
LoadBeginCreates(p) ==
    /\ \A a \in Accounts : listed[a] < MaxListed
    /\ Begin("load", p, Default, "mkdirs")
    /\ UNCHANGED <<disk, memory, pending, reloaded>>

\* The wallet exists when walletExistsPath() does (lines 57 and 63-65).
LoadBegin(p) ==
    /\ \A a \in Accounts : listed[a] < MaxListed
    /\ Begin("load", p, Default, IF infoPath THEN "populate" ELSE "mkdirs")
    /\ pending' = IF infoPath THEN Stored ELSE {}
    /\ reloaded' = (reloaded \/ (infoPath /\ \E a \in Accounts : listed[a] > 0))
    /\ UNCHANGED <<disk, memory>>

\* One more account of the database is constructed, which asks the provider for
\* its nonce (lines 65-75, Account.cpp:11-16).  The list is not emptied first.
LoadOne(a) ==
    /\ pc = "populate" /\ a \in pending
    /\ listed' = [listed EXCEPT ![a] = @ + 1]
    /\ pending' = pending \ {a}
    /\ UNCHANGED <<disk, passHash, isLoaded, storageLock, pc, call, result, reloaded>>

\* The request fails: HTTPRequest throws, the constructor and loadWallet with it.
LoadThrows ==
    /\ pc = "populate" /\ pending # {}
    /\ pending' = {}
    /\ Return("threw")
    /\ UNCHANGED <<disk, memory, reloaded>>

LoadPopulated ==
    /\ pc = "populate" /\ pending = {}
    /\ Goto("verify")
    /\ UNCHANGED <<disk, memory, pending, reloaded>>

\* createNewWallet makes the directories before anything else (lines 5-12).
CreateDirs ==
    /\ pc = "mkdirs"
    /\ infoPath' = TRUE
    /\ Goto("putInfo")
    /\ UNCHANGED <<info, seed, accounts, memory, pending, reloaded>>

\* A defect: storageLock is taken here already, and again by writeJSONFile.
PutInfoLocked ==
    /\ pc = "putInfo"
    /\ info' = call.pw
    /\ storageLock' = TRUE
    /\ Goto("openSeed")
    /\ UNCHANGED <<infoPath, seed, accounts, listed, passHash, isLoaded, pending, reloaded>>

\* infoDB.putKeyValue("walletInfo", ...) (lines 15-26).
PutInfo ==
    /\ pc = "putInfo"
    /\ info' = call.pw
    /\ Goto("openSeed")
    /\ UNCHANGED <<infoPath, seed, accounts, memory, pending, reloaded>>

PutInfoFails ==
    /\ pc = "putInfo"
    /\ Return("error")
    /\ UNCHANGED <<disk, memory, pending, reloaded>>

\* writeJSONFile takes storageLock and opens the seed file, which truncates it;
\* a stream that cannot be opened is not reported (Utils.cpp:410-413).
OpenSeed ==
    /\ pc = "openSeed" /\ ~storageLock
    /\ seed' \in {Blank, seed}
    /\ Goto("writeSeed")
    /\ UNCHANGED <<infoPath, info, accounts, memory, pending, reloaded>>

\* The seed is written, or the stream fails silently (Utils.cpp:414-422).  The
\* default account is imported next (Wallet.cpp:46-51).
WriteSeed ==
    /\ pc = "writeSeed"
    /\ seed' \in IF seed = Blank THEN {call.pw, Blank} ELSE {seed}
    /\ Goto("import")
    /\ UNCHANGED <<infoPath, info, accounts, memory, pending, reloaded>>

\* The password is compared with walletInfo (lines 78-94).  With no walletInfo
\* stored, json::parse("") throws.
Verify ==
    /\ pc = "verify"
    /\ IF info = call.pw
         THEN /\ passHash' = call.pw /\ isLoaded' = TRUE
              /\ Return("ok")
         ELSE /\ UNCHANGED <<passHash, isLoaded>>
              /\ Return(IF info = NoPassword THEN "threw" ELSE "error")
    /\ UNCHANGED <<disk, listed, storageLock, pending, reloaded>>

----------------------------------------------------------------------------
(* createAccount, getSeedPhrase, importPrivKey *)

\* createAccount with the wallet's own seed, checked against passHash (line 114).
CreateBegin(p, a) ==
    /\ Begin("create", p, a, IF passHash = p THEN "readSeed" ELSE "idle")
    /\ UNCHANGED <<disk, memory, pending, reloaded>>

\* createAccount with a seed of the caller's (lines 127-130).
CreateFromSeedBegin(p, a) ==
    /\ Begin("create", p, a, IF passHash = p THEN "import" ELSE "idle")
    /\ UNCHANGED <<disk, memory, pending, reloaded>>

\* getSeedPhrase has no password check of its own (line 379).
SeedBegin(p) ==
    /\ Begin("seed", p, Default, "readSeed")
    /\ UNCHANGED <<disk, memory, pending, reloaded>>

\* readJSONFile and Cipher::decrypt (Utils.cpp:389-408, Wallet.cpp:120-126).
\* When the file does not exist the early return leaves storageLock locked.
ReadSeed ==
    /\ pc = "readSeed" /\ ~storageLock
    /\ storageLock' = (seed = Absent)
    /\ IF seed # call.pw                 \* error 33, 34 or 15
         THEN Return("error")
         ELSE IF call.op = "seed" THEN Return("ok") ELSE Goto("import")
    /\ UNCHANGED <<disk, listed, passHash, isLoaded, pending, reloaded>>

ImportBegin(p, a) ==
    /\ Begin("import", p, a, "import")
    /\ UNCHANGED <<disk, memory, pending, reloaded>>

\* A defect: the key is encrypted and stored under whatever was typed.
ImportUnchecked ==
    /\ pc = "import"
    /\ IF listed[call.addr] > 0
         THEN IF call.op = "load" THEN Goto("verify") ELSE Return("error")
         ELSE Goto("put")
    /\ UNCHANGED <<disk, memory, pending, reloaded>>

\* A defect: accountList is not searched for the address.
ImportDuplicates ==
    /\ pc = "import"
    /\ IF info = call.pw
         THEN Goto("put")
         ELSE IF call.op = "load" THEN Goto("verify")
         ELSE Return(IF info = NoPassword THEN "threw" ELSE "error")
    /\ UNCHANGED <<disk, memory, pending, reloaded>>

\* importPrivKey up to the put: the password against walletInfo, and the address
\* against accountList (lines 151-180).  createNewWallet ignores its failure.
ImportCheck ==
    /\ pc = "import"
    /\ IF info = call.pw /\ listed[call.addr] = 0
         THEN Goto("put")
         ELSE IF call.op = "load" THEN Goto("verify")
         ELSE Return(IF info = NoPassword THEN "threw" ELSE "error")
    /\ UNCHANGED <<disk, memory, pending, reloaded>>

\* accountDB.putKeyValue (line 181).
PutAccount ==
    /\ pc = "put"
    /\ accounts' = [accounts EXCEPT ![call.addr] = call.pw]
    /\ Goto("construct")
    /\ UNCHANGED <<infoPath, info, seed, memory, pending, reloaded>>

PutAccountFails ==
    /\ pc = "put"
    /\ IF call.op = "load" THEN Goto("verify") ELSE Return("error")
    /\ UNCHANGED <<disk, memory, pending, reloaded>>

\* The Account is constructed, its nonce requested, and it joins the list
\* (lines 187-196).
Construct ==
    /\ pc = "construct"
    /\ listed' = [listed EXCEPT ![call.addr] = @ + 1]
    /\ IF call.op = "load" THEN Goto("verify") ELSE Return("ok")
    /\ UNCHANGED <<disk, passHash, isLoaded, storageLock, pending, reloaded>>

\* The request throws after the put: the database holds the key, the list does not.
ConstructThrows ==
    /\ pc = "construct"
    /\ Return("threw")
    /\ UNCHANGED <<disk, memory, pending, reloaded>>

----------------------------------------------------------------------------
(* deleteAccount, sign *)

DeleteBegin(a) ==
    /\ Begin("delete", call.pw, a, "unlist")
    /\ UNCHANGED <<disk, memory, pending, reloaded>>

\* The last occurrence of the address leaves the list (lines 200-213).
DeleteUnlist ==
    /\ pc = "unlist"
    /\ listed' = [listed EXCEPT ![call.addr] = IF @ > 0 THEN @ - 1 ELSE 0]
    /\ Goto("dbDelete")
    /\ UNCHANGED <<disk, passHash, isLoaded, storageLock, pending, reloaded>>

\* A defect: the whole account database is dropped.
DbDeleteAll ==
    /\ pc = "dbDelete"
    /\ accounts' = [a \in Accounts |-> NoPassword]
    /\ Return("ok")
    /\ UNCHANGED <<infoPath, info, seed, memory, pending, reloaded>>

\* The key leaves the database, listed or not (line 216).
DbDelete ==
    /\ pc = "dbDelete"
    /\ accounts' = [accounts EXCEPT ![call.addr] = NoPassword]
    /\ Return("ok")
    /\ UNCHANGED <<infoPath, info, seed, memory, pending, reloaded>>

DbDeleteFails ==
    /\ pc = "dbDelete"
    /\ Return("error")
    /\ UNCHANGED <<disk, memory, pending, reloaded>>

\* sign and signTransaction decrypt the stored key (lines 219-234, 277-284): an
\* unknown address yields the JSON null, on which Cipher::decrypt throws.
Sign(p, a) ==
    /\ pc = "idle"
    /\ call' = [op |-> "sign", pw |-> p, addr |-> a]
    /\ result' = CASE accounts[a] = NoPassword -> "threw"
                   [] accounts[a] = p -> "ok"
                   [] OTHER -> "error"
    /\ UNCHANGED <<disk, memory, pc, pending, reloaded>>

----------------------------------------------------------------------------
CallBegin ==
    \E p \in Passwords :
        \/ LoadBegin(p) \/ SeedBegin(p)
        \/ \E a \in Accounts :
              CreateBegin(p, a) \/ CreateFromSeedBegin(p, a) \/ ImportBegin(p, a) \/ Sign(p, a)

CallStep ==
    \/ \E a \in Accounts : LoadOne(a)
    \/ LoadThrows \/ LoadPopulated \/ Verify
    \/ CreateDirs \/ PutInfo \/ PutInfoFails \/ OpenSeed \/ WriteSeed
    \/ ReadSeed \/ ImportCheck \/ PutAccount \/ PutAccountFails
    \/ Construct \/ ConstructThrows
    \/ DeleteUnlist \/ DbDelete \/ DbDeleteFails

Next == CallBegin \/ (\E a \in Accounts : DeleteBegin(a)) \/ CallStep \/ Crash

\* The thread that made a call is scheduled until the call ends.
Spec == Init /\ [][Next]_vars /\ WF_vars(CallStep)

----------------------------------------------------------------------------
\* One password opens everything: the seed, every stored key and the session's
\* passHash belong to the password walletInfo verifies, after any sequence of
\* calls with right and wrong passwords, failures and crashes.  It is what lets
\* createAccount check passHash, importPrivKey walletInfo, and sign neither.
OnePassword ==
    /\ seed \in {Absent, Blank, info}
    /\ \A a \in Accounts : accounts[a] \in {NoPassword, info}
    /\ passHash \in {NoPassword, info}

\* While loadWallet ran on an empty list only, getAccounts shows no address twice
\* and none whose key the database does not hold: every address it shows can sign.
ListIsBacked ==
    ~reloaded => \A a \in Accounts : listed[a] <= 1 /\ (listed[a] = 1 => a \in Stored)

\* A stored key is lost only to deleteAccount of its own address; a failed import,
\* a crash or another account's deletion never costs one.
KeysAreKept ==
    [][ \A a \in Stored : a \notin Stored' => call.op = "delete" /\ call.addr = a ]_vars

\* The files implement the abstract vault.
Vault == INSTANCE AccountVault WITH owner <- info, held <- Stored
ImplementsVault == Vault!Init /\ [][Vault!Next]_(Vault!vars)

\* A call that finds storageLock free returns or throws.
CallsReturn == (pc # "idle" /\ ~storageLock) ~> pc = "idle"

----------------------------------------------------------------------------
(* What makes OnePassword, ImplementsVault and ListIsBacked inductive *)

\* walletInfo is written once, before anything that depends on it, and a call past
\* its password check carries the wallet's password.
WalletInfoFirst ==
    /\ ~infoPath => info = NoPassword
    /\ pc = "mkdirs" => ~infoPath
    /\ pc = "putInfo" => infoPath /\ info = NoPassword
    /\ pc \in {"openSeed", "writeSeed", "put"} => info = call.pw

\* The calls that change the list know what it holds.
ListSteps ==
    /\ pc = "put" => listed[call.addr] = 0
    /\ pc = "construct" => listed[call.addr] = 0 /\ call.addr \in Stored
    /\ ~reloaded /\ pc = "populate" => \A a \in pending : listed[a] = 0 /\ a \in Stored
    /\ ~reloaded /\ pc = "dbDelete" => listed[call.addr] = 0

----------------------------------------------------------------------------
(* What the documentation says and the code does not do *)

\* Every call ends: createAccount yields an address "or an empty string on failure"
\* (Wallet.h:144).  A missing seed file is such a failure, error 33, and the call
\* after it never ends.
EveryCallReturns == pc # "idle" ~> pc = "idle"
=============================================================================
