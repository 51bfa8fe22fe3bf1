# TLA+ verification of web3cpp

web3cpp is a C++ client library for EVM chains: a wallet with encrypted keys on
disk, a LevelDB wrapper, a key store inherited from cpp-ethereum, transactions
and their signing (in software and on a Ledger device), RLP, ABI packing, and
JSON-RPC requests over HTTPS. This directory holds its formal model: TLA+ modules
translated from the source, TLC configurations that check them on small
instances, and TLAPS proofs of what should hold for every instance. The sources
are the reference: paths below are relative to the repository, and
`PROJECT.json` maps every definition to the lines it stands for.

Contents: 1 inventory · 2 modules and code · 3 runs and bounds · 4 fairness ·
5 proofs · 6 disagreements found · 7 only model-checked, not modelled · 8 plan.

    tlc -config MCWalletStore.cfg MCWalletStore      # any run of section 3
    tlapm WalletProofs.tla                           # any proof of section 5

## 1. Inventory

| component | state it keeps | operations | what is hard | what makes it correct |
|---|---|---|---|---|
| **Wallet: remembered password** (`Wallet.cpp` 329-345, `Wallet.h` 70-80) | `_password`, `_passEnd`, shared without a lock; detached threads | `storePassword`, `clearPassword`, `isPasswordStored`; `passHandler` | handlers of older stores act on newer passwords; racing writes of a string; a member read uninitialised | a timed password is forgotten, and not before its deadline |
| **Wallet: files and accounts** (`Wallet.cpp`, `Utils.cpp` 389-422, `Account.cpp`, `Cipher.cpp`) | on disk `walletInfo`, `accounts`, the seed file; in memory the list, `passHash`, `_isLoaded`; the global `storageLock` | `loadWallet`/`createNewWallet`, `createAccount`, `importPrivKey`, `deleteAccount`, `getSeedPhrase`, `signTransaction`, `sendTransaction` | every call is several writes and requests, each of which can fail or be the last before a crash | one password opens everything; the list shows what is stored; no key is lost; every call returns |
| **Database** (`DB.cpp`, `DB.h`) | the LevelDB handle; `dbMutex`; `dbStatus` and `tmpValue`, shared by all callers | get, put, delete, exists, all keys/values/pairs, drop, open, close | results are copied after the mutex is unlocked | a map; `true` means done; a get returns what it read |
| **Key store** (`SecretStore`, `KeyManager`, `CommonIO` 108-128) | key files, the index file and its salt; in memory keys, a cache of secrets, the index and two lookups, the index's key | create, load, save, import, importExisting, recode, kill, cache clearing | files rewritten in place; two files that must fit each other; two passwords per key (its own, the index's) | a key is readable under its password; the index opens; the lookups agree |
| **Tries** (`StateCacheDB`, `TrieDB.h`, `TrieCommon`, `TrieHash`) | reference-counted nodes by hash; a root; iterators | insert, remove, at, iterator, lower_bound, setRoot, purge, check; trie roots built from nothing | nodes under 32 bytes are inline; counting kills; every shape an insertion reaches must be undone by removals | contents readable; exact counts; one canonical root per contents |
| **Transactions** (`TransactionBase`, with `Wallet::signTransaction`, `ledger.cpp`, `Utils::decodeRawTransaction`) | fields, `vrs`, chain id, cached hash and sender | build, sign, setNonce, forceSender, sender, sha3, rlp, decode | the chain id is folded into `v` in an `int`; caches; signing may fail half-way | the signature fits the object; a raw string decodes to what was signed, and by whom |
| **RLP** (`RLP.cpp`, `RLP.h`) | a stream's bytes and its stack of open lists; a reader's view of bytes, with the item its last `operator[]` reached | `append`, `appendList`, `appendRaw`, `out`, `swapOut`, `clear`; `operator[]`, iterators, `toInt`, the checks of the constructors | a list's header is put in front of it when its last item comes; a refused append; lengths at 55/56 bytes and at word size; what is kept between two `operator[]` | what the stream writes is read back; strict readers take one encoding of a value; items are the same however they are reached |
| **Solidity ABI, Contract** (`Solidity.cpp`, `Contract.cpp`) | `_methods` and `_functors`, parsed from an interface; `options`, assigned from outside; an encoder's two strings and offset | constructor, `clone`, both call operators, `packMulti` with `packX`, `checkType`; `soliditySha3` | heads, tails and offsets built in one pass; two encoders; tables that fit one interface and options that hold another | a decoder that follows the offsets finds the arguments; the selector is that of the function called; the Error tells |
| **Ledger** (`ledger/comms.cpp`, `encoding.cpp`, `ledger.cpp`) | a device handle, a list of accounts | check the device, add an account, sign a transaction or a message | packages that must follow one another, answers that come late, a user who refuses, unplugging | the user is asked about what was passed; what is returned belongs to the call; every call ends |
| **Provider, Net** (`Provider.cpp`, `Net.cpp`) | host, target, port, chain id, explorer; a lock in `Net` | setters, presets, `HTTPRequest` | replaced by one thread, without the lock, while another posts | a request goes to one provider's host, target and port |
| **Account** (`Account.cpp`) | address, derivation path, nonce, history database | construction (one request), history save | the constructor throws with the request | part of the wallet's list |
| **Eth, RPC, Web3** (`Eth.cpp`, `RPC.cpp`, `Web3.h`) | none beyond references and `defaultBlock` | one JSON request per method, its arguments checked by `RPC` | forty lists of checks written by hand; an Error decides whether a request is built | what the documentation asks for is let through, and nothing else |
| **Error** | a code, set once | setCode, what | reused by callers; written from another thread; not written when a call throws | it tells how its call ended |
| **Utils** | `storageLock` | conversions; the JSON file reader and writer | a lock left by an early return | see Wallet |
| **Cipher, Bip39, devcrypto** | none | encryption, hashing, key derivation, signatures | cryptography | taken as perfect |
| **devcore helpers, ICAP, certificates** | none | containers, conversions, data | – | – |

How they interact. An application thread calls `Web3`, which owns a `Wallet`
(two `Database`s, the list of `Account`s), an `Eth` and a `Provider`. The wallet
reads and writes its databases and, through `Utils`, the seed file; building an
account, a transaction or sending one posts a request through `Net`, which throws
when the provider cannot be reached. `Wallet::signTransaction` and the ledger
build `TransactionBase` objects, sign them and return hex strings, which
`Utils::decodeRawTransaction` reads and `sendTransaction` posts from another
thread; what a `Contract` packs is the data of such a transaction. Transactions,
tries and the key store's index all write and read RLP. `KeyManager` keeps an
index over a `SecretStore`; it and the tries belong to the library but no other
part of it calls them: their callers are the applications.

`PROJECT.json` lists the hazards, what is hard to test in this code, each at its
line, with the properties that watch it. Undefined behaviour that has no
outcomes to enumerate is left out by a named guard (`RemoveDefined`,
`EncodeDefined`, section 2).

## 2. Modules and code

| module | models | composed with |
|---|---|---|
| `PasswordCache` | the remembered password and its handler threads | – |
| `WalletStore` | the wallet's calls step by step, over disk and memory | implements `AccountVault` |
| `AccountVault` | abstract: a password claimed once, accounts held under it | – |
| `Database` | threads inside the wrapper | implements `KeyValueMap` |
| `KeyValueMap` | abstract: a map that changes by whole operations | – |
| `KeyStore` | `KeyManager` over `SecretStore` over files | – |
| `StateCacheDB` | the counted node store, as operators on a store value | used by `TrieDB` |
| `TrieNode` | nodes, their sizes, construction from nothing (`hash256`) | used by `TrieDB` |
| `TrieDB` | the trie with its rollback, purge and iterator | uses both above |
| `Transaction` | one transaction object and the paths that make and read one | – |
| `Ledger` | a call to a Ledger device, down to packages, frames and reads, with the device and its user | – |
| `Rpc` | the requests `RPC` builds: each method's checks, codes and parameters, as operators | used by `Requests` |
| `Requests` | threads that post requests of `Eth`, `Wallet`, `Account` and `RPC` while the Provider is replaced and Errors are shared | – |
| `Abi` | a `Contract`'s tables, the layout of an argument and the checks of `Solidity` and of the older encoder, as operators | used by `Contract` |
| `Contract` | a contract built, cloned, with options assigned, called through either encoder; `soliditySha3` | – |
| `RlpFormat` | headers, lengths, the constructors' checks, items and numbers, as operators | used by both below |
| `RlpStream` | `RLPStream` with its stack of open lists | composed in `Rlp` |
| `RlpReader` | an `RLP` object: `operator[]` with the item it keeps, loops over its items | composed in `Rlp` |
| `Rlp` | a stream, and an object read from what it wrote or from any bytes | composes the two |
| `MC...` | bounds for TLC | extends its module |
| `...Proofs` | the theorems | extends its module and `TLAPS` |

**State and actions.** A VARIABLE is a member, a file or a program counter of
the code; variables of the history, which no action of the code reads, are named
so in the declaration. An action is an operation where nothing can come between
its parts (`Database!Put` under the mutex, every operation of `TrieDB` and
`Transaction`), and a step of one where something can:

- `PasswordCache`: one application thread calls `storePassword` and
  `clearPassword`; each assignment of `_password` or `_passEnd` is a step, and so
  is each line of `passHandler`'s loop. Two writes of the same `std::string`
  without a lock are undefined behaviour: the result is either value or `Torn`.
  `_passEnd` starts with any value, as the constructor leaves it uninitialised.
- `WalletStore`: a call runs through the steps `mkdirs`, `putInfo`, `openSeed`,
  `writeSeed`, `populate`, `verify`, `readSeed`, `import`, `put`, `construct`,
  `unlist`, `dbDelete`, in the code's order; any put, request or stream write may
  fail the way the code sees it (`false`, an exception, silence), and `Crash` may
  come between any two, after which a new process has the files and nothing else.
  Encryption under a password is that password.
- `KeyStore`: a save truncates and writes every key file in turn; `write`
  replaces the salt and then the index. `Fault`s are failing writes and crashes.
  A key file holds its address, the password that opens it, and whether the
  address was noted in it; the index holds the salt generation and password it
  was encrypted under.
- `Database`: a call is `Lock`, the LevelDB call with the unlock, and for what
  the code does after the unlock (`return tmpValue`, `dbStatus.ok()`) a further
  step. A read of a member that another thread is assigning may give anything.
- `TrieDB`: perfect hashing (the hash of a node is the node itself, wrapped) and
  the real byte sizes, so that the 32-byte threshold between inline and hashed
  nodes is where the code has it. Operators thread the store through insertion,
  removal, kill and deref in the code's order, since an exception in the middle
  (`isTwoItemNode`, `TrieDB.h` 903) leaves what was done so far. The recursion of
  `atAux`, `mergeAt` and `deleteAt` is two functions of a number: `Calls`, what each
  call is passed on the way down (`mergeAt` kills on it), and what each returns, from
  the last one (`Found`, `Put`, `Take`) back to the first. The iterator's loop is a
  function of its turns, at most `MostTurns`. The flag `exact`
  turns FALSE where the code itself gives up exact counts: after such an
  exception, and after `setRoot` back to an old root, which takes no reference.
  `Purge` is taken only while `exact` holds and no iterator is open, as a caller
  must; `RemoveDefined` leaves out the undefined read of line 984.
- `Transaction`: one object at a time. A hash is what was hashed; a signature's
  point is who signed what with which recovery bit; recovering with anything else
  gives nobody or a stranger. Integer widths are kept: `v` is computed in an
  `int` that wraps, written as a word and read back into an `int` and a byte.
  `WalletSign` includes the wallet's unchecked use of `sign` (a key outside the
  curve's order leaves a zero signature, and the string is returned without an
  error); `LedgerSign` the device's one-byte `v` and the parity taken from it.
  `EncodeDefined` leaves out the read of an empty optional (a zero signature
  without a chain id).

- `Ledger`: a call runs three exchanges (is the right app open, what is the address
  of the path, sign); each write of a package and each read of a frame is a step.
  A frame carries what it is part of, so that answers read out of turn are told
  from the right ones; `doubt` (history) notes that a read timed out with
  something still to come. What `parsePath` makes of an unhardened first index is
  nondeterministic (its flag is not initialised), and so is what
  `decodeSignEthMessage` reads outside its vector. The device keeps what it was
  sent of a message until it is answered, refused or replaced; it may refuse
  anything, and what a closed handle had not read may be lost or not.

- `Requests`: a call is its start (the arguments as `Eth` or `Wallet` passes them on),
  the building of its request with the Error that decides, the lock, one step per
  field copied, the unlock and the answer. `setProvider` assigns one field per step;
  what is copied from a field being assigned is the old value, the new one or
  `Mixed`. A text is its "0x"s, its length and what its characters are. `Rpc` lists
  each method's checks in the code's order; an array is the set of its elements.

- `Contract`: an encoder is one step per argument it packs, over two sequences of
  words (heads, tails) and the offset it keeps; `starts` (history) is where the
  tails stood before each argument. A word is 64 digits: a number, a value that
  fills it, or a part of a longer content. A selector is what was hashed.
  `argType` stays uninitialised for a type no branch takes: it is any member of the
  enum or none. `own` (history) says that the tables were built from what the
  options hold, and `fresh` that the call was passed an Error nobody had set.
- `Rlp`: bytes, and the code's constants (256, 0x80, 0xc0, 8) as CONSTANTS: a small
  base has all the boundaries in few bytes. A call of the stream writes its bytes;
  each turn of `noteAppended`, which may close a list around the one it closed, is a
  step. `opened` (history) is what was announced and given, of the stream and of
  each open list; `made` the output of an earlier stream, to be appended or read.
  Each turn of the loop in `operator[]`, and each `operator++`, is a step; `answer`,
  `threw` and `visited` are history. A stream and an object share nothing, so there
  is one at a time.

**Defects.** An operator introduced by "A defect" is a plausible bug in the
definition that follows it. It is part of no specification; `PROJECT.json` lists
it as a mutant, with the property it breaks.

## 3. Runs and bounds

Passing runs (every property listed has a mutant that breaks it):

| run | bounds | what it shows |
|---|---|---|
| `pass_cache` | 2 handlers, 1 password, durations 0-2, stores until second 2, clock to 4 | `TimedHasKeeper`: a timed password always has a thread that has yet to clear it. `KeptToDeadline`: without an older handler it is not cleared early. `TimedIsForgotten`: it is cleared in the end |
| `wallet` | 2 accounts, 2 passwords, no address listed more than 3 times | `OnePassword`: `walletInfo`, seed, accounts and `passHash` are under one password. `ListIsBacked`: a list loaded once shows stored accounts. `KeysAreKept`: a key leaves only by its deletion. `ImplementsVault`: the files implement `AccountVault`. `CallsReturn`: a call returns unless the lock was left behind |
| `keystore` | 2 key files, 1 address and the zero address, 2 passwords, 1 fault | `LookupsAgree`, `KeysAreSynced` (memory and files), `IndexOpens` (except where salt was cut from index), `HashesOpen` (a key's hash is of its password), `HashesRecognised` (and salted as typed passwords are) |
| `database` | 2 threads, 2 keys, 2 values | `TrueMeansDone`: a reported write happened although the status is read after the unlock. `GetReturnsItsRead` unless another get came between. `ImplementsMap` |
| `trie` | 4 keys over 2 nibbles, values of 5 and 40 bytes, 2 changes between purges | `ReadsContents`; `CountsAreExact`: each count is the number of references there are; `RootIsHash256`: the root depends on the contents only; `SnapshotIsRead`: an old root reads back its contents until the purge, and `IteratorKeepsSnapshot`: an iterator walks them in order; `LowerBoundIsFirst` |
| `transaction` | 2 keys, 2 nonces, 1 body, chain ids 0, 1, 13, 14, 65 where an `int` holds less than 64 | `SignatureFits`; `ReportIsTrue`: what `decodeRawTransaction` shows of a string made here is what was signed, and by whom; `CachesAreFresh` |
| `ledger` | packages of 8 bytes, paths of 2 and 3, messages of 0 to 14 bytes, 7 calls; 1 frame may wait when a call begins | `AsksWhatWasPassed`: the user is only asked about a whole message as one call passed it. `SignatureIsGenuine` and `AccountsAreTrue`, if no answer came late and the path's first index is hardened. `CallsEnd` while the device stays connected. |
| `requests` | 2 threads, 2 providers, 1 Error; every method with right arguments, without its optional ones, and with each argument replaced by each of 14 texts | `PostsToOneProvider` for a request that met no change under the lock. `ErrorIsOutcome`: an Error passed to one `sendTransaction` tells how it ended, and is unset when it threw. `CheckedAsDocumented`: RPC lets through what its documentation asks for |
| `abi` | 10 types and what is packed as them; contents of 0, 4, 63, 64 and 66 digits, arrays of 0 to 3, every refusal; a contract with each of 40 pairs of types, one with overloads and no parameters, one with unknown types; 2 arguments of `soliditySha3` | `TailsAreFound`: an offset written is where the tail begins. `AnswerDecodes`: a decoder finds each argument. `SelectorIsDeclared`: the call goes to the function the options declare, through clones and assignments. `ErrorTells` |
| `rlp` | base 10, strings from 2, lists from 6, lengths of 1 and 2 bytes; 5 calls and 2 open lists; all byte strings up to 3, lists of 5; 4 indices | `ReadsBack`: what a stream holds is, item by item, what it was given. `StrictIsCanonical`: bytes `VeryStrict` takes are the only ones for their value. `ReadersAgree`: `operator[]` and loops find the same items. `LoopsEnd` |

The type invariants of the modules with proofs are proved (section 5) and not run
again.

Violation runs, each checking what a comment of the repository says, refuted by
what the code does (section 6): `wallet_hang`, `abi_offsets`.

Why the bounds are enough for the cases they are meant to show:

- Two handlers are the least that overlap; the deadlines lie before, at and after
  the time another handler wakes. `ClockLimit` exceeds every deadline.
- One wrong password and one account besides the default show every branch of the
  wallet's checks; a list of up to three occurrences lets `loadWallet` be
  repeated, and `MaxListed` stops only that. Crashes and failures are unbounded.
- One fault in the key store is followed by any number of calls, so that they
  meet what it left; two files let one be torn while another is imported, and two
  share an address. Passwords and file names are used symmetrically.
- In the trie a leaf is inline, a branch of two leaves is exactly 32 bytes long
  and a long leaf is hashed; the keys are prefixes of one another, diverge at the
  first nibble and at the last. Two unpurged changes let a node be killed and come
  back before the purge.
- Chain ids in an `int` of 64: 1 and 13 fit, 14 fits with one of the recovery
  bits, 65 wraps to the `v` of chain 1, 0 is what decoding rejects. The real
  widths behave alike at 2^31; the proofs do not fix them.

- The Ledger messages are empty, fit one package with their header, end one byte
  into the second or fill it, which is where `>= 150` decides; the header of a
  personal message makes the difference. Any number of calls follow one another,
  so that each may meet what the others left at the device.

- Of two requests one asks for everything and the other sends, so that an Error is
  shared or not and copies overlap a change at every field. The texts lie on both
  sides of each check: no "0x", one, two; 62, 64 and 65 digits; a bad checksum.

- The encoders treat arguments one after the other, so that two next to each other show
  each effect of one on the next; three stand in one function, with a tail between two
  arrays. Contents end before, at and after a word's end. The proofs are for any
  number of arguments.
- In `rlp`, a string of 8 bytes has a length of its own, a list of it one of two
  digits, and three of them one of two bytes; five calls close two lists at once, refuse an
  append into the inner one and go on. Byte strings of 3 meet every combination of
  first bytes, lengths that are too long, too short and with a zero in front. `Room`
  keeps a stream, with the headers it is still to get, below the lengths an `RLP`
  reads (2^64 - 257 bytes in the code); five calls never reach it.

`CHECK_DEADLOCK FALSE` is set for `PasswordCache` only: its clock and its
handlers run out, and an application may stop calling.

## 4. Fairness

- `PasswordCache`: `WF` of a call in progress and of each handler, as the
  operating system schedules runnable threads; `SF` of `Tick`, as the clock
  advances, whatever calls hold it back at the bound in between. No fairness
  makes the application call.
- `WalletStore`: `WF(CallStep)`: a call in progress continues or fails (a
  request has a timeout). Not for calls to begin, nor for crashes. `storageLock`
  may still block a step for ever; `CallsReturn` says this is the only reason.
- `Rlp`: `WF` of a loop's `operator++` and of its end, as a caller's loop goes on.
- `Ledger`: `WF(HostStep)`, as the calling thread runs, and `WF(DeviceStep)`, as a
  connected device answers and its user decides; not for plugging in or out.
- `KeyStore`, `TrieDB`, `Transaction` and `Contract` state no liveness: their
  operations are sequential and each runs to its end. `Database` and `Requests`
  state none either: a mutex is held for one call or three copies and is not fair,
  so that no caller is promised its turn, and the rest is the network's.

## 5. Proofs

Each proof module proves `THEOREM Spec => []Inv` from the module's named
assumptions on its constants (that the sentinels are distinct from the data, and
the ranges of the bounds), by an invariant that is inductive.

| module | theorems | invariant and why it is needed |
|---|---|---|
| `WalletProofs`, about `PasswordCache` | `CacheTypeCorrect`, `KeeperAlways` (`TimedHasKeeper`), `NotForgottenEarly` (`KeptToDeadline`), for any number of handlers, any durations and clock | `CallPhase` ties the history to the arguments of a call in progress; `SoloStore` says that after a store which met no handler only its own is alive and judges by its own deadline |
| `WalletProofs`, about `WalletStore` | `TypeCorrect`, `OnePasswordAlways`, `ListIsBackedAlways`, `KeysAreKeptAlways`, `ImplementsVaultAlways`, for any accounts and passwords | `WalletInfoFirst`: past `putInfo`, and whenever a seed or key exists, the password is stored and is the call's; `ListSteps`: between the steps of a call the list lags the store by the one account the call is about; `DeleteIsAsked`: only a call of deleteAccount reaches the steps that delete. The refinement maps each step to `Claim`, `Add`, `Remove` or a stutter |
| `WalletProofs`, about `Database` | `DbTypeCorrect`, `TrueIsDone` (`TrueMeansDone`), `GetReturnsItsReadAlways`, `ImplementsMapAlways`, for any threads, keys and values | `ReportsDone`: a thread that has yet to look at the status after the unlock has done its write; `BufferIsOwn`: until another thread assigns it, the shared buffer holds what the get that is about to copy it has read |
| `TransactionProofs` | `TypeCorrect`, `SignatureFitsAlways`, `ReportIsTrueAlways`, `CachesAreFreshAlways`, for any keys, bodies, nonces, chain ids, strings from outside and widths in the order of the code's | `TypeInv` types the last answer too; `SigInv` adds `OutGenuine`, that the last raw string came from an object whose signature fits. The lemmas `RawVFits`, `Parity` and `RoundTrip` do the arithmetic of `v`; `GenuineDecodes` carries it to the report |
| `LedgerProofs` | `TypeCorrect`, `AskedAlways` (`AsksWhatWasPassed`), `SignatureIsGenuineAlways`, `AccountsAreTrueAlways`, for any calls, paths, sizes of messages and rooms in the frames | `SentSoFar`: past the first package the device has this call's message as far as it is packed, or nothing, or has yet to look at the package that ends there; `PartsFollow`: a package that goes on meets a device that ends where it begins. `InTurn`: as long as no answer was left to a later exchange (`doubt`), what the device is to answer, what waits to be read and what was read since the exchange began belong to it, so that both decoders find what they look for; a step that leaves an answer behind sets `doubt` |
| `RequestsProofs` | `TypeCorrect`, `OneProviderAlways` (`PostsToOneProvider`), `OutcomeAlways` (`ErrorIsOutcome`), `ChecksAlways` (`CheckedAsDocumented`), for any threads, calls, providers, errors and texts | `Whole`: the fields a change has assigned are the new Provider's; `Still`: no change began under a holder that still counts on its Provider; `UsesOneError`, `UsesItsError`: a call writes only to the Error it was passed, so that another call's is left alone. `CallKeepsErrors` is the step all actions share. For the checks, one lemma per method (`MethodsAsDocumented`): the list of checks `RPC` writes by hand asks each argument for its documented form, a hash by two checks; `CodeTells`: the code of such a list is unset exactly when all of them pass. `FreshIsUnset`, `Unbuilt`: the Error a builder looks at is one nothing has written to; `BodyTells`: a request was built only when it was unset |
| `KeyStoreProofs` | `TypeCorrect`, `LookupsAgreeAlways`, `KeysAreSyncedAlways`, `IndexOpensAlways`, `HashesOpenAlways`, `HashesRecognisedAlways`, for any uuids, addresses, passwords and faults | none of the five is inductive. `CallFits`, `CallsKey`: what the steps of a save, an import or a recode count on when they take over; `FilesAreThere`, `SaltIsCurrent`: whoever has a key of the index has both files, and unless the salt was cut off, one of its salt; `OwnAddress`: file, lookup and index entry name a key by its own address, which a crash brings together again; `SavesSync`: past the keys still to be saved, disk and memory agree; `OnePass`, `OneSalt`: file, memory and index have one password and one salt for a key, apart from those in doubt. One lemma per action, one step per part of the invariant it disturbs |
| `TrieProofs` | `TrieTypes` (`TypeOK`), `TrieReads` (`ReadsContents`), `TrieSnapshots` (`SnapshotIsRead`), `TrieCounts` (`CountsAreExact`), for any keys of any lengths, values, sizes and number of changes | see below |
| `RlpProofs` | `ReadersAlwaysAgree` (`ReadersAgree`), `StrictAlwaysCanonical` (`StrictIsCanonical`), `ReadsBackAlways` (`ReadsBack`), for any base, any widths of lengths, any bytes, flags and indices, and streams of any strings, numbers and lists | `RInv`: the item an object keeps is its item `lastIndex`, and `lastEnd` where the next begins, unless a call threw over it; what a loop has had are the first items, and its iterator is at the next one. `StreamTypes`: what a stream holds is bytes, and with the headers to come they are fewer than a reader's lengths. That written bytes are the same is proved by induction over how many there are: an item is shorter than the bytes it is in (`ItemShorter`), a header written again is the one that was read (`HeaderBack`), and the items of a payload, one behind the other, are the payload (`ItemsFlattened`). TLA+ promises no function that is defined by recursion; `MeasureRecursion` shows that one exists when every argument calls for lesser ones. `SInv`, for what was written: the bytes of each open list, up to where the next one begins, read as the items it was given (`PartsRead`), no list begins before the one around it (`Ordered`), and each waits for as many as were announced to it, with those it refused, beyond the ones it was given (`PartsCounted`). `ReadsBoth`: items behind items read as both; `ListReads`, `StringReads`: a header and what it says read as one item (`HeaderReads`) |
| `ContractProofs` | `TypeCorrect`, `TailsAreFoundAlways`, `AnswerDecodesAlways`, `ErrorTellsAlways`, `SelectorIsDeclaredAlways`, for any interfaces, arguments of any size and any number of them | `CallInv`: the offset an encoder keeps is what the heads will take and the tails take so far, unless an argument was misplaced; each head found its tail, and nothing appended later moves it (`StaysFound`). The recursive sums of the layout (`Paddings`, `RoundedOffsets`) are unfolded at one number at a time; that a fact holds at all of them is shown by taking the set of numbers at which it does. `SelectorInv`: while the tables are of the options, every call under way was begun with the tables of its function, which are its declared parameters when no other method has its name (`OwnTables`) |

*The trie.* None of the four properties is inductive, since none says what the nodes
between the root and an entry look like. The invariant `Inv` of `TrieProofs` does:

- `Trie(n, l, D)`: from `n` down there are nothing, leaves, extensions to branches and
  branches with two things in use, for keys of at most `l` nibbles, and each node that
  is not inline is in the store's domain `D`. It is defined by a set of nodes closed
  under what a node may lead to, so that no recursive definition is needed.
- `Reads(root, contents)`: the search for any sequence of nibbles, key or not, ends
  with what the contents have for it.
- `Exact(main, root)`, while `exact`: the count of each node is the number of places
  below the root that refer to it by hash (`R`), and one more for the root.
- The first two for the iterator's root and contents as well.

`Merged` says what `mergeAt` does to any well-formed trie of any store with enough
counts: the result is one, holds the new entry and what was there, and the counts
changed by the references lost and gained (`Balanced`). It is proved for each case of
`Put` (`place`; `branch`, alone and below `cleve`), then from a call to the one before
it (`MergeUp`), by induction over the length of the key. `Deleted` is the same for
`deleteAt`, with `Tidied` for what `graft`, `merge` and the branch left with one child
make of the way back; when the code throws it promises no more than that no node is
lost, which is why `exact` is given up there. Insertion never removes a node, so
that every older root stays a trie (`RootedMore`); the purge removes what has no count,
which exact counts show is what the trie does not refer to (`FewerNodes`).
What a trie holds at each place, and how often, is stated with functions and
cardinalities; `Inv` quantifies over all tries, so TLC evaluates its consequences, which
are the run's properties, and not `Inv` itself. The assumptions are those of
`TrieNode` and `TrieDB`: nibbles below 16, keys of whole bytes up to `Longest`,
no empty value and none of more than 255 bytes (the model's RLP lengths have one byte).

That each proof goes through for every value is what the bounds of section 3
cannot show. In particular `ReportIsTrueAlways` holds for `int`s of 32 bits and
chain ids up to 2^30, where no enumeration reaches.

## 6. Where code and comments disagree

Two runs show a disagreement; each quotes its comment in `PROJECT.json`:

1. `wallet_hang`: `readJSONFile` returns with `storageLock` locked when the file is
   missing; the next call that needs it never returns (`Utils.cpp` 394).
2. `abi_offsets`: `packMulti` moves the offset of the next tail by 64 for each member
   of the JSON argument, which has two, and not of its array: behind an array that has
   not three items, the next dynamic argument is not where its offset says
   (`Solidity.cpp` 313), although it "correctly sets things like offsets and lengths
   with mixed data" (`Solidity.h` 125-126).

Read while modelling. The models do what the code does here, and the properties
name these cases as their exceptions.

*Wallet, database, requests.* An account loaded twice stays listed after its
deletion (`reloaded` in `ListIsBacked`). A password stored "indefinitely"
(`Wallet.h` 247) is wiped by the handler of an earlier, dismissed one
(`KeptToDeadline` asks for `last` to be a timed one that met no handler). A creation
cut after its directories leaves a wallet that exists and has no password. Of two
overlapping gets the first may return the other's value (`DB.cpp` 53), not "the
value linked to the given key" (`DB.h` 74). `setProvider` ignores the lock that is
there "to manage read/write access" (`Provider.h` 46), so a request may go to a
mixture (`under`). `sendTransaction` leaves its Error unset when it throws, although
"it will always be set to something" (`Error.h` 11), and a reused Error lets refused
arguments through (`users`). `eth_submitWork` checks the nonce for 8 and for 32
bytes and never posts, `eth_sign` leaves its address out, a hash may have an odd
digit more, and Eth's methods that put "0x" before a number or hash do so even when
it is there, and then refuse it (`CheckedAsDocumented`).

*Key store.* After a load with a wrong password `m_keysFileKey` is of that password
(`KeyManager.cpp` 54), and the next import or kill replaces the index, encrypted under
it and with the one new entry, whereas the class says to load first (`KeyManager.h`
141-142): `IndexOpens` holds all the same, with the wrong password.

*Tries, transactions, Ledger.* `setRoot` to an old root and a removal that throws
leave the reference counts wrong (`exact`). Deleting a key that ends at a branch
without a value reads the first nibble of an empty slice (`TrieDB.h` 984). `sha3` and
`sender` keep their caches across `setNonce` and `sign` (`stale`). `sender` of an
unsigned object that was built with a `from` answers it instead of throwing;
`setNonce` "clears any signature" by leaving a zero one, which `hasSignature`
reports. A Ledger answer that comes after a tenth of a second is taken for the next
exchange's (`doubt`), a read error loops for ever (`CallsEnd` excludes it), and an
unhardened path may name another account. The second package of a personal message
is marked as a first one, because the test leaves out the four bytes of the length
(`encoding.cpp` 193, `encoding.h` 77): no message longer than a package can be signed.

*ABI.* The selectors of `uint8` and `bytes32` parameters are those of `uint256` and
`bytes` when `packMulti` hashes them; overloads are put one behind the other in
`_methods`, while `_functors` keeps the last; a function without parameters is hashed
as `f)` (`Contract.cpp` 87) and is in no `_methods`; a type no branch takes leaves
`argType` uninitialised (`SelectorIsDeclared` names them). The older encoder writes
nothing for an empty `bytes[]` or `string[]`, and takes bytes that are no hex;
`packBytes` does not complete an odd digit (`Garbled`).

*RLP.* A refused append throws and leaves its bytes in the list, which closes with
more items than were announced (`NoteRefused`). After an `operator[]` that threw, the
next one throws for an item that is there (`threw`). `operator[]` of a string reads
its bytes as if they were items, although it should be `RLP()` (`RLP.h` 119).
`payload()` compares the length alone with the bytes there are (`RLP.h` 304), so an
object that is not strict may have a payload of no bytes; a loop over a list that
says it is shorter or longer than its bytes may never end (`LoopsEnd` is of the others).

## 7. What is only model-checked, and what is not modelled

Model-checked only: every liveness property (TLAPS proves none), and of `TrieDB`
`RootIsHash256`, `IteratorKeepsSnapshot` and `LowerBoundIsFirst`: that the trie is the
one `hash256` builds, and what a search or a walk visits and in which order.

Not modelled, or in part:

- *Cryptography* (`Cipher`, `Bip39`, `devcrypto`): taken as perfect.
- *Database* `openDB`/`closeDB`: they run in the constructor and the destructor,
  when no other thread may hold the object.
- *Wallet* `buildTransaction`: it changes no wallet state; it reads the chain id
  without the lock.
- *Key store*: presale secrets, `newKeyPair`, hints, names, and
  `SecretStore::recode` by address, which `KeyManager` does not call.
- *Tries*: `m_aux` and the fat trie's lookup, `EnforceRefs`, two tries over one
  store, typed wrappers.
- *Transactions*: null transactions, comparison, `checkLowS`, `checkChainId`.
- *Requests*: `Eth::defaultBlock` assigned while requests run, an Error destroyed
  before `sendTransaction`'s thread writes to it (both undefined behaviour of the
  caller's), booleans and other JSON types, TLS, `customHTTPRequest`.
- *ABI*: numbers past 256 bits (`u256` wraps), numbers written with a leading zero
  (read as octal), JSON that is neither text, array nor number, `type` members that
  are no text, the `packX` functions called on their own.
- *RLP*: which exception is thrown, `toHash`, `toBytes` and the conversions to
  containers, printing, and lengths past 64 bits.
- *Utils*: the conversions of units and numbers. *Web3* only constructs. *devcore
  helpers, ICAP, certificates*: conversions and data.
- `src/src/libs/catch2`, 23,400 of the repository's 39,300 lines of C++, is the
  vendored framework of its tests.

## 8. What remains

All that was planned is modelled. What would add most next:

1. Proofs that a well-formed trie is determined by what it holds, hence
   `RootIsHash256`, and that the iterator's turns visit its entries in order.
2. Two tries over one store, and `Eth::defaultBlock` assigned while requests run.
