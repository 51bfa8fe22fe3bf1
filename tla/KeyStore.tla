------------------------------ MODULE KeyStore ------------------------------
(***************************************************************************)
(* The two-level key store: SecretStore, one file per encrypted key, and   *)
(* KeyManager, an encrypted index ("keys file") with a salt file beside it *)
(* (SecretStore.cpp, KeyManager.cpp, CommonIO.cpp:108-128).                *)
(*                                                                         *)
(* One thread makes the calls.  Key files are rewritten in place, all of   *)
(* them by every save; the salt and keys files are written aside and       *)
(* renamed.  Any write can throw FileError and the process can die between *)
(* any two steps; a new process then reads what the disk holds.            *)
(*                                                                         *)
(* A password is what decrypts, so a key file is named by the password it  *)
(* is encrypted under.  A password hash is the password with the value     *)
(* that salted it, m_defaultPasswordDeprecated.  The keys file's own key   *)
(* is the password with a mark: derived from the salt now on disk, or from *)
(* one that was overwritten and that nobody will ever draw again.          *)
(***************************************************************************)
EXTENDS Integers

CONSTANTS
    Uuids, Addresses, Passwords,
    Zero,       \* the zero address: that of a key file which names none
    Unknown,    \* UnknownPassword, the zero hash
    Nothing,    \* no file, no map entry
    Torn,       \* a key file that was truncated and not written
    MaxFaults   \* bound: writes that fail and crashes

ASSUME FaultsAssumption == MaxFaults \in Nat

VARIABLES
    (* on disk *)
    saltFile,    \* the salt file exists
    keysFile,    \* the index: its key, its entries and its deprecated default password
    keyFile,     \* the file of each uuid
    (* SecretStore *)
    keys,        \* m_keys
    cached,      \* the uuids in m_cached
    (* KeyManager *)
    keyInfo,     \* m_keyInfo: the passHash of each address
    addrLookup,  \* m_addrLookup
    uuidLookup,  \* m_uuidLookup
    deprecated,  \* m_defaultPasswordDeprecated
    fileKey,     \* m_keysFileKey
    (* the call in progress *)
    pc, call,
    todo,        \* the keys that save() has not written yet
    writing,     \* the key whose file is truncated
    (* history *)
    unsaved,     \* m_keys changed and no save() has completed since
    saltCut,     \* the salt changed and the keys file was not written with it
    doubtful,    \* keys whose password and passHash were last set apart
    faults,      \* how many writes failed and processes died
    mixed        \* a write failed that leaves m_keyInfo and the keys file apart

disk == <<saltFile, keysFile, keyFile>>
store == <<keys, cached>>
index == <<keyInfo, addrLookup, uuidLookup, deprecated, fileKey>>
history == <<unsaved, saltCut, doubtful, faults, mixed>>
vars == <<disk, store, index, pc, call, todo, writing, history>>

Ops == {"none", "create", "save", "load", "import", "storeImport", "recode", "existing", "kill"}
Defaults == {"empty", "random"}
Keys == [addr : Addresses, pass : Passwords, noted : BOOLEAN]
Hashes == [pass : Passwords, salt : Defaults]
FileKeys == [pass : Passwords, current : BOOLEAN]
Entries == [Addresses -> [uuid : Uuids, hash : Hashes \union {Unknown}] \union {Nothing}]
Indexes == [key : FileKeys, entries : Entries, deprecated : Defaults]

ASSUME SentinelsAssumption ==
    /\ Zero \notin Addresses /\ Nothing \notin Uuids \union Addresses \union {Zero}
    /\ Nothing \notin Keys /\ Torn \notin Keys /\ Nothing # Torn
    /\ Unknown # Nothing /\ Unknown \notin Hashes /\ Nothing \notin Hashes
    /\ Nothing \notin FileKeys /\ Nothing \notin Indexes

TypeOK ==
    /\ saltFile \in BOOLEAN
    /\ keysFile \in Indexes \union {Nothing}
    /\ keyFile \in [Uuids -> Keys \union {Nothing, Torn}]
    /\ keys \in [Uuids -> Keys \union {Nothing}]
    /\ cached \subseteq Uuids
    /\ keyInfo \in [Addresses -> Hashes \union {Unknown, Nothing}]
    /\ addrLookup \in [Addresses \union {Zero} -> Uuids \union {Nothing}]
    /\ uuidLookup \in [Uuids -> Addresses \union {Zero, Nothing}]
    /\ deprecated \in Defaults
    /\ fileKey \in FileKeys \union {Nothing}
    /\ pc \in {"idle", "writeSalt", "writeKeys", "saving", "loadEnd"}
    /\ call \in [op : Ops, uuid : Uuids \union {Nothing}, addr : Addresses \union {Zero, Nothing},
                 pass : Passwords \union {Nothing}]
    /\ todo \subseteq Uuids /\ writing \in Uuids \union {Nothing}
    /\ unsaved \in BOOLEAN /\ saltCut \in BOOLEAN
    /\ doubtful \subseteq Uuids /\ mixed \in BOOLEAN /\ faults \in 0..MaxFaults

NoCall == [op |-> "none", uuid |-> Nothing, addr |-> Nothing, pass |-> Nothing]

\* A write fails or the process dies.
Fault == faults < MaxFaults /\ faults' = faults + 1

\* The address SecretStore::address reports for a key.
AddressOf(k) == IF k.noted THEN k.addr ELSE Zero
Held == {u \in Uuids : keys[u] # Nothing}

\* A random uuid that nothing on disk or in memory mentions.
Fresh(u) ==
    /\ keys[u] = Nothing /\ keyFile[u] = Nothing /\ uuidLookup[u] = Nothing
    /\ \A a \in DOMAIN addrLookup : addrLookup[a] # u
    /\ keysFile # Nothing => \A a \in Addresses :
           keysFile.entries[a] # Nothing => keysFile.entries[a].uuid # u

\* exists(): neither file is missing or empty (line 25).
Exists == saltFile /\ keysFile # Nothing

----------------------------------------------------------------------------

\* The constructor: SecretStore::load reads every file that parses, and the lookups
\* are filled from its keys in no particular order, so of two keys with one address
\* either may be the one addrLookup names (KeyManager.cpp:9-18, SecretStore.cpp:178-216).
Boot ==
    /\ keys' = [u \in Uuids |-> IF keyFile[u] = Torn THEN Nothing ELSE keyFile[u]]
    /\ cached' = {}
    /\ keyInfo' = [a \in Addresses |-> Nothing]
    /\ uuidLookup' = [u \in Uuids |-> IF keys'[u] = Nothing THEN Nothing ELSE AddressOf(keys'[u])]
    /\ addrLookup' \in
           {f \in [Addresses \union {Zero} -> Uuids \union {Nothing}] :
               \A a \in DOMAIN f :
                   IF f[a] = Nothing THEN \A u \in Uuids : uuidLookup'[u] # a
                                     ELSE uuidLookup'[f[a]] = a}
    /\ deprecated' = "empty" /\ fileKey' = Nothing
    /\ pc' = "idle" /\ todo' = {} /\ writing' = Nothing
    /\ call' = NoCall

Init ==
    /\ saltFile = FALSE /\ keysFile = Nothing
    /\ keyFile = [u \in Uuids |-> Nothing] /\ keys = keyFile
    /\ cached = {}
    /\ keyInfo = [a \in Addresses |-> Nothing]
    /\ addrLookup = [a \in Addresses \union {Zero} |-> Nothing]
    /\ uuidLookup = [u \in Uuids |-> Nothing]
    /\ deprecated = "empty" /\ fileKey = Nothing
    /\ pc = "idle" /\ todo = {} /\ writing = Nothing
    /\ call = NoCall
    /\ unsaved = FALSE /\ saltCut = FALSE
    /\ doubtful = {} /\ mixed = FALSE /\ faults = 0

Crash ==
    /\ Fault
    /\ Boot
    /\ unsaved' = FALSE
    /\ UNCHANGED <<disk, saltCut, doubtful, mixed>>

Begin(op, u, a, p) ==
    /\ pc = "idle"
    /\ call' = [op |-> op, uuid |-> u, addr |-> a, pass |-> p]

\* A defect: save() is entered before the call changed m_keys.
BeginSaveEarly ==
    /\ pc' = "saving" /\ unsaved' = TRUE
    /\ todo' = Held
    /\ UNCHANGED writing

\* save() is entered, for the keys of m_keys as the call changed it.
BeginSave ==
    /\ pc' = "saving" /\ unsaved' = TRUE
    /\ todo' = {u \in Uuids : keys'[u] # Nothing}
    /\ UNCHANGED writing

\* write(m_keysFile), which does nothing before a create or a load (line 300).
BeginWrite == pc' = IF fileKey = Nothing THEN "idle" ELSE "writeKeys"

----------------------------------------------------------------------------
(* Writing: SecretStore::save, KeyManager::write *)

\* writeFile opens the file of u with std::ios::trunc (CommonIO.cpp:121).
TruncateKey(u) ==
    /\ pc = "saving" /\ writing = Nothing /\ u \in todo
    /\ keyFile' = [keyFile EXCEPT ![u] = Torn]
    /\ writing' = u
    /\ UNCHANGED <<saltFile, keysFile, store, index, pc, call, todo, history>>

WriteKey ==
    /\ writing # Nothing
    /\ keyFile' = [keyFile EXCEPT ![writing] = keys[writing]]
    /\ todo' = todo \ {writing} /\ writing' = Nothing
    /\ UNCHANGED <<saltFile, keysFile, store, index, pc, call, history>>

\* FileError leaves save() and the call; load catches it and returns false.
SaveThrows ==
    /\ Fault
    /\ pc = "saving" /\ todo # {}
    /\ pc' = "idle" /\ call' = NoCall /\ todo' = {} /\ writing' = Nothing
    /\ mixed' = (mixed \/ call.op = "load")
    /\ UNCHANGED <<disk, store, index, unsaved, saltCut, doubtful>>

\* write(pass): a new salt replaces the old one (lines 308-313).
WriteSalt ==
    /\ pc = "writeSalt"
    /\ saltFile' = TRUE
    /\ keysFile' = IF keysFile = Nothing THEN Nothing ELSE [keysFile EXCEPT !.key.current = FALSE]
    /\ fileKey' = IF fileKey = Nothing THEN Nothing ELSE [fileKey EXCEPT !.current = FALSE]
    /\ saltCut' = TRUE
    /\ pc' = "writeKeys"
    /\ UNCHANGED <<keyFile, store, keyInfo, addrLookup, uuidLookup, deprecated, call, todo, writing,
                   unsaved, doubtful, faults, mixed>>

\* A defect: a key in m_keysFileKey is used even after a new salt was written.
WriteKeysOldKey ==
    /\ pc = "writeKeys"
    /\ fileKey' = IF fileKey = Nothing THEN [pass |-> call.pass, current |-> TRUE] ELSE fileKey
    /\ keysFile' = [key |-> fileKey', deprecated |-> deprecated,
                    entries |-> [a \in Addresses |->
                        IF keyInfo[a] = Nothing THEN Nothing
                                                ELSE [uuid |-> addrLookup[a], hash |-> keyInfo[a]]]]
    /\ saltCut' = (saltCut /\ call.op \notin {"create", "save"})
    /\ doubtful' = IF call.op = "recode" THEN doubtful \ {call.uuid} ELSE doubtful
    /\ pc' = "idle" /\ call' = NoCall
    /\ UNCHANGED <<saltFile, keyFile, store, keyInfo, addrLookup, uuidLookup, deprecated,
                   todo, writing, unsaved, faults, mixed>>

\* write(key): the index of m_keyInfo, encrypted (lines 317-337).  A call that was not
\* given a password uses m_keysFileKey.
WriteKeys ==
    /\ pc = "writeKeys"
    /\ fileKey' = IF call.op \in {"create", "save"} THEN [pass |-> call.pass, current |-> TRUE]
                                                    ELSE fileKey
    /\ keysFile' = [key |-> fileKey', deprecated |-> deprecated,
                    entries |-> [a \in Addresses |->
                        IF keyInfo[a] = Nothing THEN Nothing
                                                ELSE [uuid |-> addrLookup[a], hash |-> keyInfo[a]]]]
    /\ saltCut' = (saltCut /\ call.op \notin {"create", "save"})
    /\ doubtful' = IF call.op = "recode" THEN doubtful \ {call.uuid} ELSE doubtful
    /\ pc' = "idle" /\ call' = NoCall
    /\ UNCHANGED <<saltFile, keyFile, store, keyInfo, addrLookup, uuidLookup, deprecated,
                   todo, writing, unsaved, faults, mixed>>

\* The salt or the keys file cannot be written: FileError leaves the call.
WriteThrows ==
    /\ pc \in {"writeSalt", "writeKeys"}
    /\ Fault
    /\ pc' = "idle" /\ call' = NoCall /\ mixed' = TRUE
    /\ UNCHANGED <<disk, store, index, todo, writing, unsaved, saltCut, doubtful>>

----------------------------------------------------------------------------
(* create, save, load: "call exists() ... if so, ... load() ... if not, create()"
   (KeyManager.h, class comment) *)

Create(p) ==
    /\ ~Exists
    /\ Begin("create", Nothing, Nothing, p)
    /\ deprecated' = "random"
    /\ pc' = "writeSalt"
    /\ UNCHANGED <<disk, store, keyInfo, addrLookup, uuidLookup, fileKey, todo, writing, history>>

Save(p) ==
    /\ fileKey # Nothing
    /\ Begin("save", Nothing, Nothing, p)
    /\ pc' = "writeSalt"
    /\ UNCHANGED <<disk, store, index, todo, writing, history>>

\* The password is wrong, or the salt is not the one the file was written with: the
\* decrypted bytes are no RLP, RLP throws and load returns false.  m_keysFileKey was
\* assigned already (lines 54, 98-101).
LoadFails(p) ==
    /\ Exists /\ keysFile.key # [pass |-> p, current |-> TRUE]
    /\ pc = "idle"
    /\ fileKey' = [pass |-> p, current |-> TRUE]
    /\ UNCHANGED <<disk, store, keyInfo, addrLookup, uuidLookup, deprecated, pc, call, todo, writing,
                   unsaved, saltCut, doubtful, faults, mixed>>

\* The index is read; entries whose key the store lacks are skipped, and keys learn
\* their address from the index, which is then saved (lines 61-83).
Load(p) ==
    /\ Exists /\ keysFile.key = [pass |-> p, current |-> TRUE]
    /\ Begin("load", Nothing, Nothing, p)
    /\ fileKey' = keysFile.key
    /\ LET entry == keysFile.entries
           Read == {a \in Addresses : entry[a] # Nothing /\ entry[a].uuid \in Held}
           Learn == {u \in Held : ~keys[u].noted /\ \E a \in Read : entry[a].uuid = u}
       IN  /\ keyInfo' = [a \in Addresses |-> IF a \in Read THEN entry[a].hash ELSE keyInfo[a]]
           /\ addrLookup' = [a \in DOMAIN addrLookup |->
                                IF a \in Read THEN entry[a].uuid ELSE addrLookup[a]]
           /\ uuidLookup' = [u \in Uuids |->
                                IF \E a \in Read : entry[a].uuid = u
                                  THEN CHOOSE a \in Read : entry[a].uuid = u
                                  ELSE uuidLookup[u]]
           /\ keys' = [u \in Uuids |-> IF u \in Learn THEN [keys[u] EXCEPT !.noted = TRUE] ELSE keys[u]]
           /\ IF Learn = {} THEN pc' = "loadEnd" /\ UNCHANGED <<todo, writing, unsaved>> ELSE BeginSave
    /\ UNCHANGED <<disk, cached, deprecated, saltCut, doubtful, faults, mixed>>

LoadSaved ==
    /\ pc = "saving" /\ todo = {} /\ call.op = "load"
    /\ pc' = "loadEnd" /\ unsaved' = FALSE
    /\ UNCHANGED <<disk, store, index, call, todo, writing, saltCut, doubtful, faults, mixed>>

\* A defect: the salt of the password hashes is not restored from the file.
LoadEndUnsalted ==
    /\ pc = "loadEnd"
    /\ pc' = "idle" /\ call' = NoCall
    /\ UNCHANGED <<disk, store, keyInfo, addrLookup, uuidLookup, deprecated, fileKey, todo, writing,
                   unsaved, saltCut, doubtful, faults, mixed>>

\* The default password and the master password's hash follow (lines 85-96).
LoadEnd ==
    /\ pc = "loadEnd"
    /\ deprecated' = keysFile.deprecated
    /\ pc' = "idle" /\ call' = NoCall
    /\ UNCHANGED <<disk, store, keyInfo, addrLookup, uuidLookup, fileKey, todo, writing,
                   unsaved, saltCut, doubtful, faults, mixed>>

----------------------------------------------------------------------------
(* import, importExisting, recode, kill *)

\* import: the secret of address a is stored under a new uuid and saved ...
Import(u, a, p) ==
    /\ fileKey # Nothing /\ Fresh(u)
    /\ Begin("import", u, a, p)
    /\ keys' = [keys EXCEPT ![u] = [addr |-> a, pass |-> p, noted |-> TRUE]]
    /\ cached' = cached \union {u}
    /\ BeginSave
    /\ UNCHANGED <<disk, index, saltCut, doubtful, faults, mixed>>

\* ... and then enters the index (lines 172-175).
ImportSaved ==
    /\ pc = "saving" /\ todo = {} /\ call.op = "import"
    /\ keyInfo' = [keyInfo EXCEPT ![call.addr] = [pass |-> call.pass, salt |-> deprecated]]
    /\ addrLookup' = [addrLookup EXCEPT ![call.addr] = call.uuid]
    /\ uuidLookup' = [uuidLookup EXCEPT ![call.uuid] = call.addr]
    /\ unsaved' = FALSE
    /\ BeginWrite
    /\ UNCHANGED <<disk, store, deprecated, fileKey, call, todo, writing,
                   saltCut, doubtful, faults, mixed>>

\* store().importSecret or importKeyContent: a key enters the store and not the
\* index.  A key that came as a file is not decrypted and may name no address.
StoreImport(u, a, p, decrypted, named) ==
    /\ Fresh(u)
    /\ Begin("storeImport", u, a, p)
    /\ keys' = [keys EXCEPT ![u] = [addr |-> a, pass |-> p, noted |-> decrypted \/ named]]
    /\ cached' = IF decrypted THEN cached \union {u} ELSE cached
    /\ BeginSave
    /\ UNCHANGED <<disk, index, saltCut, doubtful, faults, mixed>>

StoreImportSaved ==
    /\ pc = "saving" /\ todo = {} /\ call.op = "storeImport"
    /\ pc' = "idle" /\ call' = NoCall /\ unsaved' = FALSE
    /\ UNCHANGED <<disk, store, index, todo, writing, saltCut, doubtful, faults, mixed>>

\* The hash getPassword holds a typed password against (lines 117-128).
HashOf(u) ==
    IF uuidLookup[u] \in Addresses /\ keyInfo[uuidLookup[u]] # Nothing
      THEN keyInfo[uuidLookup[u]] ELSE Unknown

\* secret(u) succeeds: the secret is cached, or its password passes getPassword.
CanOpen(u) ==
    /\ u \in Held
    /\ \/ u \in cached
       \/ HashOf(u) \in {Unknown, [pass |-> keys[u].pass, salt |-> deprecated]}

\* secret(u) puts the secret in m_cached and learns the key's address.
OpenSecret(u) ==
    /\ pc = "idle" /\ CanOpen(u) /\ u \notin cached
    /\ cached' = cached \union {u}
    /\ keys' = [keys EXCEPT ![u].noted = TRUE]
    /\ UNCHANGED <<disk, index, pc, call, todo, writing, history>>

ClearCache ==
    /\ pc = "idle" /\ cached' = {}
    /\ UNCHANGED <<disk, keys, index, pc, call, todo, writing, history>>

\* importExisting with a password: a secret that is in m_cached is returned whatever
\* the password, whose hash enters the index all the same (lines 179-200).
ImportExisting(u, p) ==
    /\ fileKey # Nothing /\ u \in Held /\ (u \in cached \/ keys[u].pass = p)
    /\ LET a == keys[u].addr IN
       /\ Begin("existing", u, a, p)
       /\ keyInfo' = [keyInfo EXCEPT ![a] = [pass |-> p, salt |-> deprecated]]
       /\ addrLookup' = [addrLookup EXCEPT ![a] = u]
       /\ uuidLookup' = [uuidLookup EXCEPT ![u] = a]
       /\ keys' = IF u \in cached THEN keys ELSE [keys EXCEPT ![u].noted = TRUE]
    /\ cached' = cached \union {u}
    /\ doubtful' = IF keys[u].pass = p THEN doubtful ELSE doubtful \union {u}
    /\ BeginWrite
    /\ UNCHANGED <<disk, deprecated, fileKey, todo, writing, unsaved, saltCut, faults, mixed>>

\* importExisting with an address and no password hash (lines 191-200).
ImportExistingUnknown(u) ==
    /\ fileKey # Nothing /\ u \in Held
    /\ LET a == keys[u].addr IN
       /\ Begin("existing", u, a, Nothing)
       /\ keyInfo' = [keyInfo EXCEPT ![a] = Unknown]
       /\ addrLookup' = [addrLookup EXCEPT ![a] = u]
       /\ uuidLookup' = [uuidLookup EXCEPT ![u] = a]
    /\ BeginWrite
    /\ UNCHANGED <<disk, store, deprecated, fileKey, todo, writing, history>>

\* recode: the key is encrypted under the new password and every key saved ...
Recode(a, p) ==
    /\ fileKey # Nothing /\ addrLookup[a] # Nothing
    /\ LET u == addrLookup[a] IN
       /\ CanOpen(u)
       /\ Begin("recode", u, a, p)
       /\ keys' = [keys EXCEPT ![u] = [addr |-> keys[u].addr, pass |-> p,
                                      noted |-> keys[u].noted \/ u \notin cached]]
       /\ cached' = cached \ {u}
       /\ doubtful' = doubtful \union {u}
    /\ BeginSave
    /\ UNCHANGED <<disk, index, saltCut, faults, mixed>>

\* A defect: the index keeps the hash of the old password.
RecodeSavedStale ==
    /\ pc = "saving" /\ todo = {} /\ call.op = "recode"
    /\ unsaved' = FALSE
    /\ BeginWrite
    /\ UNCHANGED <<disk, store, index, call, todo, writing, saltCut, doubtful, faults, mixed>>

\* ... and then the index learns the new password's hash (lines 41-42).
RecodeSaved ==
    /\ pc = "saving" /\ todo = {} /\ call.op = "recode"
    /\ keyInfo' = [keyInfo EXCEPT ![call.addr] = [pass |-> call.pass, salt |-> deprecated]]
    /\ unsaved' = FALSE
    /\ BeginWrite
    /\ UNCHANGED <<disk, store, addrLookup, uuidLookup, deprecated, fileKey, call, todo, writing,
                   saltCut, doubtful, faults, mixed>>

\* A defect: m_uuidLookup keeps the key.
KillForgetful(a) ==
    /\ Begin("kill", addrLookup[a], a, Nothing)
    /\ LET id == addrLookup[a] IN
       /\ UNCHANGED uuidLookup
       /\ addrLookup' = [addrLookup EXCEPT ![a] = Nothing]
       /\ keyInfo' = [b \in Addresses |-> IF b = a THEN Nothing ELSE keyInfo[b]]
       /\ cached' = cached \ {id}
       /\ keys' = [u \in Uuids |-> IF u = id THEN Nothing ELSE keys[u]]
       /\ keyFile' = [u \in Uuids |-> IF u = id /\ u \in Held THEN Nothing ELSE keyFile[u]]
       /\ doubtful' = doubtful \ {id}
    /\ BeginWrite
    /\ UNCHANGED <<saltFile, keysFile, deprecated, fileKey, todo, writing,
                   unsaved, saltCut, faults, mixed>>

\* kill(address): the index entry, the key and its file go, then the index is written
\* (lines 202-210).  kill(uuid) is kill(address(uuid)), the zero address if unknown.
Kill(a) ==
    /\ Begin("kill", addrLookup[a], a, Nothing)
    /\ LET id == addrLookup[a] IN
       /\ uuidLookup' = [u \in Uuids |-> IF u = id THEN Nothing ELSE uuidLookup[u]]
       /\ addrLookup' = [addrLookup EXCEPT ![a] = Nothing]
       /\ keyInfo' = [b \in Addresses |-> IF b = a THEN Nothing ELSE keyInfo[b]]
       /\ cached' = cached \ {id}
       /\ keys' = [u \in Uuids |-> IF u = id THEN Nothing ELSE keys[u]]
       /\ keyFile' = [u \in Uuids |-> IF u = id /\ u \in Held THEN Nothing ELSE keyFile[u]]
       /\ doubtful' = doubtful \ {id}
    /\ BeginWrite
    /\ UNCHANGED <<saltFile, keysFile, deprecated, fileKey, todo, writing,
                   unsaved, saltCut, faults, mixed>>

----------------------------------------------------------------------------
CallBegin ==
    \/ \E p \in Passwords : Create(p) \/ Save(p) \/ LoadFails(p) \/ Load(p)
    \/ \E u \in Uuids, a \in Addresses, p \in Passwords :
          \/ Import(u, a, p)
          \/ \E decrypted, named \in BOOLEAN : StoreImport(u, a, p, decrypted, named)
    \/ \E u \in Uuids : OpenSecret(u) \/ ImportExistingUnknown(u)
    \/ ClearCache
    \/ \E u \in Uuids, p \in Passwords : ImportExisting(u, p)
    \/ \E a \in Addresses, p \in Passwords : Recode(a, p)
    \/ \E a \in Addresses \union {Zero} : Kill(a)

CallStep ==
    \/ \E u \in Uuids : TruncateKey(u)
    \/ WriteKey \/ SaveThrows
    \/ WriteSalt \/ WriteKeys \/ WriteThrows
    \/ LoadSaved \/ LoadEnd \/ ImportSaved \/ StoreImportSaved \/ RecodeSaved

Next == CallBegin \/ CallStep \/ Crash

Spec == Init /\ [][Next]_vars

----------------------------------------------------------------------------
\* The two lookups agree about the keys the store has, and uuidLookup names no other:
\* address(uuid) never reports an address for a key that is gone.  addrLookup may, once
\* kill of a uuid the index does not know has killed the key found at the zero address.
LookupsAgree ==
    /\ \A u \in Uuids : uuidLookup[u] # Nothing => u \in Held
    /\ \A a \in Addresses : addrLookup[a] \in Held => uuidLookup[addrLookup[a]] = a

\* After any calls, and unless a save failed, the directory holds exactly the keys of
\* m_keys, under their passwords: "changes to the keys are automatically synced to
\* the directory" (SecretStore.h, class comment).
KeysAreSynced ==
    pc = "idle" /\ ~unsaved =>
        \A u \in Uuids : u \in Held =>
            keyFile[u] \notin {Nothing, Torn} /\ keyFile[u].pass = keys[u].pass

\* The index always opens with a password: unless a change of the master password was
\* cut between the two files, the keys file is encrypted with a key derived from the
\* salt that is on disk.
IndexOpens == ~saltCut /\ keysFile # Nothing => saltFile /\ keysFile.key.current

\* The passHash of an account is that of the password its key is encrypted under, or
\* getPassword would turn the right password away.  Only a recode that was cut between
\* the key's file and the index, or an importExisting whose password nothing checked,
\* sets them apart.
HashesOpen ==
    pc = "idle" => \A a \in Addresses :
        /\ keyInfo[a] \in Hashes /\ addrLookup[a] \in Held \ doubtful
        => keyInfo[a].pass = keys[addrLookup[a]].pass

\* The password hashes are salted with the value getPassword salts a typed password
\* with, across create, load, import and restarts, unless a write failed half-way.
HashesRecognised ==
    pc = "idle" /\ ~mixed =>
        \A a \in Addresses : keyInfo[a] \in Hashes => keyInfo[a].salt = deprecated

=============================================================================
