--------------------------- MODULE KeyStoreProofs ---------------------------
(* Proof of the key store's types and of its five invariants, for any uuids, addresses,  *)
(* passwords and number of faults: what the disk, the two lookups and the call under way *)
(* say of a key agrees in its address and, apart from the keys a recode or an            *)
(* importExisting left in doubt, in its password.                                        *)
EXTENDS KeyStore, TLAPS

(* The strengthening. *)

Writes == {"create", "save"}

\* What the steps of a call count on when they take over from the one before.
CallFits ==
    /\ pc # "saving" => todo = {} /\ writing = Nothing
    /\ todo \subseteq Held
    /\ writing # Nothing => writing \in todo
    /\ pc = "saving" => call.op \in {"load", "import", "storeImport", "recode"}
    /\ pc = "writeSalt" => call.op \in Writes
    /\ pc \in {"writeSalt", "writeKeys"} /\ call.op \in Writes => call.pass \in Passwords
    /\ pc = "loadEnd" \/ (pc = "saving" /\ call.op = "load") => keysFile # Nothing

\* The key an import or a recode is about, until the index has it.
CallsKey ==
    pc \in {"saving", "writeKeys"}
    /\ (call.op = "recode" \/ (call.op = "import" /\ pc = "saving")) =>
        /\ fileKey # Nothing
        /\ call.uuid \in Held /\ call.addr \in Addresses /\ call.pass \in Passwords
        /\ keys[call.uuid].addr = call.addr /\ keys[call.uuid].pass = call.pass
        /\ call.op = "recode" => addrLookup[call.addr] = call.uuid
        /\ pc = "writeKeys" =>
               keyInfo[call.addr] = [pass |-> call.pass, salt |-> deprecated] /\ ~unsaved

\* Files are never taken away, so that a key of the keys file has both.
FilesAreThere ==
    /\ pc = "writeKeys" => saltFile
    /\ pc = "writeKeys" /\ call.op \notin Writes => fileKey # Nothing
    /\ fileKey # Nothing => Exists
    /\ keysFile # Nothing => saltFile
    /\ fileKey = Nothing => \A a \in Addresses : keyInfo[a] = Nothing
    /\ \A a \in Addresses : keyInfo[a] # Nothing => addrLookup[a] # Nothing

\* The salt on disk is the one the index and m_keysFileKey were made with.
SaltIsCurrent ==
    ~saltCut =>
        /\ keysFile # Nothing => keysFile.key.current
        /\ fileKey # Nothing => fileKey.current

\* Everything that names a key names it by its own address.
OwnAddress ==
    /\ \A u \in Uuids : keyFile[u] \notin {Nothing, Torn} =>
           u \in Held /\ keyFile[u].addr = keys[u].addr
    /\ \A a \in Addresses : addrLookup[a] \in Held => keys[addrLookup[a]].addr = a
    /\ keysFile # Nothing => \A a \in Addresses :
           keysFile.entries[a] # Nothing /\ keysFile.entries[a].uuid \in Held
               => keys[keysFile.entries[a].uuid].addr = a

Synced(u) == keyFile[u] \notin {Nothing, Torn} /\ keyFile[u].pass = keys[u].pass
SavesSync ==
    /\ pc = "saving" => unsaved /\ \A u \in Held \ todo : Synced(u)
    /\ ~unsaved => \A u \in Held : Synced(u)

\* Of keys that are not in doubt the password is the same wherever it is.
OnePass ==
    /\ \A u \in Held \ doubtful :
           keyFile[u] \notin {Nothing, Torn} => keyFile[u].pass = keys[u].pass
    /\ \A a \in Addresses : keyInfo[a] \in Hashes /\ addrLookup[a] \in Held \ doubtful
           => keyInfo[a].pass = keys[addrLookup[a]].pass
    /\ keysFile # Nothing => \A a \in Addresses :
           /\ keysFile.entries[a] # Nothing /\ keysFile.entries[a].hash \in Hashes
           /\ keysFile.entries[a].uuid \in Held \ doubtful
           => keysFile.entries[a].hash.pass = keys[keysFile.entries[a].uuid].pass

\* A load takes over the salt of the file at its end; before, only the index that is
\* about to be written may have hashes the file has not.
Loading == pc = "loadEnd" \/ (pc = "saving" /\ call.op = "load")
OneSalt ==
    ~mixed =>
        /\ \A a \in Addresses : keyInfo[a] \in Hashes =>
               /\ ~Loading => keyInfo[a].salt = deprecated
               /\ pc # "writeKeys" => keysFile # Nothing /\ keyInfo[a].salt = keysFile.deprecated
        /\ keysFile # Nothing => \A a \in Addresses :
               keysFile.entries[a] # Nothing /\ keysFile.entries[a].hash \in Hashes
                   => keysFile.entries[a].hash.salt = keysFile.deprecated

IInv ==
    /\ TypeOK /\ CallFits /\ CallsKey /\ FilesAreThere /\ SaltIsCurrent /\ OwnAddress
    /\ LookupsAgree /\ SavesSync /\ OnePass /\ OneSalt

LEMMA Distinct ==
    /\ \A k \in Keys : k # Nothing /\ k # Torn
    /\ \A h \in Hashes : h # Nothing /\ h # Unknown
    /\ \A f \in FileKeys : f # Nothing
    /\ \A i \in Indexes : i # Nothing
<1> QED BY SentinelsAssumption

(* After a crash only the keys whose files are whole are held, so what the index says of *)
(* them still fits.                                                                      *)
LEMMA CrashKeeps ==
    ASSUME IInv, Crash
    PROVE  IInv'
<1>1. keys' \in [Uuids -> Keys \union {Nothing}] /\ Held' \subseteq Held
    BY DEF Crash, Boot, IInv, TypeOK, OwnAddress, Held
<1>2. \A v \in Held' : keys'[v] = keyFile[v] /\ keys'[v].addr = keys[v].addr
    BY DEF Crash, Boot, IInv, TypeOK, OwnAddress, Held
<1>3. \A v \in Uuids : uuidLookup'[v] = IF v \in Held' THEN AddressOf(keys'[v]) ELSE Nothing
    BY <1>1 DEF Crash, Boot, IInv, TypeOK, Held
<1>4. /\ addrLookup' \in [Addresses \union {Zero} -> Uuids \union {Nothing}]
      /\ \A b \in Addresses : addrLookup'[b] # Nothing => uuidLookup'[addrLookup'[b]] = b
    BY DEF Crash, Boot
<1>5. uuidLookup' \in [Uuids -> Addresses \union {Zero, Nothing}]
    BY <1>1, <1>3 DEF AddressOf, Keys, Held, Crash, Boot
<1>6. TypeOK'
  <2>1. faults' \in 0..MaxFaults
    BY FaultsAssumption DEF Crash, Fault, IInv, TypeOK
  <2>2. /\ saltFile' = saltFile /\ keysFile' = keysFile /\ keyFile' = keyFile
        /\ saltCut' = saltCut /\ doubtful' = doubtful /\ mixed' = mixed
        /\ cached' = {} /\ keyInfo' = [a \in Addresses |-> Nothing]
        /\ deprecated' = "empty" /\ fileKey' = Nothing /\ unsaved' = FALSE
        /\ pc' = "idle" /\ todo' = {} /\ writing' = Nothing /\ call' = NoCall
    BY DEF Crash, Boot, disk
  <2>3. call' \in [op : Ops, uuid : Uuids \union {Nothing}, addr : Addresses \union {Zero, Nothing},
                    pass : Passwords \union {Nothing}]
    BY <2>2 DEF NoCall, Ops
  <2> QED BY <1>1, <1>4, <1>5, <2>1, <2>2, <2>3 DEF IInv, TypeOK, Defaults
<1>7. CallFits'
    BY DEF Crash, Boot, CallFits
<1>8. CallsKey'
    BY DEF Crash, Boot, CallsKey
<1>9. FilesAreThere'
    BY DEF Crash, Boot, IInv, FilesAreThere, disk
<1>10. SaltIsCurrent'
    BY DEF Crash, Boot, IInv, SaltIsCurrent, disk
<1>11. OwnAddress'
  <2>1. \A u \in Uuids : keyFile'[u] \notin {Nothing, Torn} =>
            u \in Held' /\ keyFile'[u].addr = keys'[u].addr
    BY DEF Crash, Boot, IInv, TypeOK, Held, disk
  <2>2. \A a \in Addresses : addrLookup'[a] \in Held' => keys'[addrLookup'[a]].addr = a
    BY <1>3, <1>4, SentinelsAssumption DEF AddressOf, Held
  <2>3. (keysFile # Nothing => \A a \in Addresses :
           keysFile.entries[a] # Nothing /\ keysFile.entries[a].uuid \in Held
               => keys[keysFile.entries[a].uuid].addr = a)'
    BY <1>1, <1>2 DEF Crash, IInv, OwnAddress, disk
  <2> QED BY <2>1, <2>2, <2>3 DEF OwnAddress
<1>12. LookupsAgree'
    BY <1>1, <1>2, <1>3, <1>4, SentinelsAssumption DEF LookupsAgree, Held
<1>13. SavesSync'
    BY DEF Crash, Boot, SavesSync, Held, Synced, disk
<1>14. OnePass'
    BY SentinelsAssumption DEF Crash, Boot, Fault, IInv, TypeOK, CallFits, CallsKey, OwnAddress,
       OnePass, SavesSync, Held, Synced, disk
<1>15. OneSalt'
    BY SentinelsAssumption DEF Crash, Boot, Fault, IInv, OneSalt, TypeOK, CallFits, disk
<1> QED
    BY <1>6, <1>7, <1>8, <1>9, <1>10, <1>11, <1>12, <1>13, <1>14, <1>15 DEF IInv

(* A truncated file is of a key still to be saved. *)
LEMMA TruncateKeyKeeps ==
    ASSUME IInv, NEW u \in Uuids, TruncateKey(u)
    PROVE  IInv'
<1>1. CallsKey' /\ FilesAreThere' /\ SaltIsCurrent' /\ LookupsAgree' /\ OneSalt'
    BY DEF TruncateKey, IInv, CallsKey, FilesAreThere, SaltIsCurrent, LookupsAgree, OneSalt,
       Exists, Held, Loading, store, index, history
<1>2. TypeOK'
    BY DEF TruncateKey, IInv, TypeOK, store, index, history
<1>3. CallFits'
    BY DEF TruncateKey, IInv, CallFits, Held, store
<1>4. OwnAddress'
    BY DEF TruncateKey, IInv, OwnAddress, Held, store, index
<1>5. SavesSync'
    BY DEF TruncateKey, IInv, SavesSync, Held, Synced, store, history
<1>6. OnePass'
    BY DEF TruncateKey, IInv, OnePass, Held, store, index, history
<1> QED
    BY <1>1, <1>2, <1>3, <1>4, <1>5, <1>6 DEF IInv

(* A key file is written from m_keys. *)
LEMMA WriteKeyKeeps ==
    ASSUME IInv, WriteKey
    PROVE  IInv'
<1>1. CallsKey' /\ FilesAreThere' /\ SaltIsCurrent' /\ LookupsAgree' /\ OneSalt'
    BY DEF WriteKey, IInv, CallsKey, FilesAreThere, SaltIsCurrent, LookupsAgree, OneSalt,
       Exists, Held, Loading, store, index, history
<1>2. TypeOK'
    BY DEF WriteKey, IInv, TypeOK, store, index, history
<1>3. CallFits'
    BY DEF WriteKey, IInv, CallFits, Held, store
<1>4. OwnAddress'
    BY DEF WriteKey, IInv, OwnAddress, Held, store, index
<1>5. SavesSync'
    BY SentinelsAssumption DEF WriteKey, IInv, SavesSync, TypeOK, CallFits, Held, Synced, store,
       history
<1>6. OnePass'
    BY DEF WriteKey, IInv, OnePass, Held, store, index, history
<1> QED
    BY <1>1, <1>2, <1>3, <1>4, <1>5, <1>6 DEF IInv

(* A save that throws leaves unsaved set and, within a load, mixed. *)
LEMMA SaveThrowsKeeps ==
    ASSUME IInv, SaveThrows
    PROVE  IInv'
<1>1. SaltIsCurrent' /\ OwnAddress' /\ LookupsAgree' /\ OnePass'
    BY DEF SaveThrows, IInv, SaltIsCurrent, OwnAddress, LookupsAgree, OnePass, Held, disk,
       store, index
<1>2. TypeOK'
    BY SentinelsAssumption, FaultsAssumption DEF SaveThrows, Fault, IInv, TypeOK, NoCall, Ops,
       disk, store, index
<1>3. CallFits'
    BY DEF SaveThrows, CallFits
<1>4. CallsKey'
    BY DEF SaveThrows, CallsKey
<1>5. FilesAreThere'
    BY DEF SaveThrows, IInv, FilesAreThere, Exists, disk, index
<1>6. SavesSync'
    BY DEF SaveThrows, IInv, SavesSync
<1>7. OneSalt'
    BY DEF SaveThrows, IInv, OneSalt, Loading, disk, index
<1> QED
    BY <1>1, <1>2, <1>3, <1>4, <1>5, <1>6, <1>7 DEF IInv

(* A new salt sets apart what was derived from the old one. *)
LEMMA WriteSaltKeeps ==
    ASSUME IInv, WriteSalt
    PROVE  IInv'
<1>1. /\ keysFile # Nothing => keysFile' \in Indexes
      /\ fileKey # Nothing => fileKey' \in FileKeys
    BY DEF WriteSalt, IInv, TypeOK, Indexes, FileKeys
<1>2. /\ keysFile = Nothing => keysFile' = Nothing
      /\ fileKey = Nothing => fileKey' = Nothing
    BY DEF WriteSalt
<1>3. keysFile # Nothing => keysFile' # Nothing
    BY <1>1, SentinelsAssumption
<1>4. fileKey # Nothing => fileKey' # Nothing
    BY <1>1, SentinelsAssumption
<1>5. LookupsAgree'
    BY DEF WriteSalt, IInv, LookupsAgree, Held, store
<1>6. TypeOK'
    BY SentinelsAssumption DEF WriteSalt, IInv, TypeOK, CallFits, CallsKey, FilesAreThere,
       FileKeys, Indexes, store
<1>7. CallFits'
    BY DEF WriteSalt, IInv, CallFits
<1>8. CallsKey'
    BY SentinelsAssumption DEF WriteSalt, IInv, TypeOK, CallFits, CallsKey, OwnAddress,
       FilesAreThere, Writes
<1>9. FilesAreThere'
    BY <1>2, <1>3, <1>4 DEF WriteSalt, IInv, CallFits, FilesAreThere, Exists, Writes
<1>10. SaltIsCurrent'
    BY DEF WriteSalt, SaltIsCurrent
<1>11. OwnAddress'
    BY DEF WriteSalt, IInv, OwnAddress, Held, store
<1>12. SavesSync'
    BY DEF WriteSalt, IInv, SavesSync, Held, Synced, store
<1>13. OnePass'
    BY DEF WriteSalt, IInv, OnePass, Held, store
<1>14. OneSalt'
    BY DEF WriteSalt, IInv, OneSalt, Loading
<1> QED
    BY <1>5, <1>6, <1>7, <1>8, <1>9, <1>10, <1>11, <1>12, <1>13, <1>14 DEF IInv

(* The index is written from m_keyInfo and m_addrLookup. *)
LEMMA WriteKeysKeeps ==
    ASSUME IInv, WriteKeys
    PROVE  IInv'
<1>1. fileKey' \in FileKeys
    BY DEF WriteKeys, IInv, TypeOK, CallFits, FilesAreThere, FileKeys, Writes
<1>2. keysFile' \in Indexes
    BY <1>1, SentinelsAssumption DEF WriteKeys, IInv, TypeOK, FilesAreThere, Indexes, Entries
<1>3. keysFile' # Nothing /\ fileKey' # Nothing
    BY <1>1, <1>2, Distinct
<1>4. /\ keysFile'.deprecated = deprecated
      /\ \A a \in Addresses : keyInfo[a] = Nothing => keysFile'.entries[a] = Nothing
      /\ \A a \in Addresses : keyInfo[a] # Nothing =>
             keysFile'.entries[a].uuid = addrLookup[a] /\ keysFile'.entries[a].hash = keyInfo[a]
    BY DEF WriteKeys
<1>5. LookupsAgree'
    BY DEF WriteKeys, IInv, LookupsAgree, Held, store
<1>6. TypeOK'
    BY SentinelsAssumption DEF WriteKeys, IInv, TypeOK, CallFits, CallsKey, FilesAreThere,
       NoCall, Held, Writes, FileKeys, Indexes, Entries, Ops, store
<1>7. CallFits'
    BY DEF WriteKeys, IInv, CallFits
<1>8. CallsKey'
    BY DEF WriteKeys, CallsKey
<1>9. FilesAreThere'
    BY <1>1, <1>3 DEF WriteKeys, IInv, FilesAreThere, Exists
<1>10. SaltIsCurrent'
    BY SentinelsAssumption DEF WriteKeys, IInv, TypeOK, CallFits, FilesAreThere, SaltIsCurrent,
       Held, Writes
<1>11. OwnAddress'
    BY DEF WriteKeys, IInv, OwnAddress, Held, store
<1>12. SavesSync'
    BY DEF WriteKeys, IInv, SavesSync, Held, Synced, store
<1>13. OnePass'
    BY SentinelsAssumption DEF WriteKeys, IInv, TypeOK, CallFits, CallsKey, OwnAddress, OnePass,
       SavesSync, Held, Synced, store
<1>14. OneSalt'
    BY <1>3, <1>4 DEF WriteKeys, IInv, CallFits, OneSalt, Loading
<1> QED
    BY <1>5, <1>6, <1>7, <1>8, <1>9, <1>10, <1>11, <1>12, <1>13, <1>14 DEF IInv

(* A write that throws leaves the disk and sets mixed. *)
LEMMA WriteThrowsKeeps ==
    ASSUME IInv, WriteThrows
    PROVE  IInv'
<1>1. SaltIsCurrent' /\ OwnAddress' /\ LookupsAgree' /\ OnePass'
    BY DEF WriteThrows, IInv, SaltIsCurrent, OwnAddress, LookupsAgree, OnePass, Held, disk,
       store, index
<1>2. TypeOK'
    BY SentinelsAssumption, FaultsAssumption DEF WriteThrows, Fault, IInv, TypeOK, NoCall, Ops,
       disk, store, index
<1>3. CallFits'
    BY DEF WriteThrows, IInv, CallFits
<1>4. CallsKey'
    BY DEF WriteThrows, CallsKey
<1>5. FilesAreThere'
    BY DEF WriteThrows, IInv, FilesAreThere, Exists, disk, index
<1>6. SavesSync'
    BY DEF WriteThrows, IInv, SavesSync, Held, Synced, disk, store
<1>7. OneSalt'
    BY DEF WriteThrows, OneSalt
<1> QED
    BY <1>1, <1>2, <1>3, <1>4, <1>5, <1>6, <1>7 DEF IInv

(* A create starts. *)
LEMMA CreateKeeps ==
    ASSUME IInv, NEW p \in Passwords, Create(p)
    PROVE  IInv'
<1>1. SaltIsCurrent' /\ OwnAddress' /\ LookupsAgree' /\ OnePass'
    BY DEF Create, IInv, SaltIsCurrent, OwnAddress, LookupsAgree, OnePass, Held, disk, store,
       history
<1>2. TypeOK'
    BY SentinelsAssumption DEF Create, Begin, IInv, TypeOK, Defaults, Ops, disk, store, history
<1>3. CallFits'
    BY DEF Create, Begin, IInv, CallFits, Writes
<1>4. CallsKey'
    BY DEF Create, CallsKey
<1>5. FilesAreThere'
    BY DEF Create, IInv, FilesAreThere, disk
<1>6. SavesSync'
    BY DEF Create, IInv, SavesSync, Held, Synced, disk, store, history
<1>7. OneSalt'
    BY SentinelsAssumption DEF Create, Begin, IInv, TypeOK, CallFits, CallsKey, FilesAreThere,
       OneSalt, Exists, Held, Writes, Loading, disk
<1> QED
    BY <1>1, <1>2, <1>3, <1>4, <1>5, <1>6, <1>7 DEF IInv

(* A change of the master password starts. *)
LEMMA SaveKeeps ==
    ASSUME IInv, NEW p \in Passwords, Save(p)
    PROVE  IInv'
<1>1. SaltIsCurrent' /\ OwnAddress' /\ LookupsAgree' /\ OnePass'
    BY DEF Save, IInv, SaltIsCurrent, OwnAddress, LookupsAgree, OnePass, Held, disk, store,
       index, history
<1>2. TypeOK'
    BY SentinelsAssumption DEF Save, Begin, IInv, TypeOK, Ops, disk, store, index, history
<1>3. CallFits'
    BY DEF Save, Begin, IInv, CallFits, Writes
<1>4. CallsKey'
    BY DEF Save, CallsKey
<1>5. FilesAreThere'
    BY DEF Save, IInv, FilesAreThere, Exists, disk, index
<1>6. SavesSync'
    BY DEF Save, IInv, SavesSync, Held, Synced, disk, store, history
<1>7. OneSalt'
    BY DEF Save, Begin, IInv, OneSalt, Loading, disk, index, history
<1> QED
    BY <1>1, <1>2, <1>3, <1>4, <1>5, <1>6, <1>7 DEF IInv

(* A load with the wrong password has set m_keysFileKey. *)
LEMMA LoadFailsKeeps ==
    ASSUME IInv, NEW p \in Passwords, LoadFails(p)
    PROVE  IInv'
<1>1. fileKey' \in FileKeys
    BY DEF LoadFails, FileKeys
<1>2. fileKey' # Nothing
    BY <1>1, Distinct
<1>3. CallFits' /\ OwnAddress'
      /\ LookupsAgree' /\ SavesSync' /\ OnePass' /\ OneSalt'
    BY DEF LoadFails, IInv, CallFits, OwnAddress, LookupsAgree, SavesSync, OnePass, OneSalt,
       Held, Synced, Loading, disk, store
<1>4. TypeOK'
    BY DEF LoadFails, IInv, TypeOK, FileKeys, disk, store
<1>5. CallsKey'
    BY DEF LoadFails, CallsKey
<1>6. FilesAreThere'
    BY <1>2 DEF LoadFails, IInv, FilesAreThere, Exists, disk
<1>7. SaltIsCurrent'
    BY DEF LoadFails, IInv, SaltIsCurrent, disk
<1> QED
    BY <1>3, <1>4, <1>5, <1>6, <1>7 DEF IInv

(* A load takes the entries of the keys the store holds: two entries never name one key, *)
(* which has one address.                                                                *)
LEMMA LoadKeeps ==
    ASSUME IInv, NEW p \in Passwords, Load(p)
    PROVE  IInv'
<1>1. /\ keysFile \in Indexes
      /\ \A a \in Addresses : keysFile.entries[a] # Nothing =>
            /\ keysFile.entries[a].uuid \in Uuids
            /\ keysFile.entries[a].hash \in Hashes \union {Unknown}
    BY DEF Load, Exists, IInv, TypeOK, Indexes, Entries
<1>2. \A v \in Held : keys[v] \in Keys /\ [keys[v] EXCEPT !.noted = TRUE] \in Keys
    BY DEF IInv, TypeOK, Keys, Held
<1>3. keys' \in [Uuids -> Keys \union {Nothing}] /\ Held' = Held
    BY <1>2, Distinct DEF Load, IInv, TypeOK, Held
<1>4. \A v \in Held : keys'[v].addr = keys[v].addr /\ keys'[v].pass = keys[v].pass
    BY DEF Load, IInv, TypeOK, Keys, Held
<1>5. TypeOK'
    BY <1>1, <1>3 DEF Load, Begin, BeginSave, IInv, TypeOK, Ops, Indexes, disk
<1>6. CallFits'
    BY DEF Load, Begin, BeginSave, IInv, CallFits, Exists, Held, disk
<1>7. CallsKey'
    BY DEF Load, Begin, CallsKey
<1>8. FilesAreThere'
  <2>1. /\ pc' # "writeKeys" /\ saltFile' = saltFile /\ keysFile' = keysFile
        /\ keysFile # Nothing /\ fileKey' # Nothing
    BY SentinelsAssumption DEF Load, Begin, BeginSave, IInv, TypeOK, Exists, Indexes, FileKeys, disk
  <2>2. saltFile /\ Exists'
    BY <2>1 DEF Load, IInv, FilesAreThere, Exists
  <2>3. ASSUME NEW a \in Addresses, keyInfo'[a] # Nothing PROVE addrLookup'[a] # Nothing
    <3> DEFINE taken == keysFile.entries[a] # Nothing /\ keysFile.entries[a].uuid \in Held
    <3>1. CASE taken
      <4>1. addrLookup'[a] = keysFile.entries[a].uuid
        BY <3>1 DEF Load, IInv, TypeOK
      <4> QED BY <3>1, <4>1, SentinelsAssumption DEF Held
    <3>2. CASE ~ taken
      <4>1. addrLookup'[a] = addrLookup[a] /\ keyInfo'[a] = keyInfo[a]
        BY <3>2 DEF Load, IInv, TypeOK
      <4> QED BY <2>3, <4>1 DEF IInv, FilesAreThere
    <3> QED BY <3>1, <3>2
  <2> QED BY <2>1, <2>2, <2>3 DEF FilesAreThere
<1>9. SaltIsCurrent'
    BY DEF Load, SaltIsCurrent, disk
<1>10. OwnAddress'
  <2>1. \A u \in Uuids : keyFile'[u] \notin {Nothing, Torn} =>
            u \in Held' /\ keyFile'[u].addr = keys'[u].addr
    BY <1>3, <1>4 DEF Load, IInv, OwnAddress, disk
  <2>2. ASSUME NEW a \in Addresses, addrLookup'[a] \in Held'
        PROVE  keys'[addrLookup'[a]].addr = a
    <3>1. addrLookup'[a] = addrLookup[a] \/ (/\ keysFile.entries[a] # Nothing
                                            /\ addrLookup'[a] = keysFile.entries[a].uuid)
      BY DEF Load, IInv, TypeOK
    <3>2. keysFile # Nothing
      BY DEF Load, Exists
    <3> QED BY <1>3, <1>4, <2>2, <3>1, <3>2 DEF IInv, OwnAddress
  <2>3. (keysFile # Nothing => \A a \in Addresses :
           keysFile.entries[a] # Nothing /\ keysFile.entries[a].uuid \in Held
               => keys[keysFile.entries[a].uuid].addr = a)'
    <3>1. keysFile' = keysFile
      BY DEF Load, disk
    <3>2. OwnAddress
      BY DEF IInv
    <3> QED BY <1>3, <1>4, <3>1, <3>2 DEF OwnAddress
  <2> QED BY <2>1, <2>2, <2>3 DEF OwnAddress
<1>11. LookupsAgree'
  <2> DEFINE Of(a) == keysFile.entries[a].uuid
             Taken(a) == keysFile.entries[a] # Nothing /\ Of(a) \in Held
             read == {b \in Addresses : Taken(b)}
  <2>1. \A a \in Addresses : Taken(a) => keys[Of(a)].addr = a /\ Of(a) \in Uuids
    <3>1. keysFile # Nothing /\ OwnAddress
      BY DEF Load, Exists, IInv
    <3> QED BY <3>1, Zenon DEF OwnAddress, Held
  <2>2. \A u \in Uuids : uuidLookup'[u] = IF \E a \in read : Of(a) = u
                                          THEN CHOOSE a \in read : Of(a) = u ELSE uuidLookup[u]
    BY DEF Load
  <2>3. \A a \in Addresses :
            \/ addrLookup'[a] = addrLookup[a] /\ ~Taken(a)
            \/ addrLookup'[a] = Of(a) /\ Taken(a)
    BY DEF Load, IInv, TypeOK
  <2>4. \A a : a \in read <=> a \in Addresses /\ Taken(a)
    BY Zenon
  <2>5. \A a \in read : Of(a) \in Held
    BY Zenon
  <2> HIDE DEF Of, Taken, read
  <2>6. ASSUME NEW a \in read PROVE uuidLookup'[Of(a)] = a
    <3>1. Of(a) \in Uuids /\ keys[Of(a)].addr = a
      BY <2>1, <2>4, Zenon
    <3>2. \A b \in read : Of(b) = Of(a) => b = a
      BY <2>1, <2>4, <3>1, Zenon
    <3>3. uuidLookup'[Of(a)] = CHOOSE b \in read : Of(b) = Of(a)
      BY <2>2, <3>1, Zenon
    <3> QED BY <3>2, <3>3
  <2>7. ASSUME NEW u \in Uuids, uuidLookup'[u] # Nothing PROVE u \in Held
    <3>1. CASE \E a \in read : Of(a) = u
      BY <2>5, <3>1, Zenon
    <3>2. CASE ~ \E a \in read : Of(a) = u
      BY <2>2, <2>7, <3>2, Zenon DEF IInv, LookupsAgree
    <3> QED BY <3>1, <3>2
  <2>8. ASSUME NEW a \in Addresses, addrLookup'[a] \in Held
        PROVE  uuidLookup'[addrLookup'[a]] = a
    <3>1. CASE addrLookup'[a] = Of(a) /\ Taken(a)
      BY <2>4, <2>6, <3>1, Zenon
    <3>2. CASE addrLookup'[a] = addrLookup[a] /\ ~Taken(a)
      <4>1. keys[addrLookup[a]].addr = a /\ uuidLookup[addrLookup[a]] = a /\ addrLookup[a] \in Uuids
        BY <2>8, <3>2, Zenon DEF IInv, OwnAddress, LookupsAgree, Held
      <4>2. ~ \E b \in read : Of(b) = addrLookup[a]
        BY <2>1, <2>4, <3>2, <4>1, Zenon
      <4> QED BY <2>2, <3>2, <4>1, <4>2, Zenon
    <3> QED BY <2>3, <3>1, <3>2, Zenon
  <2> QED BY <1>3, <2>7, <2>8, Zenon DEF LookupsAgree
<1>12. SavesSync'
    BY DEF Load, BeginSave, IInv, SavesSync, Held, Synced, disk
<1>13. OnePass'
  <2>1. \A u \in Held' \ doubtful' :
            keyFile'[u] \notin {Nothing, Torn} => keyFile'[u].pass = keys'[u].pass
    BY <1>3, <1>4 DEF Load, IInv, OnePass, disk
  <2>2. ASSUME NEW a \in Addresses, keyInfo'[a] \in Hashes, addrLookup'[a] \in Held' \ doubtful'
        PROVE  keyInfo'[a].pass = keys'[addrLookup'[a]].pass
    <3>1. /\ addrLookup'[a] \in Held /\ addrLookup'[a] \notin doubtful
          /\ keys'[addrLookup'[a]].pass = keys[addrLookup'[a]].pass
      BY <1>3, <1>4, <2>2 DEF Load
    <3>2. \/ keyInfo'[a] = keyInfo[a] /\ addrLookup'[a] = addrLookup[a]
          \/ /\ keysFile.entries[a] # Nothing
             /\ keyInfo'[a] = keysFile.entries[a].hash /\ addrLookup'[a] = keysFile.entries[a].uuid
      BY DEF Load, IInv, TypeOK
    <3>3. keysFile # Nothing
      BY DEF Load, Exists
    <3> QED BY <2>2, <3>1, <3>2, <3>3 DEF IInv, OnePass
  <2>3. (keysFile # Nothing => \A a \in Addresses :
           /\ keysFile.entries[a] # Nothing /\ keysFile.entries[a].hash \in Hashes
           /\ keysFile.entries[a].uuid \in Held \ doubtful
           => keysFile.entries[a].hash.pass = keys[keysFile.entries[a].uuid].pass)'
    BY <1>3, <1>4 DEF Load, IInv, OnePass, disk
  <2> QED BY <2>1, <2>2, <2>3 DEF OnePass
<1>14. OneSalt'
    BY DEF Load, Begin, BeginSave, IInv, OneSalt, Exists, Loading, disk
<1> QED
    BY <1>5, <1>6, <1>7, <1>8, <1>9, <1>10, <1>11, <1>12, <1>13, <1>14 DEF IInv

(* A load has saved what it learned. *)
LEMMA LoadSavedKeeps ==
    ASSUME IInv, LoadSaved
    PROVE  IInv'
<1>1. SaltIsCurrent' /\ OwnAddress' /\ LookupsAgree' /\ OnePass'
    BY DEF LoadSaved, IInv, SaltIsCurrent, OwnAddress, LookupsAgree, OnePass, Held, disk, store,
       index
<1>2. TypeOK'
    BY DEF LoadSaved, IInv, TypeOK, disk, store, index
<1>3. CallFits'
    BY DEF LoadSaved, IInv, CallFits, disk
<1>4. CallsKey'
    BY DEF LoadSaved, CallsKey
<1>5. FilesAreThere'
    BY DEF LoadSaved, IInv, FilesAreThere, Exists, disk, index
<1>6. SavesSync'
    BY DEF LoadSaved, IInv, SavesSync, Held, Synced, disk, store
<1>7. OneSalt'
    BY DEF LoadSaved, IInv, OneSalt, Loading, disk, index
<1> QED
    BY <1>1, <1>2, <1>3, <1>4, <1>5, <1>6, <1>7 DEF IInv

(* A load takes over the salt of the file. *)
LEMMA LoadEndKeeps ==
    ASSUME IInv, LoadEnd
    PROVE  IInv'
<1>1. SaltIsCurrent' /\ OwnAddress' /\ LookupsAgree' /\ OnePass'
    BY DEF LoadEnd, IInv, SaltIsCurrent, OwnAddress, LookupsAgree, OnePass, Held, disk, store
<1>2. TypeOK'
    BY SentinelsAssumption DEF LoadEnd, IInv, TypeOK, CallFits, NoCall, Indexes, Ops, disk,
       store
<1>3. CallFits'
    BY DEF LoadEnd, IInv, CallFits
<1>4. CallsKey'
    BY DEF LoadEnd, CallsKey
<1>5. FilesAreThere'
    BY DEF LoadEnd, IInv, FilesAreThere, Exists, disk
<1>6. SavesSync'
    BY DEF LoadEnd, IInv, SavesSync, Held, Synced, disk, store
<1>7. OneSalt'
    BY DEF LoadEnd, IInv, OneSalt, disk
<1> QED
    BY <1>1, <1>2, <1>3, <1>4, <1>5, <1>6, <1>7 DEF IInv

(* A new key enters the store. *)
LEMMA ImportKeeps ==
    ASSUME IInv, NEW u \in Uuids, NEW a \in Addresses, NEW p \in Passwords, Import(u, a, p)
    PROVE  IInv'
<1>1. [addr |-> a, pass |-> p, noted |-> TRUE] \in Keys
    BY DEF Keys
<1>2. keys' \in [Uuids -> Keys \union {Nothing}] /\ Held' = Held \union {u}
  <2> DEFINE k == [addr |-> a, pass |-> p, noted |-> TRUE]
  <2>1. keys \in [Uuids -> Keys \union {Nothing}] /\ keys' = [keys EXCEPT ![u] = k]
    BY DEF Import, IInv, TypeOK
  <2>2. k \in Keys /\ k # Nothing
    BY <1>1, Distinct
  <2> HIDE DEF k
  <2> QED BY <2>1, <2>2 DEF Held
<1>3. keys'[u].addr = a /\ keys'[u].pass = p
    BY DEF Import, IInv, TypeOK, Held
<1>4. SaltIsCurrent'
    BY DEF Import, IInv, SaltIsCurrent, disk, index
<1>5. TypeOK'
  <2>1. /\ pc' = "saving" /\ todo' \subseteq Uuids /\ writing' = writing /\ unsaved' \in BOOLEAN
        /\ cached' \subseteq Uuids
    BY DEF Import, BeginSave, IInv, TypeOK
  <2>2. call' \in [op : Ops, uuid : Uuids \union {Nothing}, addr : Addresses \union {Zero, Nothing},
                   pass : Passwords \union {Nothing}]
    BY DEF Import, Begin, Ops
  <2>3. /\ UNCHANGED <<disk, index, saltCut, doubtful, faults, mixed>> /\ TypeOK
    BY DEF Import, IInv
  <2> QED BY <1>2, <2>1, <2>2, <2>3 DEF TypeOK, disk, index
<1>6. CallFits'
    BY DEF Import, Begin, BeginSave, IInv, CallFits, Held
<1>7. CallsKey'
    BY <1>2, <1>3 DEF Import, Begin, BeginSave, CallsKey, index
<1>8. FilesAreThere'
    BY DEF Import, IInv, FilesAreThere, Exists, disk, index
<1>9. OwnAddress'
    BY DEF Import, Fresh, IInv, OwnAddress, TypeOK, Held, disk, index
<1>10. LookupsAgree'
    BY DEF Import, Fresh, IInv, LookupsAgree, TypeOK, Held, index
<1>11. SavesSync'
    BY DEF Import, BeginSave, SavesSync, Held
<1>12. OnePass'
    BY DEF Import, Fresh, IInv, OnePass, TypeOK, Held, disk, index
<1>13. OneSalt'
    BY DEF Import, Begin, IInv, OneSalt, Loading, disk, index
<1> QED
    BY <1>4, <1>5, <1>6, <1>7, <1>8, <1>9, <1>10, <1>11, <1>12, <1>13 DEF IInv

(* A new key enters the index. *)
LEMMA ImportSavedKeeps ==
    ASSUME IInv, ImportSaved
    PROVE  IInv'
<1>1. SaltIsCurrent'
    BY DEF ImportSaved, IInv, SaltIsCurrent, disk, store
<1>2. TypeOK'
    BY SentinelsAssumption DEF ImportSaved, BeginWrite, IInv, TypeOK, CallFits, CallsKey,
       FilesAreThere, Held, Hashes, disk, store
<1>3. CallFits'
    BY DEF ImportSaved, BeginWrite, IInv, CallFits, Writes
<1>4. CallsKey'
    BY DEF ImportSaved, BeginWrite, CallsKey
<1>5. FilesAreThere'
    BY SentinelsAssumption DEF ImportSaved, BeginWrite, IInv, TypeOK, CallFits, CallsKey,
       FilesAreThere, Exists, Held, disk
<1>6. OwnAddress'
    BY SentinelsAssumption DEF ImportSaved, BeginWrite, IInv, TypeOK, CallFits, CallsKey,
       FilesAreThere, OwnAddress, Held, disk, store
<1>7. LookupsAgree'
    BY SentinelsAssumption DEF ImportSaved, BeginWrite, IInv, TypeOK, CallFits, CallsKey,
       OwnAddress, LookupsAgree, Held, store
<1>8. SavesSync'
    BY DEF ImportSaved, BeginWrite, IInv, SavesSync, Held, Synced, disk, store
<1>9. OnePass'
    BY SentinelsAssumption DEF ImportSaved, BeginWrite, IInv, TypeOK, CallFits, CallsKey,
       OwnAddress, OnePass, SavesSync, Held, disk, store
<1>10. OneSalt'
    BY SentinelsAssumption DEF ImportSaved, BeginWrite, IInv, TypeOK, CallFits, CallsKey,
       FilesAreThere, OneSalt, Held, Loading, disk
<1> QED
    BY <1>1, <1>2, <1>3, <1>4, <1>5, <1>6, <1>7, <1>8, <1>9, <1>10 DEF IInv

(* A key enters the store and not the index. *)
LEMMA StoreImportKeeps ==
    ASSUME IInv, NEW u \in Uuids, NEW a \in Addresses, NEW p \in Passwords,
           NEW decrypted \in BOOLEAN, NEW named \in BOOLEAN, StoreImport(u, a, p, decrypted, named)
    PROVE  IInv'
<1>1. SaltIsCurrent'
    BY DEF StoreImport, IInv, SaltIsCurrent, disk, index
<1>2. TypeOK'
    BY SentinelsAssumption DEF StoreImport, Begin, BeginSave, IInv, TypeOK, Keys, Ops, disk,
       index
<1>3. CallFits'
    BY DEF StoreImport, Begin, BeginSave, IInv, CallFits, Held
<1>4. CallsKey'
    BY DEF StoreImport, Begin, CallsKey
<1>5. FilesAreThere'
    BY DEF StoreImport, BeginSave, IInv, FilesAreThere, Exists, disk, index
<1>6. OwnAddress'
    BY DEF StoreImport, Fresh, IInv, OwnAddress, TypeOK, Held, disk, index
<1>7. LookupsAgree'
    BY DEF StoreImport, Fresh, IInv, LookupsAgree, TypeOK, Held, index
<1>8. SavesSync'
    BY DEF StoreImport, BeginSave, SavesSync, Held
<1>9. OnePass'
    BY DEF StoreImport, Fresh, IInv, OnePass, TypeOK, Held, disk, index
<1>10. OneSalt'
    BY DEF StoreImport, Begin, IInv, OneSalt, Loading, disk, index
<1> QED
    BY <1>1, <1>2, <1>3, <1>4, <1>5, <1>6, <1>7, <1>8, <1>9, <1>10 DEF IInv

(* Such a key is saved. *)
LEMMA StoreImportSavedKeeps ==
    ASSUME IInv, StoreImportSaved
    PROVE  IInv'
<1>1. SaltIsCurrent' /\ OwnAddress' /\ LookupsAgree' /\ OnePass'
    BY DEF StoreImportSaved, IInv, SaltIsCurrent, OwnAddress, LookupsAgree, OnePass, Held, disk,
       store, index
<1>2. TypeOK'
    BY SentinelsAssumption DEF StoreImportSaved, IInv, TypeOK, NoCall, Ops, disk, store, index
<1>3. CallFits'
    BY DEF StoreImportSaved, IInv, CallFits
<1>4. CallsKey'
    BY DEF StoreImportSaved, CallsKey
<1>5. FilesAreThere'
    BY DEF StoreImportSaved, IInv, FilesAreThere, Exists, disk, index
<1>6. SavesSync'
    BY DEF StoreImportSaved, IInv, SavesSync, Held, Synced, disk, store
<1>7. OneSalt'
    BY DEF StoreImportSaved, IInv, OneSalt, Loading, disk, index
<1> QED
    BY <1>1, <1>2, <1>3, <1>4, <1>5, <1>6, <1>7 DEF IInv

(* Opening a key changes only that its address is known. *)
LEMMA OpenSecretKeeps ==
    ASSUME IInv, NEW u \in Uuids, OpenSecret(u)
    PROVE  IInv'
<1>1. keys[u] \in Keys /\ [keys[u] EXCEPT !.noted = TRUE] \in Keys
    BY DEF OpenSecret, CanOpen, IInv, TypeOK, Keys, Held
<1>2. keys' \in [Uuids -> Keys \union {Nothing}] /\ Held' = Held
  <2>1. keys \in [Uuids -> Keys \union {Nothing}] /\ keys[u] # Nothing
    BY <1>1, Distinct DEF IInv, TypeOK
  <2> DEFINE k == [keys[u] EXCEPT !.noted = TRUE]
  <2>2. keys' = [keys EXCEPT ![u] = k]
    BY DEF OpenSecret
  <2>3. k \in Keys /\ k # Nothing
    BY <1>1, Distinct
  <2> HIDE DEF k
  <2> QED BY <2>1, <2>2, <2>3 DEF Held
<1>3. \A v \in Held : keys'[v].addr = keys[v].addr /\ keys'[v].pass = keys[v].pass
    BY DEF OpenSecret, CanOpen, IInv, TypeOK, Keys, Held
<1>4. FilesAreThere' /\ SaltIsCurrent' /\ OneSalt'
    BY DEF OpenSecret, IInv, FilesAreThere, SaltIsCurrent, OneSalt, Exists, Loading, disk,
       index, history
<1>5. TypeOK'
    BY <1>2 DEF OpenSecret, IInv, TypeOK, disk, index, history
<1>6. CallFits'
    BY DEF OpenSecret, IInv, CallFits
<1>7. CallsKey'
    BY DEF OpenSecret, CallsKey
<1>8. OwnAddress'
    BY <1>2, <1>3 DEF OpenSecret, IInv, OwnAddress, disk, index, TypeOK
<1>9. LookupsAgree'
    BY <1>2 DEF OpenSecret, IInv, LookupsAgree, index
<1>10. SavesSync'
    BY DEF OpenSecret, CanOpen, IInv, SavesSync, Held, Synced, disk, history
<1>11. OnePass'
    BY DEF OpenSecret, CanOpen, IInv, OnePass, Held, disk, index, history
<1> QED
    BY <1>4, <1>5, <1>6, <1>7, <1>8, <1>9, <1>10, <1>11 DEF IInv

(* m_cached is emptied. *)
LEMMA ClearCacheKeeps ==
    ASSUME IInv, ClearCache
    PROVE  IInv'
<1>1. /\ CallFits' /\ CallsKey' /\ FilesAreThere' /\ SaltIsCurrent' /\ OwnAddress'
      /\ LookupsAgree' /\ SavesSync' /\ OnePass' /\ OneSalt'
    BY DEF ClearCache, IInv, CallFits, CallsKey, FilesAreThere, SaltIsCurrent, OwnAddress,
       LookupsAgree, SavesSync, OnePass, OneSalt, Exists, Held, Synced, Loading, disk, index,
       history
<1>2. TypeOK'
    BY DEF ClearCache, IInv, TypeOK, disk, index, history
<1> QED
    BY <1>1, <1>2 DEF IInv

(* A key of the store enters the index, with a hash nothing may have checked. *)
LEMMA ImportExistingKeeps ==
    ASSUME IInv, NEW u \in Uuids, NEW p \in Passwords, ImportExisting(u, p)
    PROVE  IInv'
<1>1. u \in Held /\ keys[u] \in Keys /\ keys[u].addr \in Addresses
    BY DEF ImportExisting, IInv, TypeOK, Held, Keys
<1>2. [keys[u] EXCEPT !.noted = TRUE] \in Keys
    BY <1>1 DEF Keys
<1>3. keys' \in [Uuids -> Keys \union {Nothing}] /\ Held' = Held
    BY <1>1, <1>2, Distinct DEF ImportExisting, IInv, TypeOK, Held
<1>4. \A v \in Held : keys'[v].addr = keys[v].addr /\ keys'[v].pass = keys[v].pass
    BY <1>1 DEF ImportExisting, IInv, TypeOK, Keys, Held
<1>5. SaltIsCurrent'
    BY DEF ImportExisting, IInv, SaltIsCurrent, disk
<1>6. TypeOK'
    BY <1>1, <1>3 DEF ImportExisting, Begin, BeginWrite, IInv, TypeOK, Hashes, Ops, disk
<1>7. CallFits'
    BY DEF ImportExisting, Begin, BeginWrite, IInv, CallFits
<1>8. CallsKey'
    BY DEF ImportExisting, Begin, CallsKey
<1>9. FilesAreThere'
    BY SentinelsAssumption DEF ImportExisting, Begin, BeginWrite, IInv, FilesAreThere, TypeOK,
       CallFits, Exists, disk
<1>10. OwnAddress'
    BY <1>1, <1>3, <1>4 DEF ImportExisting, IInv, TypeOK, OwnAddress, disk
<1>11. LookupsAgree'
    BY <1>1, <1>3 DEF ImportExisting, IInv, TypeOK, OwnAddress, LookupsAgree
<1>12. SavesSync'
    BY DEF ImportExisting, BeginWrite, IInv, SavesSync, Held, Synced, disk
<1>13. OnePass'
    BY DEF ImportExisting, IInv, OnePass, TypeOK, Held, disk
<1>14. OneSalt'
    BY DEF ImportExisting, Begin, BeginWrite, IInv, OneSalt, Loading, disk
<1> QED
    BY <1>5, <1>6, <1>7, <1>8, <1>9, <1>10, <1>11, <1>12, <1>13, <1>14 DEF IInv

(* A key of the store enters the index without a hash. *)
LEMMA ImportExistingUnknownKeeps ==
    ASSUME IInv, NEW u \in Uuids, ImportExistingUnknown(u)
    PROVE  IInv'
<1>1. SaltIsCurrent'
    BY DEF ImportExistingUnknown, IInv, SaltIsCurrent, disk, store, history
<1>2. TypeOK'
    BY SentinelsAssumption DEF ImportExistingUnknown, Begin, BeginWrite, IInv, TypeOK, Held,
       Keys, Ops, disk, store, history
<1>3. CallFits'
    BY DEF ImportExistingUnknown, Begin, BeginWrite, IInv, CallFits, Writes
<1>4. CallsKey'
    BY DEF ImportExistingUnknown, Begin, CallsKey
<1>5. FilesAreThere'
    BY SentinelsAssumption DEF ImportExistingUnknown, Begin, BeginWrite, IInv, FilesAreThere,
       TypeOK, CallFits, Exists, Held, Writes, disk
<1>6. OwnAddress'
    BY DEF ImportExistingUnknown, IInv, OwnAddress, Held, disk, store
<1>7. LookupsAgree'
    BY SentinelsAssumption DEF ImportExistingUnknown, Begin, BeginWrite, IInv, TypeOK, CallFits,
       CallsKey, OwnAddress, LookupsAgree, Held, store
<1>8. SavesSync'
    BY DEF ImportExistingUnknown, BeginWrite, IInv, SavesSync, Held, Synced, disk, store,
       history
<1>9. OnePass'
    BY SentinelsAssumption DEF ImportExistingUnknown, Begin, BeginWrite, IInv, OnePass, TypeOK,
       CallFits, Held, disk, store, history
<1>10. OneSalt'
    BY SentinelsAssumption DEF ImportExistingUnknown, Begin, BeginWrite, IInv, OneSalt, TypeOK,
       CallFits, Held, Loading, disk, history
<1> QED
    BY <1>1, <1>2, <1>3, <1>4, <1>5, <1>6, <1>7, <1>8, <1>9, <1>10 DEF IInv

(* A key gets a new password, and is in doubt until the index is written. *)
LEMMA RecodeKeeps ==
    ASSUME IInv, NEW a \in Addresses, NEW p \in Passwords, Recode(a, p)
    PROVE  IInv'
<1>1. addrLookup[a] \in Held /\ keys[addrLookup[a]] \in Keys /\ keys[addrLookup[a]].addr = a
    BY DEF Recode, CanOpen, IInv, TypeOK, OwnAddress, Held
<1>2. [addr |-> keys[addrLookup[a]].addr, pass |-> p,
      noted |-> keys[addrLookup[a]].noted \/ addrLookup[a] \notin cached] \in Keys
    BY <1>1 DEF Keys
<1>3. keys' = [keys EXCEPT ![addrLookup[a]] =
      [addr |-> keys[addrLookup[a]].addr, pass |-> p,
       noted |-> keys[addrLookup[a]].noted \/ addrLookup[a] \notin cached]]
    BY DEF Recode
<1>4. keys' \in [Uuids -> Keys \union {Nothing}] /\ Held' = Held
    BY <1>1, <1>2, <1>3, Distinct DEF IInv, TypeOK, Held
<1>5. /\ keys'[addrLookup[a]].pass = p
      /\ \A v \in Held : keys'[v].addr = keys[v].addr
    BY <1>1, <1>3 DEF IInv, TypeOK, Keys, Held
<1>6. SaltIsCurrent'
    BY DEF Recode, IInv, SaltIsCurrent, disk, index
<1>7. TypeOK'
    BY <1>1, <1>4 DEF Recode, Begin, BeginSave, IInv, TypeOK, Ops, disk, index
<1>8. CallFits'
    BY DEF Recode, Begin, BeginSave, IInv, CallFits, Held
<1>9. CallsKey'
    BY <1>1, <1>4, <1>5 DEF Recode, Begin, BeginSave, CallsKey, index
<1>10. FilesAreThere'
    BY DEF Recode, IInv, FilesAreThere, Exists, disk, index
<1>11. OwnAddress'
    BY <1>1, <1>4, <1>5 DEF Recode, IInv, OwnAddress, disk, index
<1>12. LookupsAgree'
    BY <1>1, <1>4 DEF Recode, IInv, LookupsAgree, index
<1>13. SavesSync'
    BY DEF Recode, BeginSave, SavesSync, Held
<1>14. OnePass'
    BY DEF Recode, IInv, OnePass, Held, disk, index
<1>15. OneSalt'
    BY DEF Recode, Begin, IInv, OneSalt, Loading, disk, index
<1> QED
    BY <1>6, <1>7, <1>8, <1>9, <1>10, <1>11, <1>12, <1>13, <1>14, <1>15 DEF IInv

(* The index learns the new password's hash. *)
LEMMA RecodeSavedKeeps ==
    ASSUME IInv, RecodeSaved
    PROVE  IInv'
<1>1. SaltIsCurrent' /\ OwnAddress' /\ LookupsAgree'
    BY DEF RecodeSaved, IInv, SaltIsCurrent, OwnAddress, LookupsAgree, Held, disk, store
<1>2. TypeOK'
    BY SentinelsAssumption DEF RecodeSaved, BeginWrite, IInv, TypeOK, CallFits, CallsKey,
       FilesAreThere, Held, Hashes, disk, store
<1>3. CallFits'
    BY DEF RecodeSaved, BeginWrite, IInv, CallFits, Writes
<1>4. CallsKey'
    BY DEF RecodeSaved, IInv, CallsKey, TypeOK, Held, store
<1>5. FilesAreThere'
    BY SentinelsAssumption DEF RecodeSaved, BeginWrite, IInv, TypeOK, CallFits, CallsKey,
       FilesAreThere, Exists, Held, disk
<1>6. SavesSync'
    BY DEF RecodeSaved, BeginWrite, IInv, SavesSync, Held, Synced, disk, store
<1>7. OnePass'
    BY SentinelsAssumption DEF RecodeSaved, BeginWrite, IInv, TypeOK, CallFits, CallsKey,
       OwnAddress, OnePass, SavesSync, Held, disk, store
<1>8. OneSalt'
    BY SentinelsAssumption DEF RecodeSaved, BeginWrite, IInv, TypeOK, CallFits, CallsKey,
       FilesAreThere, OneSalt, Held, Loading, disk
<1> QED
    BY <1>1, <1>2, <1>3, <1>4, <1>5, <1>6, <1>7, <1>8 DEF IInv

(* A key leaves the index, the store and the directory. *)
LEMMA KillKeeps ==
    ASSUME IInv, NEW a \in Addresses \union {Zero}, Kill(a)
    PROVE  IInv'
<1>1. SaltIsCurrent'
    BY DEF Kill, IInv, SaltIsCurrent
<1>2. TypeOK'
    BY DEF Kill, Begin, BeginWrite, IInv, TypeOK, Ops
<1>3. CallFits'
    BY DEF Kill, Begin, BeginWrite, IInv, CallFits, Writes
<1>4. CallsKey'
    BY DEF Kill, Begin, CallsKey
<1>5. FilesAreThere'
    BY DEF Kill, BeginWrite, IInv, FilesAreThere, Exists
<1>6. OwnAddress'
    BY SentinelsAssumption DEF Kill, IInv, OwnAddress, TypeOK, Held
<1>7. LookupsAgree'
    BY SentinelsAssumption DEF Kill, IInv, LookupsAgree, TypeOK, Held
<1>8. SavesSync'
    BY DEF Kill, BeginWrite, IInv, SavesSync, Held, Synced
<1>9. OnePass'
    BY SentinelsAssumption DEF Kill, IInv, OnePass, TypeOK, Held
<1>10. OneSalt'
    BY SentinelsAssumption DEF Kill, Begin, IInv, OneSalt, TypeOK, CallFits, Loading
<1> QED
    BY <1>1, <1>2, <1>3, <1>4, <1>5, <1>6, <1>7, <1>8, <1>9, <1>10 DEF IInv

----------------------------------------------------------------------------
(* The first state and every step, and what follows. *)

LEMMA InitIInv == Init => IInv
<1> SUFFICES ASSUME Init PROVE IInv
  OBVIOUS
<1>1. Held = {} /\ todo = {} /\ Nothing \notin Hashes
  BY SentinelsAssumption DEF Init, Held
<1>2. TypeOK
  <2>1. call \in [op : Ops, uuid : Uuids \union {Nothing}, addr : Addresses \union {Zero, Nothing},
                  pass : Passwords \union {Nothing}]
    BY DEF Init, NoCall, Ops
  <2>2. faults \in 0..MaxFaults
    BY FaultsAssumption DEF Init
  <2> QED BY <2>1, <2>2 DEF Init, TypeOK, Defaults
<1>3. CallFits /\ CallsKey /\ FilesAreThere /\ SaltIsCurrent
  BY <1>1 DEF Init, CallFits, CallsKey, FilesAreThere, SaltIsCurrent
<1>4. OwnAddress /\ LookupsAgree /\ SavesSync /\ OnePass
  BY <1>1 DEF Init, OwnAddress, LookupsAgree, SavesSync, OnePass
<1>5. OneSalt
  BY <1>1 DEF Init, OneSalt
<1> QED BY <1>2, <1>3, <1>4, <1>5 DEF IInv

LEMMA StutterKeeps ==
    ASSUME IInv, UNCHANGED vars
    PROVE  IInv'
<1>1. (TypeOK /\ CallFits /\ CallsKey /\ FilesAreThere /\ SaltIsCurrent)'
  BY DEF vars, disk, store, index, history, IInv, TypeOK, CallFits, CallsKey, FilesAreThere,
         SaltIsCurrent, Exists, Held
<1>2. (OwnAddress /\ LookupsAgree /\ SavesSync /\ OnePass /\ OneSalt)'
  BY DEF vars, disk, store, index, history, IInv, OwnAddress, LookupsAgree, SavesSync, OnePass,
         OneSalt, Held, Synced, Loading
<1> QED BY <1>1, <1>2 DEF IInv

LEMMA NextIInv == IInv /\ [Next]_vars => IInv'
<1> SUFFICES ASSUME IInv, [Next]_vars PROVE IInv'
  OBVIOUS
<1>1. CASE CallBegin
  <2>1. CASE \E p \in Passwords : Create(p) \/ Save(p) \/ LoadFails(p) \/ Load(p)
    BY <2>1, CreateKeeps, SaveKeeps, LoadFailsKeeps, LoadKeeps
  <2>2. CASE \E u \in Uuids, a \in Addresses, p \in Passwords :
                \/ Import(u, a, p)
                \/ \E decrypted, named \in BOOLEAN : StoreImport(u, a, p, decrypted, named)
    BY <2>2, ImportKeeps, StoreImportKeeps
  <2>3. CASE \E u \in Uuids : OpenSecret(u) \/ ImportExistingUnknown(u)
    BY <2>3, OpenSecretKeeps, ImportExistingUnknownKeeps
  <2>4. CASE ClearCache
    BY <2>4, ClearCacheKeeps
  <2>5. CASE \E u \in Uuids, p \in Passwords : ImportExisting(u, p)
    BY <2>5, ImportExistingKeeps
  <2>6. CASE \E a \in Addresses, p \in Passwords : Recode(a, p)
    BY <2>6, RecodeKeeps
  <2>7. CASE \E a \in Addresses \union {Zero} : Kill(a)
    BY <2>7, KillKeeps
  <2> QED BY <1>1, <2>1, <2>2, <2>3, <2>4, <2>5, <2>6, <2>7 DEF CallBegin
<1>2. CASE CallStep
  BY <1>2, TruncateKeyKeeps, WriteKeyKeeps, SaveThrowsKeeps, WriteSaltKeeps, WriteKeysKeeps,
     WriteThrowsKeeps, LoadSavedKeeps, LoadEndKeeps, ImportSavedKeeps, StoreImportSavedKeeps,
     RecodeSavedKeeps DEF CallStep
<1>3. CASE Crash
  BY <1>3, CrashKeeps
<1>4. CASE UNCHANGED vars
  BY <1>4, StutterKeeps
<1> QED BY <1>1, <1>2, <1>3, <1>4 DEF Next

LEMMA AlwaysIInv == Spec => []IInv
<1> QED BY InitIInv, NextIInv, PTL DEF Spec

(* Every variable keeps its type, for any number of uuids, addresses and passwords. *)
THEOREM TypeCorrect == Spec => []TypeOK
<1>1. IInv => TypeOK
  BY DEF IInv
<1> QED BY <1>1, AlwaysIInv, PTL

(* The keys file can be opened with a password unless a change of the master password was   *)
(* cut between the salt file and the keys file, however many writes fail: the load, import, *)
(* recode and kill that write it with m_keysFileKey write it with a key of the salt on disk. *)
THEOREM IndexOpensAlways == Spec => []IndexOpens
<1>1. IInv => IndexOpens
  BY DEF IInv, FilesAreThere, SaltIsCurrent, IndexOpens
<1> QED BY <1>1, AlwaysIInv, PTL

(* Between calls, unless a save was cut short, the directory holds each key of m_keys under *)
(* its password, whichever of imports, recodes, kills and restarts came before.             *)
THEOREM KeysAreSyncedAlways == Spec => []KeysAreSynced
<1>1. IInv => KeysAreSynced
  BY DEF IInv, SavesSync, Synced, KeysAreSynced
<1> QED BY <1>1, AlwaysIInv, PTL

(* m_addrLookup and m_uuidLookup agree about every key the store holds, at every step of    *)
(* every call, also where two keys had one address when the lookups were built.             *)
THEOREM LookupsAgreeAlways == Spec => []LookupsAgree
<1>1. IInv => LookupsAgree
  BY DEF IInv
<1> QED BY <1>1, AlwaysIInv, PTL

(* The password hash the index keeps of an account is of the password its key file is       *)
(* encrypted under, apart from the keys in doubt.                                           *)
THEOREM HashesOpenAlways == Spec => []HashesOpen
<1>1. IInv => HashesOpen
  BY DEF IInv, OnePass, HashesOpen
<1> QED BY <1>1, AlwaysIInv, PTL

(* Unless a write failed half-way, every password hash between calls is salted with the     *)
(* value a typed password is about to be salted with.                                       *)
THEOREM HashesRecognisedAlways == Spec => []HashesRecognised
<1>1. IInv => HashesRecognised
  BY DEF IInv, OneSalt, Loading, HashesRecognised
<1> QED BY <1>1, AlwaysIInv, PTL

=============================================================================
