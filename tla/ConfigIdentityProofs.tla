------------------------ MODULE ConfigIdentityProofs ------------------------
(***************************************************************************)
(* The permanent password, for any threads, passwords and salts, and any   *)
(* number of calls, key pairs and deaths of the process.                   *)
(***************************************************************************)
EXTENDS ConfigIdentity, TLAPS

(* A storage of a password, and a configuration with one: a hash goes with *)
(* the salt it was made with.                                              *)
Kinds == {"empty", "plain", "hash", "sealed", "sealed hash", "foreign"}
Storages == [kind : Kinds, p : Passwords \cup {""}, s : Salts \cup {NoSalt}]
Hashed(w) == w.kind \in {"hash", "sealed hash"}

IsStorage(w) ==
  /\ w \in Storages
  /\ IF w.kind \in {"empty", "foreign"} THEN w.p = "" ELSE w.p \in Passwords
  /\ Hashed(w) => w.s \in Salts

IdTexts == {NoId, "i0", "i1", "i2", "foreign id"}
Configs == [pw : Storages, salt : Salts \cup {NoSalt}, key : Int, id : IdTexts, enc : IdTexts]

IsConfig(c) == c \in Configs /\ IsStorage(c.pw) /\ (Hashed(c.pw) => c.salt = c.pw.s)

(* What migration leaves.                                                  *)
Ready(c) == c.pw.kind \in {"empty", "hash", "foreign"}

(* A thread that loads CONFIG, and one that has read the file.             *)
Loading == {"load", "ensured", "stored"}
Holding == Loading \cup {"key", "key ensured", "key to file"}

(* The file knows the password.                                            *)
FileKnows == behind = "no" => Truth(file) = truth

(* CONFIG, once it is there, knows the password, and the file unless it is *)
(* behind; before, the file and every copy of it that may still be written *)
(* do.  One thread loads.                                                  *)
IInv ==
  /\ at = [t \in Threads |-> at[t]] /\ loc = [t \in Threads |-> loc[t]]
  /\ IsConfig(file) /\ IsConfig(mem) /\ \A t \in Threads : IsConfig(loc[t])
  /\ loaded \in BOOLEAN /\ cache \in Int /\ keys \in Int
  /\ loaded => Ready(mem) /\ truth = Truth(mem) /\ \A t \in Threads : at[t] \notin Loading
  /\ ~loaded => behind = "no" /\ \A t \in Threads : at[t] \in Holding => Truth(loc[t]) = truth
  /\ FileKnows
  /\ \A t \in Threads : at[t] = "stored" => Ready(loc[t])
  /\ \A t \in Threads : at[t] \in {"salt", "key to CONFIG"} => loaded
  /\ \A t, u \in Threads : at[t] \in Loading /\ at[u] \in Loading => t = u

(* The storages there are.                                                 *)
LEMMA StoragesAre ==
  ASSUME IdentityAssumption
  PROVE  /\ IsStorage(Empty) /\ IsStorage(Foreign) /\ ~Hashed(Empty) /\ ~Hashed(Foreign)
         /\ \A p \in Passwords : IsStorage(Plain(p)) /\ IsStorage(Sealed(p)) /\ ~Hashed(Plain(p)) /\ ~Hashed(Sealed(p))
         /\ \A p \in Passwords, s \in Salts :
              IsStorage(Hash(p, s)) /\ IsStorage(SealedHash(p, s)) /\ Hash(p, s).s = s /\ SealedHash(p, s).s = s
  <1>1. IsStorage(Empty) /\ IsStorage(Foreign) /\ ~Hashed(Empty) /\ ~Hashed(Foreign)
    BY DEF IsStorage, Storages, Kinds, Hashed, Empty, Foreign
  <1>2. \A p \in Passwords : IsStorage(Plain(p)) /\ IsStorage(Sealed(p)) /\ ~Hashed(Plain(p)) /\ ~Hashed(Sealed(p))
    BY DEF IsStorage, Storages, Kinds, Hashed, Plain, Sealed
  <1>3. \A p \in Passwords, s \in Salts :
          IsStorage(Hash(p, s)) /\ IsStorage(SealedHash(p, s)) /\ Hash(p, s).s = s /\ SealedHash(p, s).s = s
    BY DEF IsStorage, Storages, Kinds, Hashed, Hash, SealedHash
  <1> QED
    BY <1>1, <1>2, <1>3

(* A configuration with another key or another id has the same password.   *)
LEMMA OtherKey ==
  ASSUME NEW c, IsConfig(c), NEW k \in Int
  PROVE  LET n == [c EXCEPT !.key = k] IN IsConfig(n) /\ n.pw = c.pw
  <1>1. LET n == [c EXCEPT !.key = k] IN n \in Configs /\ n.pw = c.pw /\ n.salt = c.salt
    BY DEF IsConfig, Configs
  <1> QED
    BY <1>1 DEF IsConfig

LEMMA OtherId ==
  ASSUME NEW c, IsConfig(c), NEW i \in IdTexts
  PROVE  LET n == [c EXCEPT !.id = i] IN IsConfig(n) /\ n.pw = c.pw
  <1>1. LET n == [c EXCEPT !.id = i] IN n \in Configs /\ n.pw = c.pw /\ n.salt = c.salt
    BY DEF IsConfig, Configs
  <1> QED
    BY <1>1 DEF IsConfig

LEMMA SealedId ==
  ASSUME NEW c, IsConfig(c), NEW i \in IdTexts, NEW e \in IdTexts
  PROVE  LET n == [c EXCEPT !.enc = e, !.id = i] IN IsConfig(n) /\ n.pw = c.pw
  <1>1. LET n == [c EXCEPT !.enc = e, !.id = i] IN n \in Configs /\ n.pw = c.pw /\ n.salt = c.salt
    BY DEF IsConfig, Configs
  <1> QED
    BY <1>1 DEF IsConfig

LEMMA OtherSalt ==
  ASSUME NEW c, IsConfig(c), NEW s \in Salts \cup {NoSalt}, ~Hashed(c.pw)
  PROVE  LET n == [c EXCEPT !.salt = s] IN IsConfig(n) /\ n.pw = c.pw
  <1>1. LET n == [c EXCEPT !.salt = s] IN n \in Configs /\ n.pw = c.pw
    BY DEF IsConfig, Configs
  <1> QED
    BY <1>1 DEF IsConfig

LEMMA NewConfig ==
  ASSUME IdentityAssumption
  PROVE  IsConfig(Config) /\ \A s \in Salts : IsConfig([Config EXCEPT !.salt = s])
  <1>1. Empty \in Storages /\ IsStorage(Empty) /\ ~Hashed(Empty)
    BY StoragesAre DEF IsStorage
  <1>2. Config.pw = Empty
    BY DEF Config
  <1>3. Config \in Configs
    BY <1>1 DEF Config, Configs, IdTexts, NoKey
  <1>4. IsConfig(Config)
    BY <1>1, <1>2, <1>3 DEF IsConfig
  <1> QED
    BY <1>1, <1>2, <1>4, OtherSalt

(* Migration keeps the password.                                           *)
LEMMA MigratedIs ==
  ASSUME IdentityAssumption, NEW c, IsConfig(c), NEW m \in Migrated(c)
  PROVE  IsConfig(m) /\ Ready(m) /\ Truth(m) = Truth(c) /\ m.id = c.id /\ m.enc = c.enc
  <1>1. CASE Ready(c)
    BY <1>1 DEF Migrated, Decrypted, Ready
  <1>2. CASE ~Ready(c)
    <2>1. c.pw.kind \in {"plain", "sealed", "sealed hash"} /\ c.pw.p \in Passwords /\ c.salt \in Salts \cup {NoSalt}
      BY <1>2 DEF Ready, IsConfig, IsStorage, Storages, Kinds, Configs
    <2>2. PICK s \in IF c.salt = NoSalt THEN Salts ELSE {c.salt} :
            m = [c EXCEPT !.salt = s,
                          !.pw = IF c.pw.kind = "sealed hash" THEN Hash(c.pw.p, c.pw.s) ELSE Hash(c.pw.p, s)]
      <3>1. CASE c.pw.kind \in {"plain", "sealed"}
        <4>1. Decrypted(c.pw).kind = "plain" /\ Decrypted(c.pw).p = c.pw.p
          BY <3>1 DEF Decrypted, Plain
        <4> QED
          BY <3>1, <4>1 DEF Migrated
      <3>2. CASE c.pw.kind = "sealed hash"
        <4>1. Decrypted(c.pw) = Hash(c.pw.p, c.pw.s) /\ Decrypted(c.pw).kind = "hash"
          BY <3>2 DEF Decrypted, Hash
        <4> QED
          BY <3>2, <4>1 DEF Migrated
      <3> QED
        BY <2>1, <3>1, <3>2
    <2>3. s \in Salts
      BY <2>1, <2>2
    <2>4. c.pw.kind = "sealed hash" => c.pw.s = s
      BY <2>2 DEF IsConfig, IsStorage, Hashed, IdentityAssumption
    <2>5. PICK w : w = Hash(c.pw.p, s)
      OBVIOUS
    <2>6. m = [c EXCEPT !.salt = s, !.pw = w]
      BY <2>2, <2>4, <2>5
    <2>7. IsStorage(w) /\ w.kind = "hash" /\ w.p = c.pw.p /\ w.s = s
      BY <2>1, <2>3, <2>5, StoragesAre DEF Hash
    <2>8. m \in Configs /\ m.pw = w /\ m.salt = s /\ m.id = c.id /\ m.enc = c.enc
      BY <2>3, <2>6, <2>7 DEF IsConfig, IsStorage, Configs
    <2> QED
      BY <2>1, <2>7, <2>8 DEF Ready, Truth, IsConfig
  <1> QED
    BY <1>1, <1>2

LEMMA NewFilesAre ==
  ASSUME IdentityAssumption, NEW c, IsConfig(c), NEW n \in NewFiles(c)
  PROVE  IsConfig(n) /\ Truth(n) = Truth(c)
  <1>1. PICK m \in Migrated(c) : n = [m EXCEPT !.enc = m.id, !.id = NoId]
    BY DEF NewFiles
  <1>2. IsConfig(m) /\ Truth(m) = Truth(c)
    BY MigratedIs
  <1>3. m.id \in IdTexts /\ NoId \in IdTexts
    BY <1>2 DEF IsConfig, Configs, IdTexts
  <1>4. IsConfig(n) /\ n.pw = m.pw
    BY <1>1, <1>2, <1>3, SealedId
  <1> QED
    BY <1>2, <1>4 DEF Truth

LEMMA StoreKeeps ==
  ASSUME IdentityAssumption, IsConfig(file), NEW c, IsConfig(c), file' \in NewFiles(c) \cup {file}
  PROVE  IsConfig(file') /\ Truth(file') \in {Truth(c), Truth(file)}
  BY NewFilesAre

LEMMA SaveKeeps ==
  ASSUME IdentityAssumption, IsConfig(file), NEW c, IsConfig(c), Save(c)
  PROVE  IsConfig(file') /\ (behind' = "no" => Truth(file') = Truth(c))
  <1>1. /\ file' \in NewFiles(c) \cup {file}
        /\ behind' = IF file' \in NewFiles(c) THEN "no" ELSE "failed"
    BY DEF Save, Store
  <1> QED
    BY <1>1, NewFilesAre

LEMMA IdsAndKeys ==
  {NoKey, 1} \subseteq Int /\ {NoId, "i0"} \subseteq IdTexts /\ {"i0", "foreign id"} \subseteq IdTexts
  BY DEF NoKey, IdTexts

(* Every file that a version leaves is a configuration.                    *)
LEMMA LegacyIs ==
  ASSUME IdentityAssumption, NEW c \in Legacy
  PROVE  IsConfig(c)
  <1>1. PICK some \in Passwords : some = CHOOSE p \in Passwords : TRUE
    BY DEF IdentityAssumption
  <1>2. PICK salt \in Salts : salt = CHOOSE s \in Salts : TRUE
    BY DEF IdentityAssumption
  <1>3. CASE c = Config
    BY <1>3, NewConfig
  <1>4. ASSUME NEW w \in {Plain(some), Sealed(some), Foreign}, NEW s \in {NoSalt, salt}, NEW k \in {NoKey, 1},
               NEW i \in {NoId, "i0"}, c = [Config EXCEPT !.pw = w, !.salt = s, !.key = k, !.id = i]
        PROVE  IsConfig(c)
    <2>1. IsStorage(w) /\ ~Hashed(w) /\ w \in Storages
      BY StoragesAre DEF IsStorage
    <2>2. Config \in Configs /\ k \in Int /\ i \in IdTexts /\ s \in Salts \cup {NoSalt}
      BY NewConfig, IdsAndKeys DEF IsConfig
    <2>3. c \in Configs /\ c.pw = w
      BY <1>4, <2>1, <2>2 DEF Config, Configs
    <2> QED
      BY <2>1, <2>3 DEF IsConfig
  <1>5. ASSUME NEW w \in {Empty, Hash(some, salt), SealedHash(some, salt)}, NEW e \in {"i0", "foreign id"},
               c = [Config EXCEPT !.pw = w, !.salt = salt, !.key = 1, !.enc = e]
        PROVE  IsConfig(c)
    <2>1. IsStorage(w) /\ (Hashed(w) => w.s = salt) /\ w \in Storages
      <3>1. CASE w = Empty
        BY <3>1, StoragesAre DEF IsStorage
      <3>2. CASE w \in {Hash(some, salt), SealedHash(some, salt)}
        <4>1. /\ IsStorage(Hash(some, salt)) /\ Hash(some, salt).s = salt
              /\ IsStorage(SealedHash(some, salt)) /\ SealedHash(some, salt).s = salt
          BY StoragesAre
        <4> QED
          BY <3>2, <4>1 DEF IsStorage
      <3> QED
        BY <3>1, <3>2
    <2>2. Config \in Configs /\ e \in IdTexts /\ 1 \in Int
      BY NewConfig, IdsAndKeys DEF IsConfig
    <2>3. c \in Configs /\ c.pw = w /\ c.salt = salt
      BY <1>5, <2>1, <2>2 DEF Configs
    <2> QED
      BY <2>1, <2>3 DEF IsConfig
  <1> QED
    BY <1>1, <1>2, <1>3, <1>4, <1>5 DEF Legacy

LEMMA InitIInv == IdentityAssumption /\ Init => IInv
  <1> SUFFICES ASSUME IdentityAssumption, Init PROVE IInv
    OBVIOUS
  <1>1. IsConfig(file) /\ IsConfig(mem) /\ \A t \in Threads : IsConfig(loc[t]) /\ at[t] = "idle"
    BY LegacyIs, NewConfig DEF Init
  <1>2. at = [t \in Threads |-> at[t]] /\ loc = [t \in Threads |-> loc[t]]
    BY DEF Init
  <1>3. ~loaded /\ loaded \in BOOLEAN /\ behind = "no" /\ FileKnows
    BY DEF Init, FileKnows
  <1>4. cache \in Int /\ keys \in Int
    BY DEF Init, NoKey
  <1> QED
    BY <1>1, <1>2, <1>3, <1>4 DEF IInv, Loading, Holding

-----------------------------------------------------------------------------
Moves(t, where, what) == at' = [at EXCEPT ![t] = where] /\ loc' = [loc EXCEPT ![t] = what]

(* A thread moves, and CONFIG and what is true of the password stay.       *)
LEMMA ThreadStep ==
  ASSUME IInv, NEW t \in Threads, NEW where, NEW what, Moves(t, where, what), IsConfig(what),
         IsConfig(file'), UNCHANGED <<mem, loaded, truth>>, cache' \in Int, keys' \in Int,
         FileKnows', ~loaded => behind' = "no" /\ (where \in Holding => Truth(what) = truth),
         where \in Loading => at[t] \in Loading \/ (~loaded /\ \A u \in Threads : at[u] \notin Loading),
         where = "stored" => Ready(what),
         where \in {"salt", "key to CONFIG"} => loaded
  PROVE  IInv'
  <1>1. /\ at' = [u \in Threads |-> at'[u]] /\ loc' = [u \in Threads |-> loc'[u]]
        /\ at'[t] = where /\ loc'[t] = what
        /\ \A u \in Threads \ {t} : at'[u] = at[u] /\ loc'[u] = loc[u]
    BY DEF Moves, IInv
  <1>2. IsConfig(mem') /\ loaded' \in BOOLEAN
    BY DEF IInv
  <1>3. \A u \in Threads : IsConfig(loc'[u])
    BY <1>1 DEF IInv
  <1>4. loaded' => Ready(mem') /\ truth' = Truth(mem') /\ \A u \in Threads : at'[u] \notin Loading
    BY <1>1 DEF IInv
  <1>5. ~loaded' => behind' = "no" /\ \A u \in Threads : at'[u] \in Holding => Truth(loc'[u]) = truth'
    BY <1>1 DEF IInv
  <1>6. \A u \in Threads : at'[u] = "stored" => Ready(loc'[u])
    BY <1>1 DEF IInv
  <1>7. \A u \in Threads : at'[u] \in {"salt", "key to CONFIG"} => loaded'
    BY <1>1 DEF IInv
  <1>8. \A u, v \in Threads : at'[u] \in Loading /\ at'[v] \in Loading => u = v
    BY <1>1 DEF IInv
  <1> QED
    BY <1>1, <1>2, <1>3, <1>4, <1>5, <1>6, <1>7, <1>8 DEF IInv

(* CONFIG changes under its lock, once it is there.                        *)
LEMMA LoadedStep ==
  ASSUME IInv, NEW t \in Threads, NEW where, NEW what, Moves(t, where, what), IsConfig(what),
         where \notin Loading, loaded, loaded' = loaded, cache' \in Int, keys' \in Int,
         IsConfig(file'), IsConfig(mem'), Ready(mem'), truth' = Truth(mem'), FileKnows'
  PROVE  IInv'
  <1>1. /\ at' = [u \in Threads |-> at'[u]] /\ loc' = [u \in Threads |-> loc'[u]]
        /\ at'[t] = where /\ loc'[t] = what
        /\ \A u \in Threads \ {t} : at'[u] = at[u] /\ loc'[u] = loc[u]
    BY DEF Moves, IInv
  <1>2. \A u \in Threads : IsConfig(loc'[u]) /\ at'[u] \notin Loading
    BY <1>1 DEF IInv
  <1>3. loaded' \in BOOLEAN /\ loaded'
    BY DEF IInv
  <1> QED
    BY <1>1, <1>2, <1>3 DEF IInv, Loading

(* ensure_key_pair changes the key of a thread's copy.                     *)
LEMMA EnsureIs ==
  ASSUME IInv, NEW t \in Threads, EnsureKeyPair(t)
  PROVE  \E what : /\ loc' = [loc EXCEPT ![t] = what] /\ IsConfig(what) /\ what.pw = loc[t].pw
                   /\ cache' \in Int /\ keys' \in Int
  <1>1. PICK new : new = IF cache # NoKey THEN cache ELSE IF loc[t].key # NoKey THEN loc[t].key ELSE keys + 1
    OBVIOUS
  <1>2. IsConfig(loc[t]) /\ loc[t].key \in Int /\ cache \in Int /\ keys \in Int
    BY DEF IInv, IsConfig, Configs
  <1>3. new \in Int
    BY <1>1, <1>2
  <1>4. /\ cache' = new /\ keys' = IF new > keys THEN new ELSE keys
        /\ loc' = [loc EXCEPT ![t].key = new]
    BY <1>1 DEF EnsureKeyPair
  <1>5. PICK what : what = [loc[t] EXCEPT !.key = new]
    OBVIOUS
  <1>6. IsConfig(what) /\ what.pw = loc[t].pw
    BY <1>2, <1>3, <1>5, OtherKey
  <1>7. loc' = [loc EXCEPT ![t] = what]
    BY <1>4, <1>5
  <1> QED
    BY <1>2, <1>3, <1>4, <1>6, <1>7

LEMMA SameTruth ==
  ASSUME NEW c, NEW d, c.pw = d.pw
  PROVE  Truth(c) = Truth(d) /\ (Ready(c) <=> Ready(d))
  BY DEF Truth, Ready

LEMMA LoadReadsStep ==
  ASSUME IInv, NEW t \in Threads, LoadReads(t) \/ GetKeyPairReads(t)
  PROVE  IInv'
  <1>1. PICK where \in {"load", "key"} :
          /\ Moves(t, where, file) /\ UNCHANGED <<file, mem, loaded, truth, cache, keys, behind>>
          /\ where \in Loading => ~loaded /\ \A u \in Threads : at[u] \notin Loading
    BY DEF LoadReads, GetKeyPairReads, Goto, Moves, Loading
  <1>2. /\ IsConfig(file') /\ cache' \in Int /\ keys' \in Int /\ IsConfig(file)
        /\ FileKnows' /\ (~loaded => behind' = "no" /\ Truth(file) = truth)
    BY <1>1 DEF IInv, FileKnows
  <1> QED
    BY <1>1, <1>2, ThreadStep

LEMMA EnsuresStep ==
  ASSUME IInv, NEW t \in Threads, LoadEnsures(t) \/ GetKeyPairEnsures(t)
  PROVE  IInv'
  <1>1. PICK what : /\ loc' = [loc EXCEPT ![t] = what] /\ IsConfig(what) /\ what.pw = loc[t].pw
                    /\ cache' \in Int /\ keys' \in Int
    BY EnsureIs DEF LoadEnsures, GetKeyPairEnsures
  <1>2. UNCHANGED <<file, mem, loaded, truth>> /\ IsConfig(file') /\ FileKnows' /\ (~loaded => behind' = "no")
    BY DEF LoadEnsures, GetKeyPairEnsures, IInv, FileKnows
  <1>3. Truth(what) = Truth(loc[t])
    BY <1>1, SameTruth
  <1>4. CASE LoadEnsures(t)
    <2>1. at[t] = "load" /\ Moves(t, "ensured", what)
      BY <1>1, <1>4 DEF LoadEnsures, Goto, Moves
    <2>2. at[t] \in Loading /\ (~loaded => Truth(what) = truth)
      BY <1>3, <2>1 DEF IInv, Loading, Holding
    <2> QED
      BY <1>1, <1>2, <2>1, <2>2, ThreadStep
  <1>5. CASE GetKeyPairEnsures(t)
    <2>1. at[t] = "key" /\ Moves(t, "key ensured", what)
      BY <1>1, <1>5 DEF GetKeyPairEnsures, Goto, Moves
    <2>2. "key ensured" \notin Loading /\ (~loaded => Truth(what) = truth)
      BY <1>3, <2>1 DEF IInv, Loading, Holding
    <2> QED
      BY <1>1, <1>2, <2>1, <2>2, ThreadStep
  <1> QED
    BY <1>4, <1>5

LEMMA LoadStoresStep ==
  ASSUME IdentityAssumption, IInv, NEW t \in Threads, LoadStores(t)
  PROVE  IInv'
  <1>1. at[t] = "ensured" /\ Goto(t, "stored") /\ UNCHANGED <<mem, loaded, cache, keys, truth, behind>>
    BY DEF LoadStores
  <1>2. IsConfig(loc[t]) /\ IsConfig(file) /\ ~loaded /\ Truth(loc[t]) = truth /\ Truth(file) = truth
        /\ behind = "no"
    BY <1>1 DEF IInv, FileKnows, Loading, Holding
  <1>3. PICK m \in Migrated(loc[t]) : \E i \in Ids(m) :
          /\ loc' = [loc EXCEPT ![t] = [m EXCEPT !.id = i]]
          /\ file' \in NewFiles([m EXCEPT !.id = i]) \cup {file}
    BY DEF LoadStores, Store
  <1>4. PICK i \in Ids(m) :
          /\ loc' = [loc EXCEPT ![t] = [m EXCEPT !.id = i]]
          /\ file' \in NewFiles([m EXCEPT !.id = i]) \cup {file}
    BY <1>3
  <1>5. IsConfig(m) /\ Ready(m) /\ Truth(m) = truth
    BY <1>2, MigratedIs
  <1>6. i \in IdTexts
    BY <1>5 DEF Ids, GenId, IsConfig, Configs, IdTexts
  <1>7. PICK c : c = [m EXCEPT !.id = i]
    OBVIOUS
  <1>8. IsConfig(c) /\ c.pw = m.pw
    BY <1>5, <1>6, <1>7, OtherId
  <1>9. Ready(c) /\ Truth(c) = truth
    BY <1>5, <1>8, SameTruth
  <1>10. IsConfig(file') /\ FileKnows'
    BY <1>1, <1>2, <1>4, <1>7, <1>8, <1>9, StoreKeeps DEF FileKnows
  <1>11. Moves(t, "stored", c) /\ at[t] \in Loading /\ cache' \in Int /\ keys' \in Int
    BY <1>1, <1>4, <1>7 DEF Goto, Moves, Loading, IInv
  <1> QED
    BY <1>1, <1>2, <1>8, <1>9, <1>10, <1>11, ThreadStep

LEMMA LoadReturnsStep ==
  ASSUME IdentityAssumption, IInv, NEW t \in Threads, LoadReturns(t)
  PROVE  IInv'
  <1>1. /\ at[t] = "stored" /\ mem' = loc[t] /\ loaded' = TRUE /\ Moves(t, "idle", Config)
        /\ UNCHANGED <<file, cache, keys, truth, behind>>
    BY DEF LoadReturns, Return, Goto, Moves
  <1>2. IsConfig(loc[t]) /\ Ready(loc[t]) /\ Truth(loc[t]) = truth
    BY <1>1 DEF IInv, Loading, Holding
  <1>3. /\ at' = [u \in Threads |-> at'[u]] /\ loc' = [u \in Threads |-> loc'[u]]
        /\ at'[t] = "idle" /\ loc'[t] = Config
        /\ \A u \in Threads \ {t} : at'[u] = at[u] /\ loc'[u] = loc[u]
    BY <1>1 DEF Moves, IInv
  <1>4. \A u \in Threads : IsConfig(loc'[u]) /\ at'[u] \notin Loading
    BY <1>1, <1>3, NewConfig DEF IInv, Loading
  <1>5. IsConfig(file') /\ cache' \in Int /\ keys' \in Int /\ FileKnows'
    BY <1>1 DEF IInv, FileKnows
  <1> QED
    BY <1>1, <1>2, <1>3, <1>4, <1>5 DEF IInv, Loading

(* A call that moves no thread.                                            *)
LEMMA Stays ==
  ASSUME IInv, NEW t \in Threads, UNCHANGED <<at, loc>>, at[t] = "idle"
  PROVE  Moves(t, "idle", loc[t]) /\ IsConfig(loc[t]) /\ "idle" \notin Holding /\ "idle" \notin Loading
  BY DEF IInv, Moves, Holding, Loading

LEMMA CachedKeyStep ==
  ASSUME IInv, NEW t \in Threads, GetCachedKeyPair(t) \/ GetExistingKeyPair(t)
  PROVE  IInv'
  <1>1. at[t] = "idle" /\ UNCHANGED <<file, mem, loaded, truth, at, loc, keys, behind>>
        /\ cache' \in {cache, file.key}
    BY DEF GetCachedKeyPair, GetExistingKeyPair, Call
  <1>2. /\ IsConfig(file') /\ FileKnows' /\ (~loaded => behind' = "no") /\ cache' \in Int /\ keys' \in Int
    BY <1>1 DEF IInv, FileKnows, IsConfig, Configs
  <1> QED
    BY <1>1, <1>2, Stays, ThreadStep

LEMMA InvalidateStep ==
  ASSUME IdentityAssumption, IInv, NEW t \in Threads, InvalidateKeyPair(t)
  PROVE  IInv'
  <1>1. Moves(t, "idle", Config) /\ UNCHANGED <<file, mem, loaded, truth, keys, behind>>
        /\ cache' \in {cache, NoKey}
    BY DEF InvalidateKeyPair, Return, Goto, Moves
  <1>2. /\ IsConfig(file') /\ FileKnows' /\ (~loaded => behind' = "no") /\ cache' \in Int /\ keys' \in Int
    <2>1. cache \in Int /\ keys \in Int
      BY DEF IInv
    <2>3. NoKey \in Int
      BY DEF NoKey
    <2>2. IsConfig(file') /\ FileKnows' /\ (~loaded => behind' = "no")
      BY <1>1 DEF IInv, FileKnows
    <2> QED
      BY <1>1, <2>1, <2>2, <2>3
  <1> QED
    BY <1>1, <1>2, NewConfig, ThreadStep DEF Holding, Loading

LEMMA GetKeyPairLooksStep ==
  ASSUME IdentityAssumption, IInv, NEW t \in Threads, GetKeyPairLooks(t)
  PROVE  IInv'
  <1>1. /\ at[t] = "key ensured" /\ UNCHANGED <<file, mem, loaded, truth, behind>>
        /\ cache' \in Int /\ keys' \in Int /\ IsConfig(file')
    BY DEF GetKeyPairLooks, IInv
  <1>2. FileKnows' /\ (~loaded => behind' = "no" /\ Truth(loc[t]) = truth)
    BY <1>1 DEF IInv, FileKnows, Holding
  <1>3. CASE dirty[t]
    <2>1. PICK where : where = IF loaded THEN "key to CONFIG" ELSE "key to file"
      OBVIOUS
    <2>2. Moves(t, where, loc[t]) /\ IsConfig(loc[t])
      BY <1>3, <2>1 DEF GetKeyPairLooks, Goto, Moves, IInv
    <2>3. where \notin Loading /\ where # "stored" /\ where # "salt" /\ (where = "key to CONFIG" => loaded)
      BY <2>1 DEF Loading
    <2> QED
      BY <1>1, <1>2, <2>2, <2>3, ThreadStep
  <1>4. CASE ~dirty[t]
    <2>1. Moves(t, "idle", Config) /\ IsConfig(Config)
      BY <1>4, NewConfig DEF GetKeyPairLooks, Return, Goto, Moves
    <2> QED
      BY <1>1, <1>2, <2>1, ThreadStep DEF Holding, Loading
  <1> QED
    BY <1>3, <1>4

LEMMA GetKeyPairSavesStep ==
  ASSUME IdentityAssumption, IInv, NEW t \in Threads, GetKeyPairSaves(t)
  PROVE  IInv'
  <1>1. /\ at[t] = "key to CONFIG" /\ Moves(t, "idle", Config) /\ UNCHANGED <<loaded, truth>>
        /\ cache' \in Int /\ keys' \in Int /\ mem' = [mem EXCEPT !.key = loc[t].key] /\ Save(mem')
    BY DEF GetKeyPairSaves, Return, Goto, Moves, IInv
  <1>2. IsConfig(file) /\ IsConfig(mem) /\ loc[t].key \in Int /\ IsConfig(Config) /\ loaded
    BY <1>1, NewConfig DEF IInv, IsConfig, Configs
  <1>3. IsConfig(mem') /\ mem'.pw = mem.pw
    BY <1>1, <1>2, OtherKey
  <1>4. Ready(mem') /\ truth' = Truth(mem')
    BY <1>1, <1>2, <1>3, SameTruth DEF IInv
  <1>5. IsConfig(file') /\ FileKnows'
    BY <1>1, <1>2, <1>3, <1>4, SaveKeeps DEF FileKnows
  <1> QED
    BY <1>1, <1>2, <1>3, <1>4, <1>5, LoadedStep DEF Loading

LEMMA GetKeyPairStoresStep ==
  ASSUME IdentityAssumption, IInv, NEW t \in Threads, GetKeyPairStores(t)
  PROVE  IInv'
  <1>1. /\ at[t] = "key to file" /\ Moves(t, "idle", Config) /\ UNCHANGED <<mem, loaded, truth>>
        /\ cache' \in Int /\ keys' \in Int /\ file' \in NewFiles(loc[t]) \cup {file}
        /\ behind' = IF loaded /\ file' \in NewFiles(loc[t]) THEN "raw" ELSE behind
    BY DEF GetKeyPairStores, Store, Return, Goto, Moves, IInv
  <1>2. IsConfig(loc[t]) /\ IsConfig(file) /\ IsConfig(Config) /\ FileKnows
        /\ (~loaded => Truth(loc[t]) = truth /\ behind = "no")
    BY <1>1, NewConfig DEF IInv, Holding
  <1>3. IsConfig(file')
    BY <1>1, <1>2, StoreKeeps
  <1>4. FileKnows' /\ (~loaded => behind' = "no")
    <2>1. CASE loaded
      BY <1>1, <1>2, <2>1 DEF FileKnows
    <2>2. CASE ~loaded
      BY <1>1, <1>2, <2>2, StoreKeeps DEF FileKnows
    <2> QED
      BY <2>1, <2>2
  <1> QED
    BY <1>1, <1>2, <1>3, <1>4, ThreadStep DEF Holding, Loading

LEMMA SetConfigStep ==
  ASSUME IdentityAssumption, IInv, NEW t \in Threads, SetConfig(t)
  PROVE  IInv'
  <1>1. /\ loaded /\ loaded' = loaded /\ truth' = Truth(mem') /\ Moves(t, "set", mem')
        /\ UNCHANGED <<cache, keys>> /\ file' \in NewFiles(mem') \cup {file}
    BY DEF SetConfig, Goto, Moves
  <1>2. PICK p \in Passwords, s \in Salts, k \in {NoKey, Imported} :
          mem' = [pw |-> Hash(p, s), salt |-> s, key |-> k, id |-> "i2", enc |-> NoId]
    BY DEF SetConfig
  <1>3. IsStorage(Hash(p, s)) /\ Hash(p, s) \in Storages /\ Hash(p, s).s = s /\ Hash(p, s).kind = "hash"
    BY StoragesAre DEF IsStorage, Hash
  <1>4. k \in Int
    BY DEF NoKey, Imported
  <1>5. mem' \in Configs /\ mem'.pw = Hash(p, s) /\ mem'.salt = s
    BY <1>2, <1>3, <1>4 DEF Configs, IdTexts
  <1>6. IsConfig(mem') /\ Ready(mem')
    BY <1>3, <1>5 DEF IsConfig, Ready
  <1>7. IsConfig(file') /\ cache' \in Int /\ keys' \in Int
    BY <1>1, <1>6, StoreKeeps DEF IInv
  <1>8. FileKnows'
    <2>1. CASE mem' = mem
      BY <1>1, <2>1 DEF SetConfig, FileKnows, IInv
    <2>2. CASE mem' # mem
      <3>1. behind' = IF file' \in NewFiles(mem') THEN "no" ELSE "failed"
        BY <2>2 DEF SetConfig
      <3> QED
        BY <1>1, <1>6, <3>1, NewFilesAre DEF FileKnows
    <2> QED
      BY <2>1, <2>2
  <1> QED
    BY <1>1, <1>6, <1>7, <1>8, LoadedStep DEF Loading

(* Update, with a configuration whose password is ready.                   *)
LEMMA UpdateStep ==
  ASSUME IdentityAssumption, IInv, NEW t \in Threads, NEW c, IsConfig(c), Ready(c), Update(t, c), truth' = Truth(c)
  PROVE  IInv'
  <1>1. /\ at[t] = "idle" /\ UNCHANGED <<at, loc>> /\ loaded /\ loaded' = loaded /\ mem' = c
        /\ Save(c) /\ UNCHANGED <<cache, keys>>
    BY DEF Update, Call
  <1>2. IsConfig(file') /\ cache' \in Int /\ keys' \in Int /\ FileKnows'
    BY <1>1, SaveKeeps DEF IInv, FileKnows
  <1> QED
    BY <1>1, <1>2, Stays, LoadedStep

LEMMA SetPermanentPasswordStep ==
  ASSUME IdentityAssumption, IInv, NEW t \in Threads, NEW p \in Passwords \cup {""}, SetPermanentPassword(t, p)
  PROVE  IInv'
  <1>1. PICK s \in IF mem.salt = NoSalt /\ p # "" THEN Salts ELSE {mem.salt} :
          /\ Update(t, [mem EXCEPT !.pw = IF p = "" THEN Empty ELSE Hash(p, s), !.salt = s])
          /\ truth' = p
    BY DEF SetPermanentPassword
  <1>2. PICK w : w = IF p = "" THEN Empty ELSE Hash(p, s)
    OBVIOUS
  <1>3. IsConfig(mem) /\ mem.salt \in Salts \cup {NoSalt}
    BY DEF IInv, IsConfig, Configs
  <1>4. s \in Salts \cup {NoSalt} /\ (p # "" => s \in Salts)
    BY <1>1, <1>3
  <1>5. IsStorage(w) /\ (Hashed(w) => s = w.s) /\ w.kind \in {"empty", "hash"} /\ w.p = p
    <2>1. CASE p = ""
      BY <1>2, <2>1, StoragesAre DEF Empty
    <2>2. CASE p # ""
      BY <1>2, <1>4, <2>2, StoragesAre DEF Hash
    <2> QED
      BY <2>1, <2>2
  <1>6. PICK c : c = [mem EXCEPT !.pw = w, !.salt = s]
    OBVIOUS
  <1>7. IsConfig(c) /\ c.pw = w
    <2>1. c \in Configs /\ c.pw = w /\ c.salt = s
      BY <1>3, <1>4, <1>5, <1>6 DEF IsConfig, IsStorage, Configs
    <2> QED
      BY <1>5, <2>1 DEF IsConfig
  <1>8. Ready(c) /\ Truth(c) = p
    BY <1>5, <1>7 DEF Ready, Truth
  <1>9. Update(t, c) /\ truth' = Truth(c)
    BY <1>1, <1>2, <1>6, <1>8
  <1> QED
    BY <1>7, <1>8, <1>9, UpdateStep

(* What another process may send.                                          *)
LEMMA SyncedAre ==
  ASSUME IdentityAssumption, NEW d \in Synced
  PROVE  d.salt \in Salts \cup {NoSalt} /\ IsStorage(d.pw) /\ (Hashed(d.pw) => d.salt = d.pw.s)
         /\ d.pw.kind \in {"empty", "hash", "foreign"}
  <1>1. Empty.kind = "empty" /\ Foreign.kind = "foreign" /\ \A p, s : Hash(p, s).kind = "hash"
    BY DEF Empty, Foreign, Hash
  <1>2. CASE d = [pw |-> Empty, salt |-> NoSalt] \/ d = [pw |-> Foreign, salt |-> NoSalt]
    BY <1>1, <1>2, StoragesAre
  <1>3. ASSUME NEW p \in Passwords, NEW s \in Salts, d = [pw |-> Hash(p, s), salt |-> s]
        PROVE  d.salt \in Salts /\ IsStorage(d.pw) /\ d.salt = d.pw.s /\ d.pw.kind = "hash"
    <2>1. d.pw = Hash(p, s) /\ d.salt = s
      BY <1>3
    <2>2. IsStorage(Hash(p, s)) /\ Hash(p, s).s = s
      BY StoragesAre
    <2> QED
      BY <1>1, <2>1, <2>2
  <1> QED
    BY <1>2, <1>3 DEF Synced

LEMMA SyncPasswordStep ==
  ASSUME IdentityAssumption, IInv, NEW t \in Threads, SyncPassword(t)
  PROVE  IInv'
  <1>1. PICK d \in Synced : /\ Update(t, [mem EXCEPT !.pw = d.pw, !.salt = d.salt])
                            /\ truth' = Truth(d)
    BY DEF SyncPassword
  <1>2. d.salt \in Salts \cup {NoSalt} /\ IsStorage(d.pw) /\ (Hashed(d.pw) => d.salt = d.pw.s)
        /\ d.pw.kind \in {"empty", "hash", "foreign"}
    BY SyncedAre
  <1>3. PICK c : c = [mem EXCEPT !.pw = d.pw, !.salt = d.salt]
    OBVIOUS
  <1>4. IsConfig(c) /\ c.pw = d.pw
    <2>1. c \in Configs /\ c.pw = d.pw /\ c.salt = d.salt
      BY <1>2, <1>3 DEF IInv, IsConfig, IsStorage, Configs
    <2> QED
      BY <1>2, <2>1 DEF IsConfig
  <1>5. Ready(c) /\ truth' = Truth(c)
    BY <1>1, <1>2, <1>4 DEF Ready, Truth
  <1> QED
    BY <1>1, <1>3, <1>4, <1>5, UpdateStep

LEMMA SetIdStep ==
  ASSUME IdentityAssumption, IInv, NEW t \in Threads, SetId(t, "i2")
  PROVE  IInv'
  <1>1. PICK c : c = [mem EXCEPT !.id = "i2"]
    OBVIOUS
  <1>2. Update(t, c) /\ truth' = truth /\ loaded
    BY <1>1 DEF SetId, Update
  <1>3. "i2" \in IdTexts
    BY DEF IdTexts
  <1>4. IsConfig(c) /\ c.pw = mem.pw
    BY <1>1, <1>3, OtherId DEF IInv
  <1>5. Ready(c) /\ truth' = Truth(c)
    BY <1>2, <1>4, SameTruth DEF IInv
  <1> QED
    BY <1>2, <1>4, <1>5, UpdateStep

(* set_salt leaves a hash alone, since it has its salt.                    *)
LEMMA SetSaltKeeps ==
  ASSUME IdentityAssumption, IInv, loaded, NEW s \in Salts \cup {NoSalt}, SetSalt(s)
  PROVE  /\ IsConfig(mem') /\ Ready(mem') /\ Truth(mem') = truth /\ IsConfig(file')
         /\ behind' = "no" => Truth(file') = truth
  <1>1. IsConfig(mem) /\ Ready(mem) /\ Truth(mem) = truth /\ IsConfig(file) /\ (behind = "no" => Truth(file) = truth)
    BY DEF IInv, FileKnows
  <1>2. CASE UNCHANGED <<mem, file, behind>>
    BY <1>1, <1>2
  <1>3. CASE mem' = [mem EXCEPT !.salt = s] /\ (mem.pw.kind = "hash" => mem.salt = NoSalt) /\ Save(mem')
    <2>1. ~Hashed(mem.pw)
      BY <1>1, <1>3 DEF IsConfig, IsStorage, Hashed, Ready, IdentityAssumption
    <2>2. IsConfig(mem') /\ mem'.pw = mem.pw
      BY <1>1, <1>3, <2>1, OtherSalt
    <2>3. Ready(mem') /\ Truth(mem') = truth
      BY <1>1, <2>2, SameTruth
    <2>4. IsConfig(file') /\ (behind' = "no" => Truth(file') = truth)
      BY <1>1, <1>3, <2>2, <2>3, SaveKeeps
    <2> QED
      BY <2>2, <2>3, <2>4
  <1> QED
    BY <1>2, <1>3 DEF SetSalt

LEMMA SaltsStep ==
  ASSUME IdentityAssumption, IInv, NEW t \in Threads,
         GetSaltReads(t) \/ GetSaltSets(t) \/ \E s \in Salts : SetSaltCalled(t, s)
  PROVE  IInv'
  <1>1. cache' \in Int /\ keys' \in Int /\ truth' = truth /\ loaded' = loaded
    BY DEF IInv, GetSaltReads, GetSaltSets, SetSaltCalled
  <1>2. CASE GetSaltReads(t)
    <2>1. PICK s \in Salts : Moves(t, "salt", [Config EXCEPT !.salt = s])
      BY <1>2 DEF GetSaltReads, Goto, Moves
    <2>2. IsConfig([Config EXCEPT !.salt = s])
      BY NewConfig
    <2>3. loaded /\ UNCHANGED <<file, mem>> /\ IsConfig(file') /\ FileKnows'
      BY <1>2 DEF GetSaltReads, IInv, FileKnows
    <2> QED
      BY <1>1, <2>1, <2>2, <2>3, ThreadStep DEF Holding, Loading
  <1>3. CASE GetSaltSets(t)
    <2>1. loaded /\ SetSalt(loc[t].salt) /\ Moves(t, "idle", Config)
      BY <1>3 DEF GetSaltSets, Return, Goto, Moves, IInv
    <2>2. loc[t].salt \in Salts \cup {NoSalt}
      BY DEF IInv, IsConfig, Configs
    <2> QED
      BY <1>1, <2>1, <2>2, SetSaltKeeps, NewConfig, LoadedStep DEF Loading, FileKnows
  <1>4. ASSUME NEW s \in Salts, SetSaltCalled(t, s) PROVE IInv'
    <2>1. loaded /\ SetSalt(s) /\ at[t] = "idle" /\ UNCHANGED <<at, loc>>
      BY <1>4 DEF SetSaltCalled, Call
    <2> QED
      BY <1>1, <2>1, SetSaltKeeps, Stays, LoadedStep DEF FileKnows
  <1> QED
    BY <1>2, <1>3, <1>4

LEMMA DieStep ==
  ASSUME IdentityAssumption, IInv, Die
  PROVE  IInv'
  <1>1. /\ mem' = Config /\ ~loaded' /\ loaded' \in BOOLEAN /\ cache' = NoKey /\ behind' = "no"
        /\ truth' = (IF behind = "no" THEN truth ELSE Truth(file))
        /\ at' = [t \in Threads |-> "idle"] /\ loc' = [t \in Threads |-> Config] /\ UNCHANGED <<file, keys>>
    BY DEF Die
  <1>2. IsConfig(file') /\ IsConfig(mem') /\ \A t \in Threads : IsConfig(loc'[t]) /\ at'[t] = "idle"
    BY <1>1, NewConfig DEF IInv
  <1>3. cache' \in Int /\ keys' \in Int
    <2>1. keys \in Int
      BY DEF IInv
    <2>2. NoKey \in Int
      BY DEF NoKey
    <2> QED
      BY <1>1, <2>1, <2>2
  <1>4. at' = [t \in Threads |-> at'[t]] /\ loc' = [t \in Threads |-> loc'[t]]
    BY <1>1
  <1>5. FileKnows'
    BY <1>1 DEF IInv, FileKnows
  <1> QED
    BY <1>1, <1>2, <1>3, <1>4, <1>5 DEF IInv, Loading, Holding

LEMMA NextIInv == IdentityAssumption /\ IInv /\ [Next]_vars => IInv'
  <1> SUFFICES ASSUME IdentityAssumption, IInv, [Next]_vars PROVE IInv'
    OBVIOUS
  <1>1. CASE UNCHANGED vars
    BY <1>1 DEF vars, IInv, FileKnows
  <1>2. CASE Die
    BY <1>2, DieStep
  <1>3. ASSUME NEW t \in Threads, Step(t) PROVE IInv'
    <2>1. CASE LoadReads(t) \/ GetKeyPairReads(t)
      BY <2>1, LoadReadsStep
    <2>2. CASE LoadEnsures(t) \/ GetKeyPairEnsures(t)
      BY <2>2, EnsuresStep
    <2>3. CASE LoadStores(t)
      BY <2>3, LoadStoresStep
    <2>4. CASE LoadReturns(t)
      BY <2>4, LoadReturnsStep
    <2>5. CASE GetCachedKeyPair(t) \/ GetExistingKeyPair(t)
      BY <2>5, CachedKeyStep
    <2>6. CASE GetKeyPairLooks(t)
      BY <2>6, GetKeyPairLooksStep
    <2>13. CASE GetKeyPairSaves(t)
      BY <2>13, GetKeyPairSavesStep
    <2>14. CASE GetKeyPairStores(t)
      BY <2>14, GetKeyPairStoresStep
    <2>7. CASE SetConfig(t)
      BY <2>7, SetConfigStep
    <2>8. CASE InvalidateKeyPair(t)
      BY <2>8, InvalidateStep
    <2>9. ASSUME NEW p \in Passwords \cup {""}, SetPermanentPassword(t, p) PROVE IInv'
      BY <2>9, SetPermanentPasswordStep
    <2>10. CASE SyncPassword(t)
      BY <2>10, SyncPasswordStep
    <2>11. CASE GetSaltReads(t) \/ GetSaltSets(t) \/ \E s \in Salts : SetSaltCalled(t, s)
      BY <2>11, SaltsStep
    <2>12. CASE SetId(t, "i2")
      BY <2>12, SetIdStep
    <2> QED
      BY <1>3, <2>1, <2>2, <2>3, <2>4, <2>5, <2>6, <2>7, <2>8, <2>9, <2>10, <2>11, <2>12, <2>13, <2>14 DEF Step
  <1> QED
    BY <1>1, <1>2, <1>3 DEF Next

(* The password that was set last, and no other, opens the device, and no  *)
(* hash ever stands beside another salt than its own: not after get_salt   *)
(* let go of the lock, not after a key pair was written around CONFIG, not *)
(* after a death between any two steps.  The file keeps it for the next    *)
(* process, but for a store that failed and for a raw copy stored late.    *)
THEOREM VerifiedPassword == IdentityAssumption => (Spec => []PasswordVerifies)
  <1> SUFFICES ASSUME IdentityAssumption PROVE Spec => []PasswordVerifies
    OBVIOUS
  <1>1. Init => IInv
    BY InitIInv
  <1>2. IInv /\ [Next]_vars => IInv'
    BY NextIInv
  <1>3. IInv => PasswordVerifies
    <2> SUFFICES ASSUME IInv PROVE PasswordVerifies
      OBVIOUS
    <2>1. \A c \in {file, mem} : c.pw.kind \in {"hash", "sealed hash"} => c.salt = c.pw.s
      BY DEF IInv, IsConfig, Hashed
    <2>2. ASSUME loaded, NEW p \in Passwords PROVE Matches(mem, p) <=> p = truth
      <3>1. IsConfig(mem) /\ Ready(mem) /\ truth = Truth(mem) /\ p # "" /\ p # "?"
        BY <2>2 DEF IInv, IdentityAssumption
      <3>2. CASE mem.pw.kind \in {"empty", "foreign"}
        BY <3>1, <3>2 DEF IsConfig, IsStorage, Matches, Truth
      <3>3. CASE mem.pw.kind = "hash"
        <4>1. /\ mem.salt = mem.pw.s /\ mem.salt # NoSalt /\ truth = mem.pw.p /\ mem.pw \in Storages
          BY <3>1, <3>3 DEF IsConfig, IsStorage, Hashed, Truth, IdentityAssumption
        <4>2. mem.pw = Hash(p, mem.salt) <=> p = mem.pw.p
          <5>1. mem.pw = [kind |-> mem.pw.kind, p |-> mem.pw.p, s |-> mem.pw.s]
            BY <4>1 DEF Storages
          <5>2. Hash(p, mem.salt) = [kind |-> "hash", p |-> p, s |-> mem.salt]
            BY DEF Hash
          <5>3. mem.pw = Hash(p, mem.salt) => p = mem.pw.p
            BY DEF Hash
          <5>4. p = mem.pw.p => mem.pw = Hash(p, mem.salt)
            BY <3>3, <4>1, <5>1, <5>2, Zenon
          <5> QED
            BY <5>3, <5>4
        <4> QED
          BY <3>1, <3>3, <4>1, <4>2 DEF Matches
      <3> QED
        BY <3>1, <3>2, <3>3 DEF Ready
    <2> QED
      BY <2>1, <2>2 DEF PasswordVerifies, IInv, FileKnows
  <1> QED
    BY <1>1, <1>2, <1>3, PTL DEF Spec

=============================================================================
