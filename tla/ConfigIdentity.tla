--------------------------- MODULE ConfigIdentity ---------------------------
(***************************************************************************)
(* The configuration of a device (config.rs, struct Config): its id, its   *)
(* key pair with the cache KEY_PAIR, and its permanent password with the   *)
(* salt it is hashed with.  Threads of one process call the functions      *)
(* below; a call is one step per lock it takes and one per file it reads   *)
(* outside a lock.  The process may die between any two steps.             *)
(*                                                                         *)
(* The machine has a unique id, as every desktop has: get_uuid then needs  *)
(* no key pair.  Passwords are opaque, and so is what hashing and sealing  *)
(* make of them.  The calls that change the password end by clearing the   *)
(* trusted devices, which CONFIG2 holds: ConfigLists models them.          *)
(***************************************************************************)
EXTENDS Integers, FiniteSets

CONSTANTS
  Threads,     \* threads that call Config
  Passwords,   \* passwords a user may choose
  Salts,       \* what Config::get_auto_password may return as a salt
  MaxKeys,     \* bound: key pairs generated
  MaxCalls,    \* bound: calls started
  MaxDeaths    \* bound: deaths of the process

NoSalt == "no salt"
NoId == "no id"
NoKey == 0
Imported == -1    \* the key pair of a configuration that Config::set brings in

(* There are passwords and salts, and none is what stands for there being  *)
(* none.                                                                   *)
IdentityAssumption ==
  Passwords # {} /\ {"", "?"} \cap Passwords = {} /\ Salts # {} /\ NoSalt \notin Salts

(* Storage of the permanent password: nothing, a plain password, its hash  *)
(* under a salt, either of these sealed for this machine ("00..."), or a   *)
(* sealed value of another machine.                                        *)
Empty == [kind |-> "empty", p |-> "", s |-> NoSalt]
Plain(p) == [kind |-> "plain", p |-> p, s |-> NoSalt]
Hash(p, s) == [kind |-> "hash", p |-> p, s |-> s]
Sealed(p) == [kind |-> "sealed", p |-> p, s |-> NoSalt]
SealedHash(p, s) == [kind |-> "sealed hash", p |-> p, s |-> s]
Foreign == [kind |-> "foreign", p |-> "", s |-> NoSalt]

Config == [pw |-> Empty, salt |-> NoSalt, key |-> NoKey, id |-> NoId, enc |-> NoId]

VARIABLES
  file,      \* the file of Config, Config itself when there is none
  mem,       \* CONFIG
  loaded,    \* CONFIG_INITIALIZED
  cache,     \* KEY_PAIR
  at,        \* where every thread is
  loc,       \* the Config that every thread works on
  dirty,     \* it differs from the one read, and is to be stored
  keys,      \* key pairs generated so far
  calls,     \* calls so far
  deaths,    \* deaths so far
  truth,     \* history: the password set last, "" for none, "?" for Foreign
  handed,    \* history: key pairs that callers of this process hold
  torn,      \* history: a configuration was brought in, or a store failed
  behind     \* history: what the file lacks CONFIG's password for: "no" for
             \* nothing, "failed" when the last store failed, "raw" when the
             \* last one was that of a copy read before CONFIG was there

vars == <<file, mem, loaded, cache, at, loc, dirty, keys, calls, deaths, truth, handed, torn, behind>>

Truth(c) == IF c.pw.kind = "foreign" THEN "?" ELSE c.pw.p

(* What earlier versions and this one leave in a file.                     *)
Legacy ==
  LET some == CHOOSE p \in Passwords : TRUE
      salt == CHOOSE s \in Salts : TRUE
  IN  {Config} \cup
      {[Config EXCEPT !.pw = w, !.salt = s, !.key = k, !.id = i] :
         w \in {Plain(some), Sealed(some), Foreign}, s \in {NoSalt, salt}, k \in {NoKey, 1}, i \in {NoId, "i0"}} \cup
      {[Config EXCEPT !.pw = w, !.salt = salt, !.key = 1, !.enc = e] :
         w \in {Empty, Hash(some, salt), SealedHash(some, salt)}, e \in {"i0", "foreign id"}}

Init ==
  /\ file \in Legacy
  /\ mem = Config
  /\ loaded = FALSE
  /\ cache = NoKey
  /\ at = [t \in Threads |-> "idle"]
  /\ loc = [t \in Threads |-> Config]
  /\ dirty = [t \in Threads |-> FALSE]
  /\ keys = 1
  /\ calls = 0
  /\ deaths = 0
  /\ truth = Truth(file)
  /\ handed = {}
  /\ torn = FALSE
  /\ behind = "no"

-----------------------------------------------------------------------------
(* decrypt_str_or_original: a sealed value that does not open stays as it  *)
(* is.                                                                     *)
Decrypted(w) ==
  CASE w.kind = "sealed" -> Plain(w.p)
    [] w.kind = "sealed hash" -> Hash(w.p, w.s)
    [] OTHER -> w

(* migrate_permanent_password_to_hashed_storage: what it may make of c.    *)
Migrated(c) ==
  LET w == Decrypted(c.pw) IN
  IF c.pw.kind \in {"empty", "hash"} \/ w.kind = "foreign" THEN {c}
  ELSE {[c EXCEPT !.salt = s, !.pw = IF w.kind = "hash" THEN w ELSE Hash(w.p, s)] :
          s \in IF c.salt = NoSalt THEN Salts ELSE {c.salt}}

(* Config::store and store_: the migrated copy, its id sealed, replaces    *)
(* the file; an error is only logged.                                      *)
NewFiles(c) == {[m EXCEPT !.enc = m.id, !.id = NoId] : m \in Migrated(c)}
Store(c) ==
  /\ file' \in NewFiles(c) \cup {file}
  /\ torn' = (torn \/ file' \notin NewFiles(c))

(* A store of CONFIG.                                                      *)
Save(c) == Store(c) /\ behind' = IF file' \in NewFiles(c) THEN "no" ELSE "failed"

(* matches_permanent_password_plain, without a preset password.            *)
Matches(c, p) ==
  /\ p # ""
  /\ \/ c.pw.kind = "hash" /\ c.salt # NoSalt /\ c.pw = Hash(p, c.salt)
     \/ c.pw.kind = "plain" /\ c.pw.p = p

MutEnsureKeyPair(t) ==
  LET new == IF loc[t].key # NoKey THEN loc[t].key ELSE keys + 1
  IN  /\ new <= MaxKeys
      /\ cache' = new
      /\ keys' = IF new > keys THEN new ELSE keys
      /\ loc' = [loc EXCEPT ![t].key = new]
      /\ dirty' = [dirty EXCEPT ![t] = new # loc[t].key]

(* ensure_key_pair on the copy of thread t: the cached pair, else the      *)
(* pair of the file, else a new one.                                       *)
EnsureKeyPair(t) ==
  LET new == IF cache # NoKey THEN cache ELSE IF loc[t].key # NoKey THEN loc[t].key ELSE keys + 1
  IN  /\ new <= MaxKeys
      /\ cache' = new
      /\ keys' = IF new > keys THEN new ELSE keys
      /\ loc' = [loc EXCEPT ![t].key = new]
      /\ dirty' = [dirty EXCEPT ![t] = new # loc[t].key]

Goto(t, where) == at' = [at EXCEPT ![t] = where]
Call(t) == at[t] = "idle" /\ calls < MaxCalls /\ calls' = calls + 1
Return(t) ==
  /\ Goto(t, "idle")
  /\ loc' = [loc EXCEPT ![t] = Config]
  /\ dirty' = [dirty EXCEPT ![t] = FALSE]

-----------------------------------------------------------------------------
(* The first use of CONFIG runs Config::load; other users of CONFIG wait.  *)
LoadReads(t) ==
  /\ ~loaded /\ \A u \in Threads : at[u] \notin {"load", "ensured", "stored"}
  /\ Call(t)
  /\ loc' = [loc EXCEPT ![t] = file]
  /\ Goto(t, "load")
  /\ UNCHANGED <<file, mem, loaded, cache, dirty, keys, deaths, truth, handed, torn, behind>>

LoadEnsures(t) ==
  /\ at[t] = "load"
  /\ EnsureKeyPair(t)
  /\ Goto(t, "ensured")
  /\ UNCHANGED <<file, mem, loaded, calls, deaths, truth, handed, torn, behind>>

(* gen_id, from the address of a network card, may fail.                   *)
GenId(c) == {c.id, "i1"}

(* The id: the sealed one, else a plain one of an old version, else a new  *)
(* one if it can be made.                                                  *)
Ids(c) == IF c.enc \notin {NoId, "foreign id"} THEN {c.enc}
          ELSE IF c.id # NoId /\ c.enc = NoId THEN {c.id} ELSE GenId(c)

(* The file is written when anything changed.                              *)
LoadStores(t) ==
  /\ at[t] = "ensured"
  /\ \E m \in Migrated(loc[t]) : \E i \in Ids(m) :
       LET c == [m EXCEPT !.id = i] IN
       /\ loc' = [loc EXCEPT ![t] = c]
       /\ IF dirty[t] \/ m # loc[t] \/ (i # m.enc /\ i # NoId)
          THEN Store(c) ELSE UNCHANGED <<file, torn>>
  /\ Goto(t, "stored")
  /\ UNCHANGED <<mem, loaded, cache, dirty, keys, calls, deaths, truth, handed, behind>>

LoadReturns(t) ==
  /\ at[t] = "stored"
  /\ mem' = loc[t]
  /\ loaded' = TRUE
  /\ Return(t)
  /\ UNCHANGED <<file, cache, keys, calls, deaths, truth, handed, torn, behind>>

-----------------------------------------------------------------------------
(* get_key_pair: from the cache, or from the file as it is read now.       *)
GetCachedKeyPair(t) ==
  /\ Call(t) /\ cache # NoKey
  /\ handed' = handed \cup {cache}
  /\ UNCHANGED <<file, mem, loaded, cache, at, loc, dirty, keys, deaths, truth, torn, behind>>

GetKeyPairReads(t) ==
  /\ Call(t) /\ cache = NoKey
  /\ loc' = [loc EXCEPT ![t] = file]
  /\ Goto(t, "key")
  /\ UNCHANGED <<file, mem, loaded, cache, dirty, keys, deaths, truth, handed, torn, behind>>

GetKeyPairEnsures(t) ==
  /\ at[t] = "key"
  /\ EnsureKeyPair(t)
  /\ Goto(t, "key ensured")
  /\ UNCHANGED <<file, mem, loaded, calls, deaths, truth, handed, torn, behind>>

(* Is CONFIG there?  A changed pair then goes through it, and otherwise    *)
(* with the raw copy straight to the file, whatever happens to CONFIG in   *)
(* between.                                                                *)
GetKeyPairLooks(t) ==
  /\ at[t] = "key ensured"
  /\ IF dirty[t]
     THEN Goto(t, IF loaded THEN "key to CONFIG" ELSE "key to file") /\ UNCHANGED <<loc, dirty, handed>>
     ELSE handed' = handed \cup {loc[t].key} /\ Return(t)
  /\ UNCHANGED <<file, mem, loaded, cache, keys, calls, deaths, truth, torn, behind>>

GetKeyPairSaves(t) ==
  /\ at[t] = "key to CONFIG"
  /\ mem' = [mem EXCEPT !.key = loc[t].key]
  /\ Save(mem')
  /\ handed' = handed \cup {loc[t].key}
  /\ Return(t)
  /\ UNCHANGED <<loaded, cache, keys, calls, deaths, truth>>

GetKeyPairStores(t) ==
  /\ at[t] = "key to file"
  /\ Store(loc[t])
  /\ behind' = IF loaded /\ file' \in NewFiles(loc[t]) THEN "raw" ELSE behind
  /\ handed' = handed \cup {loc[t].key}
  /\ Return(t)
  /\ UNCHANGED <<mem, loaded, cache, keys, calls, deaths, truth>>

(* get_existing_key_pair, with KEY_PAIR locked throughout.                 *)
GetExistingKeyPair(t) ==
  /\ Call(t) /\ cache = NoKey /\ file.key # NoKey
  /\ cache' = file.key
  /\ handed' = handed \cup {file.key}
  /\ UNCHANGED <<file, mem, loaded, at, loc, dirty, keys, deaths, truth, torn, behind>>

(* Config::set: the whole configuration, then the cached pair is dropped   *)
(* if it is another one.                                                   *)
SetConfig(t) ==
  /\ Call(t) /\ loaded
  /\ \E p \in Passwords, s \in Salts, k \in {NoKey, Imported} :
       mem' = [pw |-> Hash(p, s), salt |-> s, key |-> k, id |-> "i2", enc |-> NoId]
  /\ IF mem' = mem THEN UNCHANGED <<file, behind>>
     ELSE /\ file' \in NewFiles(mem') \cup {file}
          /\ behind' = IF file' \in NewFiles(mem') THEN "no" ELSE "failed"
  /\ torn' = TRUE
  /\ truth' = Truth(mem')
  /\ loc' = [loc EXCEPT ![t] = mem']
  /\ Goto(t, "set")
  /\ UNCHANGED <<loaded, cache, dirty, keys, deaths, handed>>

InvalidateKeyPair(t) ==
  /\ at[t] = "set"
  /\ cache' = IF cache # loc[t].key THEN NoKey ELSE cache
  /\ Return(t)
  /\ UNCHANGED <<file, mem, loaded, keys, calls, deaths, truth, handed, torn, behind>>

-----------------------------------------------------------------------------
(* A call that changes CONFIG under its lock and stores it.                *)
Update(t, c) ==
  /\ Call(t) /\ loaded
  /\ c # mem
  /\ mem' = c
  /\ Save(c)
  /\ UNCHANGED <<loaded, cache, at, loc, dirty, keys, deaths, handed>>

(* set_permanent_password: a new salt only where there is none.            *)
SetPermanentPassword(t, p) ==
  \E s \in IF mem.salt = NoSalt /\ p # "" THEN Salts ELSE {mem.salt} :
    LET w == IF p = "" THEN Empty ELSE Hash(p, s) IN
    /\ w # mem.pw
    /\ Update(t, [mem EXCEPT !.pw = w, !.salt = s])
    /\ truth' = p

(* set_permanent_password_storage_for_sync: storage and salt of another    *)
(* process, as a pair.                                                     *)
Synced == {[pw |-> Empty, salt |-> NoSalt], [pw |-> Foreign, salt |-> NoSalt]} \cup
          {[pw |-> Hash(p, s), salt |-> s] : p \in Passwords, s \in Salts}

SyncPassword(t) ==
  \E c \in Synced :
    /\ Update(t, [mem EXCEPT !.pw = c.pw, !.salt = c.salt])
    /\ truth' = Truth(c)

MutSetSalt(s) ==
  IF s # mem.salt
  THEN mem' = [mem EXCEPT !.salt = s] /\ Save(mem')
  ELSE UNCHANGED <<mem, file, torn, behind>>

(* set_salt refuses under a hash that has its salt.                        *)
SetSalt(s) ==
  IF s # mem.salt /\ (mem.pw.kind = "hash" => mem.salt = NoSalt)
  THEN mem' = [mem EXCEPT !.salt = s] /\ Save(mem')
  ELSE UNCHANGED <<mem, file, torn, behind>>

SetSaltCalled(t, s) ==
  /\ Call(t) /\ loaded
  /\ SetSalt(s)
  /\ UNCHANGED <<loaded, cache, at, loc, dirty, keys, deaths, truth, handed>>

(* get_salt: without a salt it makes one, lets go of the lock and calls    *)
(* set_salt.                                                               *)
GetSaltReads(t) ==
  /\ Call(t) /\ loaded /\ mem.salt = NoSalt
  /\ \E s \in Salts : loc' = [loc EXCEPT ![t] = [Config EXCEPT !.salt = s]]
  /\ Goto(t, "salt")
  /\ UNCHANGED <<file, mem, loaded, cache, dirty, keys, deaths, truth, handed, torn, behind>>

GetSaltSets(t) ==
  /\ at[t] = "salt"
  /\ SetSalt(loc[t].salt)
  /\ Return(t)
  /\ UNCHANGED <<loaded, cache, keys, calls, deaths, truth, handed>>

(* set_id; get_id and update_id call it too, with CONFIG unlocked between. *)
SetId(t, i) == Update(t, [mem EXCEPT !.id = i]) /\ truth' = truth

(* The process dies and starts anew.  When the file is behind CONFIG, the  *)
(* password it holds is the one that counts from then on.                  *)
Die ==
  /\ deaths < MaxDeaths
  /\ deaths' = deaths + 1
  /\ mem' = Config /\ loaded' = FALSE /\ cache' = NoKey
  /\ at' = [t \in Threads |-> "idle"]
  /\ loc' = [t \in Threads |-> Config]
  /\ dirty' = [t \in Threads |-> FALSE]
  /\ truth' = IF behind = "no" THEN truth ELSE Truth(file)
  /\ handed' = {}
  /\ torn' = FALSE /\ behind' = "no"
  /\ UNCHANGED <<file, keys, calls>>

Step(t) ==
  \/ LoadReads(t) \/ LoadEnsures(t) \/ LoadStores(t) \/ LoadReturns(t)
  \/ GetCachedKeyPair(t) \/ GetKeyPairReads(t) \/ GetKeyPairEnsures(t)
  \/ GetKeyPairLooks(t) \/ GetKeyPairSaves(t) \/ GetKeyPairStores(t)
  \/ GetExistingKeyPair(t) \/ SetConfig(t) \/ InvalidateKeyPair(t)
  \/ \E p \in Passwords \cup {""} : SetPermanentPassword(t, p)
  \/ SyncPassword(t)
  \/ \E s \in Salts : SetSaltCalled(t, s)
  \/ GetSaltReads(t) \/ GetSaltSets(t)
  \/ SetId(t, "i2")

Next == Die \/ \E t \in Threads : Step(t)

(* The permanent password that was set last, and no other one, opens the   *)
(* device, whatever order the calls that read and write the salt take:     *)
(* matches_permanent_password_plain never meets a hash that was made with  *)
(* another salt than the stored one, in CONFIG nor in the file.  And the   *)
(* password outlives the process: the file holds it too, unless the last   *)
(* store failed, or get_key_pair, which found no CONFIG yet, stored the    *)
(* copy it had read before after a CONFIG that had come in between.        *)
PasswordVerifies ==
  /\ loaded => \A p \in Passwords : Matches(mem, p) <=> p = truth
  /\ \A c \in {file, mem} : c.pw.kind \in {"hash", "sealed hash"} => c.salt = c.pw.s
  /\ behind = "no" => Truth(file) = truth

(* Every caller of get_key_pair in a process holds the same key pair, and  *)
(* when no call is in progress it is the one of CONFIG and of the file:    *)
(* two threads that find no pair do not end with two.  (A configuration    *)
(* that Config::set brings in, or a store that fails, ends this.)          *)
KeyPairIsStable ==
  ~torn =>
    /\ Cardinality(handed) <= 1
    /\ (\A t \in Threads : at[t] = "idle") =>
         \A k \in handed : k = cache /\ file.key = k /\ (loaded => mem.key = k)

Spec == Init /\ [][Next]_vars
=============================================================================
