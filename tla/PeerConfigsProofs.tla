------------------------- MODULE PeerConfigsProofs -------------------------
(***************************************************************************)
(* The files about peers hold what was given, and no old book comes back,  *)
(* for every number of threads, peers, secrets, keys, calls and changes of *)
(* the key, whichever secrets look sealed or are too long.                 *)
(***************************************************************************)
EXTENDS PeerConfigs, TLAPS

Texts == Secrets \cup {Empty}
Vals == [text : Texts, seals : {0, 1}, key : Keys]
Cfgs == [exists : BOOLEAN, secret : Vals, platform : BOOLEAN]
Places == {"idle", "upgrade", "have", "write", "remove"}

(* What a PeerConfig holds was given to its peer, and what was given is    *)
(* still allowed when it is stored again.                                  *)
Files(f, g) ==
  /\ f \in [Peers -> Cfgs] /\ g \in [Peers -> SUBSET Texts]
  /\ \A p \in Peers : f[p].secret.text \in g[p]
  /\ \A p \in Peers : \A x \in g[p] : Kept(x) \in g[p]

(* What a thread holds was in the files.                                   *)
Holds(where, what, g) ==
  where \in {"upgrade", "have"} =>
    what.id \in Peers /\ what.cfg \in Cfgs /\ what.cfg.secret.text \in g[what.id]

(* A store of the book is known by the call that began it: one that has    *)
(* not ended is not outdated, so that its write brings no old book back.   *)
Calls == 1 .. calls

Stores ==
  /\ calls \in 0 .. MaxCalls /\ book \in Copies \cup {0}
  /\ copies = [i \in Copies |-> copies[i]]
  /\ outdated \subseteq ended /\ ended \subseteq Calls
  /\ \A t \in Threads : at[t] = "write" => loc[t].by \in Calls \ ended
  /\ \A t, u \in Threads : at[t] = "write" /\ at[u] = "write" /\ loc[t].by = loc[u].by => t = u
  /\ book # 0 => copies[book].by \notin outdated

IInv ==
  /\ key \in Keys
  /\ at \in [Threads -> Places] /\ loc = [t \in Threads |-> loc[t]]
  /\ Files(file, given)
  /\ Stores
  /\ \A t \in Threads : Holds(at[t], loc[t], given)

(* A password is kept as it is once it was kept.                           *)
LEMMA KeptIs == \A x \in Texts : Kept(x) \in Texts /\ Kept(Kept(x)) = Kept(x) /\ Kept(Empty) = Empty
  BY DEF Kept, Texts

(* Sealing keeps the text, or the empty one instead of one too long, and   *)
(* never seals twice; opening keeps the text.                              *)
LEMMA EncryptIs ==
  ASSUME PeersAssumption, key \in Keys, NEW v \in Vals
  PROVE  Encrypt(v) \in Vals /\ Encrypt(v).text \in {v.text, Kept(v.text)}
  BY DEF PeersAssumption, Encrypt, LooksSealed, Plain, Kept, Vals, Texts

LEMMA EncryptsPlain ==
  ASSUME PeersAssumption, key \in Keys, NEW x \in Texts
  PROVE  Plain(x) \in Vals /\ Encrypt(Plain(x)).text = Kept(x)
  BY DEF PeersAssumption, Encrypt, LooksSealed, Plain, Kept, Vals, Texts

LEMMA DecryptIs ==
  ASSUME NEW v \in Vals
  PROVE  Decrypt(v) \in Vals /\ Decrypt(v).text = v.text
  BY DEF Decrypt, Opens, Vals

(* There is no file, or an empty one.                                      *)
LEMMA NoneIs == PeersAssumption => None \in Cfgs /\ None.secret.text = Empty
  BY DEF PeersAssumption, None, Plain, Cfgs, Vals, Texts

LEMMA IdleIs ==
  /\ \A p, c, b : LET n == [Idle EXCEPT !.id = p, !.cfg = c, !.batch = b] IN n.id = p /\ n.cfg = c
  /\ \A n, c : [Idle EXCEPT !.by = n, !.copy = c].by = n
  BY DEF Idle

(* Initially the files hold secrets that are not sealed.                   *)
LEMMA InitIInv == PeersAssumption /\ Init => IInv
  <1> SUFFICES ASSUME PeersAssumption, Init PROVE IInv
    OBVIOUS
  <1>1. \A s \in Texts, b \in BOOLEAN : Config(Plain(s), b) \in Cfgs
    BY DEF PeersAssumption, Config, Plain, Cfgs, Vals
  <1>2. file \in [Peers -> Cfgs]
    BY <1>1, NoneIs DEF Init, Texts
  <1>3. ASSUME NEW p \in Peers
        PROVE  /\ given[p] = {file[p].secret.text, Kept(file[p].secret.text)}
               /\ file[p].secret.text \in Texts
    BY <1>2 DEF Init, Cfgs, Vals
  <1>4. Files(file, given)
    <2>1. given \in [Peers -> SUBSET Texts]
      <3>1. given = [p \in Peers |-> given[p]]
        BY DEF Init
      <3> QED
        BY <1>3, <3>1, KeptIs
    <2>2. \A p \in Peers : \A x \in given[p] : Kept(x) \in given[p]
      BY <1>3, KeptIs
    <2> QED
      BY <1>2, <1>3, <2>1, <2>2 DEF Files
  <1>5. Stores
    BY DEF PeersAssumption, Init, Stores
  <1>6. \A t \in Threads : Holds(at[t], loc[t], given)
    BY DEF Init, Holds
  <1> QED
    BY <1>4, <1>5, <1>6 DEF Init, IInv, Places

(* A step of one thread: what the others hold was given before.            *)
LEMMA ThreadStep ==
  ASSUME IInv, NEW t \in Threads, NEW where \in Places, NEW what, Goto(t, where, what),
         key' = key, Files(file, given)', Stores',
         \A p \in Peers : given[p] \subseteq given'[p],
         Holds(where, what, given')
  PROVE  IInv'
  <1>1. /\ at' \in [Threads -> Places] /\ loc' = [u \in Threads |-> loc'[u]]
        /\ at'[t] = where /\ loc'[t] = what
        /\ \A u \in Threads \ {t} : at'[u] = at[u] /\ loc'[u] = loc[u]
    BY DEF Goto, IInv
  <1>2. ASSUME NEW u \in Threads PROVE Holds(at'[u], loc'[u], given')
    <2>1. CASE u = t
      BY <1>1, <2>1
    <2>2. CASE u # t
      <3>1. Holds(at[u], loc[u], given)
        BY DEF IInv
      <3>2. Holds(at[u], loc[u], given')
        BY <3>1 DEF Holds
      <3> QED
        BY <1>1, <2>2, <3>2
    <2> QED
      BY <2>1, <2>2
  <1> QED
    BY <1>1, <1>2 DEF IInv

(* A step of one thread, not a store's, leaves the stores of the others    *)
(* where they are; it may remove the book.                                 *)
LEMMA StoresKept ==
  ASSUME IInv, NEW t \in Threads, NEW where, NEW what, Goto(t, where, what), where # "write",
         calls' = calls \/ (calls < MaxCalls /\ calls' = calls + 1),
         UNCHANGED <<copies, ended, outdated>>, book' \in {book, 0}, PeersAssumption
  PROVE  Stores'
  <1>1. at'[t] = where /\ \A u \in Threads \ {t} : at'[u] = at[u] /\ loc'[u] = loc[u]
    BY DEF Goto, IInv
  <1>2. calls' \in 0 .. MaxCalls /\ Calls \subseteq Calls'
    BY DEF IInv, Stores, Calls, PeersAssumption
  <1>3. \A u \in Threads : at'[u] = "write" => at[u] = "write" /\ loc'[u] = loc[u]
    BY <1>1
  <1> QED
    BY <1>2, <1>3 DEF IInv, Stores

(* A step of one thread that changes no file of a peer.                    *)
LEMMA OnlyThread ==
  ASSUME IInv, NEW t \in Threads, NEW where \in Places, NEW what, Goto(t, where, what),
         UNCHANGED <<key, file, given>>, Stores', Holds(where, what, given)
  PROVE  IInv'
  <1>1. Files(file, given)' /\ Holds(where, what, given')
    BY DEF IInv, Files, Holds
  <1>2. \A p \in Peers : given[p] \subseteq given'[p]
    OBVIOUS
  <1> QED
    BY <1>1, <1>2, ThreadStep

(* A PeerConfig is replaced.                                               *)
LEMMA WriteKeeps ==
  ASSUME PeersAssumption, IInv, NEW p \in Peers, NEW v \in Vals, NEW b \in BOOLEAN, NEW g \in SUBSET Texts,
         file' = [file EXCEPT ![p] = Config(Encrypt(v), b)],
         given' = [given EXCEPT ![p] = given[p] \cup g],
         \A x \in g : Kept(x) \in g,
         Encrypt(v).text \in given[p] \cup g
  PROVE  Files(file, given)' /\ \A q \in Peers : given[q] \subseteq given'[q]
  <1>1. Config(Encrypt(v), b) \in Cfgs /\ Config(Encrypt(v), b).secret = Encrypt(v)
    BY EncryptIs DEF IInv, Config, Cfgs
  <1>2. /\ file \in [Peers -> Cfgs] /\ given \in [Peers -> SUBSET Texts]
        /\ \A q \in Peers : file[q].secret.text \in given[q]
        /\ \A q \in Peers : \A x \in given[q] : Kept(x) \in given[q]
    BY DEF IInv, Files
  <1>3. /\ file' \in [Peers -> Cfgs] /\ given' \in [Peers -> SUBSET Texts]
        /\ given'[p] = given[p] \cup g /\ file'[p].secret = Encrypt(v)
        /\ \A q \in Peers \ {p} : file'[q] = file[q] /\ given'[q] = given[q]
    BY <1>1, <1>2
  <1>4. \A q \in Peers : file'[q].secret.text \in given'[q]
    BY <1>2, <1>3
  <1>5. \A q \in Peers : \A x \in given'[q] : Kept(x) \in given'[q]
    BY <1>2, <1>3
  <1>6. \A q \in Peers : given[q] \subseteq given'[q]
    BY <1>2, <1>3
  <1> QED
    BY <1>3, <1>4, <1>5, <1>6 DEF Files

(* A secret that a thread holds may be stored.                             *)
LEMMA MayStore ==
  ASSUME PeersAssumption, IInv, NEW t \in Threads, at[t] \in {"upgrade", "have"}
  PROVE  /\ loc[t].id \in Peers /\ loc[t].cfg \in Cfgs /\ loc[t].cfg.secret \in Vals
         /\ loc[t].cfg.platform \in BOOLEAN
         /\ Encrypt(loc[t].cfg.secret).text \in given[loc[t].id]
  <1>1. loc[t].id \in Peers /\ loc[t].cfg \in Cfgs /\ loc[t].cfg.secret.text \in given[loc[t].id]
    BY DEF IInv, Holds
  <1>2. loc[t].cfg.secret \in Vals /\ loc[t].cfg.platform \in BOOLEAN
    BY <1>1 DEF Cfgs
  <1>3. Kept(loc[t].cfg.secret.text) \in given[loc[t].id]
    BY <1>1 DEF IInv, Files
  <1> QED
    BY <1>1, <1>2, <1>3, EncryptIs DEF IInv

(* A file is removed, and its password forgotten.                          *)
LEMMA RemoveKeeps ==
  ASSUME PeersAssumption, IInv, NEW p \in Peers, RemoveFile(p)
  PROVE  Files(file, given)' /\ \A q \in Peers : given[q] \subseteq given'[q]
  <1>1. /\ file \in [Peers -> Cfgs] /\ given \in [Peers -> SUBSET Texts]
        /\ \A q \in Peers : file[q].secret.text \in given[q]
        /\ \A q \in Peers : \A x \in given[q] : Kept(x) \in given[q]
    BY DEF IInv, Files
  <1>2. Empty \in Texts /\ Kept(Empty) = Empty
    BY KeptIs DEF Texts
  <1>3. /\ file' \in [Peers -> Cfgs] /\ given' \in [Peers -> SUBSET Texts]
        /\ given'[p] = given[p] \cup {Empty} /\ file'[p] = None
        /\ \A q \in Peers \ {p} : file'[q] = file[q] /\ given'[q] = given[q]
    BY <1>1, <1>2, NoneIs DEF RemoveFile
  <1>4. \A q \in Peers : file'[q].secret.text \in given'[q]
    BY <1>1, <1>3, NoneIs
  <1>5. \A q \in Peers : \A x \in given'[q] : Kept(x) \in given'[q]
    BY <1>1, <1>2, <1>3
  <1>6. \A q \in Peers : given[q] \subseteq given'[q]
    BY <1>1, <1>3
  <1> QED
    BY <1>3, <1>4, <1>5, <1>6 DEF Files

(* One lemma for every action.                                             *)
LEMMA LoadStep ==
  ASSUME PeersAssumption, IInv, NEW t \in Threads, NEW p \in Peers, NEW b \in BOOLEAN, Load(t, p, b)
  PROVE  IInv'
  <1>1. file[p] \in Cfgs /\ file[p].secret \in Vals /\ file[p].secret.text \in given[p]
    BY DEF IInv, Files, Cfgs
  <1>2. PICK c : c = [file[p] EXCEPT !.secret = Decrypt(file[p].secret)]
    OBVIOUS
  <1>3. c \in Cfgs /\ c.secret.text \in given[p]
    BY <1>1, <1>2, DecryptIs DEF Cfgs
  <1>4. PICK n : n = [Idle EXCEPT !.id = p, !.cfg = c, !.batch = b]
    OBVIOUS
  <1>5. n.id = p /\ n.cfg = c
    BY <1>4, IdleIs
  <1>6. PICK where \in {"upgrade", "have"} : Goto(t, where, n)
    BY <1>2, <1>4 DEF Load
  <1>7. Holds(where, n, given)
    BY <1>3, <1>5 DEF Holds
  <1>8. /\ UNCHANGED <<key, file, given, book, copies, ended, outdated>>
        /\ calls < MaxCalls /\ calls' = calls + 1
    BY DEF Load, Call
  <1>9. Stores'
    BY <1>6, <1>8, StoresKept
  <1> QED
    BY <1>6, <1>7, <1>8, <1>9, OnlyThread DEF Places

LEMMA LoadStoresStep ==
  ASSUME PeersAssumption, IInv, NEW t \in Threads, LoadStores(t)
  PROVE  IInv'
  <1>1. at[t] = "upgrade" /\ Goto(t, "have", loc[t])
    BY DEF LoadStores
  <1>2. file' = [file EXCEPT ![loc[t].id] = Config(Encrypt(loc[t].cfg.secret), loc[t].cfg.platform)]
    BY DEF LoadStores, Write
  <1>3. UNCHANGED <<key, given, book, copies, ended, outdated, calls>> /\ given \in [Peers -> SUBSET Texts]
    BY DEF LoadStores, IInv, Files
  <1>4. given' = [given EXCEPT ![loc[t].id] = given[loc[t].id] \cup {}]
    BY <1>3
  <1>5. Files(file, given)' /\ \A q \in Peers : given[q] \subseteq given'[q]
    <2>1. /\ loc[t].id \in Peers /\ loc[t].cfg.secret \in Vals /\ loc[t].cfg.platform \in BOOLEAN
          /\ Encrypt(loc[t].cfg.secret).text \in given[loc[t].id] \cup {}
      BY <1>1, MayStore
    <2>2. {} \in SUBSET Texts /\ \A x \in {} : Kept(x) \in {}
      OBVIOUS
    <2> QED
      BY <1>2, <1>4, <2>1, <2>2, WriteKeeps
  <1>6. Stores' /\ key' = key
    BY <1>1, <1>3, StoresKept
  <1>7. Holds("have", loc[t], given')
    BY <1>1, <1>3 DEF IInv, Holds
  <1> QED
    BY <1>1, <1>5, <1>6, <1>7, ThreadStep DEF Places

(* A thread ends its call after a change of the files.                     *)
LEMMA Ends ==
  ASSUME PeersAssumption, IInv, NEW t \in Threads, Goto(t, "idle", Idle),
         UNCHANGED <<key, book, copies, ended, outdated, calls>>,
         Files(file, given)', \A q \in Peers : given[q] \subseteq given'[q]
  PROVE  IInv'
  <1>1. Stores'
    BY StoresKept
  <1>2. Holds("idle", Idle, given')
    BY DEF Holds
  <1> QED
    BY <1>1, <1>2, ThreadStep DEF Places

LEMMA BatchEndsStep ==
  ASSUME PeersAssumption, IInv, NEW t \in Threads, BatchEnds(t)
  PROVE  IInv'
  <1>1. loc[t].id \in Peers
    BY MayStore DEF BatchEnds
  <1>2. Files(file, given)' /\ \A q \in Peers : given[q] \subseteq given'[q]
    <2>1. CASE UNCHANGED <<file, given>>
      BY <2>1 DEF IInv, Files
    <2>2. CASE RemoveFile(loc[t].id)
      BY <1>1, <2>2, RemoveKeeps
    <2> QED
      BY <2>1, <2>2 DEF BatchEnds
  <1> QED
    BY <1>2, Ends DEF BatchEnds

LEMMA StoreStep ==
  ASSUME PeersAssumption, IInv, NEW t \in Threads, Store(t)
  PROVE  IInv'
  <1>1. at[t] = "have" /\ Goto(t, "idle", Idle) /\ UNCHANGED <<key, book, copies, ended, outdated, calls, given>>
    BY DEF Store, StoreCalled
  <1>2. loc[t].cfg \in Cfgs
    BY <1>1, MayStore
  <1>3. file' = [file EXCEPT ![loc[t].id] = Config(Encrypt(loc[t].cfg.secret), TRUE)]
    BY <1>2 DEF Store, StoreCalled, Write, Cfgs
  <1>4. given' = [given EXCEPT ![loc[t].id] = given[loc[t].id] \cup {}]
    BY <1>1 DEF IInv, Files
  <1>5. Files(file, given)' /\ \A q \in Peers : given[q] \subseteq given'[q]
    <2>1. /\ loc[t].id \in Peers /\ loc[t].cfg.secret \in Vals
          /\ Encrypt(loc[t].cfg.secret).text \in given[loc[t].id] \cup {}
      BY <1>1, MayStore
    <2>2. {} \in SUBSET Texts /\ \A x \in {} : Kept(x) \in {}
      OBVIOUS
    <2> QED
      BY <1>3, <1>4, <2>1, <2>2, WriteKeeps
  <1> QED
    BY <1>1, <1>5, Ends

LEMMA StorePasswordStep ==
  ASSUME PeersAssumption, IInv, NEW t \in Threads, NEW text \in Secrets, StorePassword(t, text)
  PROVE  IInv'
  <1>1. at[t] = "have" /\ Goto(t, "idle", Idle) /\ UNCHANGED <<key, book, copies, ended, outdated, calls>>
    BY DEF StorePassword, StoreCalled
  <1>2. loc[t].cfg \in Cfgs /\ loc[t].id \in Peers
    BY <1>1, MayStore
  <1>3. file' = [file EXCEPT ![loc[t].id] = Config(Encrypt(Plain(text)), TRUE)]
    BY <1>2 DEF StorePassword, StoreCalled, Write, Cfgs
  <1>4. text \in Texts /\ Kept(text) \in Texts /\ Kept(Kept(text)) = Kept(text)
    BY KeptIs DEF Texts
  <1>5. given' = [given EXCEPT ![loc[t].id] = given[loc[t].id] \cup {Kept(text)}]
    BY DEF StorePassword
  <1>6. Plain(text) \in Vals /\ Encrypt(Plain(text)).text = Kept(text)
    BY <1>4, EncryptsPlain DEF IInv
  <1>7. Files(file, given)' /\ \A q \in Peers : given[q] \subseteq given'[q]
    <2>1. {Kept(text)} \in SUBSET Texts /\ \A x \in {Kept(text)} : Kept(x) \in {Kept(text)}
      BY <1>4
    <2>2. Encrypt(Plain(text)).text \in given[loc[t].id] \cup {Kept(text)}
      BY <1>6
    <2> QED
      BY <1>2, <1>3, <1>5, <1>6, <2>1, <2>2, WriteKeeps
  <1> QED
    BY <1>1, <1>7, Ends

LEMMA RemovePeerStep ==
  ASSUME PeersAssumption, IInv, NEW t \in Threads, NEW p \in Peers, RemovePeer(t, p)
  PROVE  IInv'
  <1>1. Files(file, given)' /\ \A q \in Peers : given[q] \subseteq given'[q]
    BY RemoveKeeps DEF RemovePeer
  <1>2. UNCHANGED <<key, book, copies, ended, outdated, at, loc>> /\ calls < MaxCalls /\ calls' = calls + 1
    BY DEF RemovePeer, Call
  <1>3. Goto(t, "idle", loc[t])
    BY <1>2 DEF RemovePeer, Call, Goto, IInv
  <1>4. Stores' /\ Holds("idle", loc[t], given')
    BY <1>2, <1>3, StoresKept DEF Holds
  <1> QED
    BY <1>1, <1>2, <1>3, <1>4, ThreadStep DEF Places

(* A store begins: what was stored before is emptied, and outdated.        *)
LEMMA BookCreateStep ==
  ASSUME PeersAssumption, IInv, NEW t \in Threads, BookCreate(t)
  PROVE  IInv'
  <1>1. PICK c : c = IF book # 0 THEN book ELSE calls + 1
    OBVIOUS
  <1>2. PICK n : n = [Idle EXCEPT !.by = calls + 1, !.copy = c]
    OBVIOUS
  <1>3. /\ book' = c /\ copies' = [copies EXCEPT ![c] = Torn]
        /\ outdated' = outdated \cup ended /\ ended' = ended /\ Goto(t, "write", n)
        /\ UNCHANGED <<file, key, given>>
    BY <1>1, <1>2 DEF BookCreate, Emptied
  <1>4. calls \in 0 .. MaxCalls /\ calls < MaxCalls /\ calls' = calls + 1 /\ MaxCalls \in Nat
    BY DEF BookCreate, Call, IInv, Stores, PeersAssumption
  <1>5. /\ c \in Copies /\ n.by = calls + 1 /\ calls' \in 0 .. MaxCalls /\ Calls \subseteq Calls'
        /\ calls + 1 \in Calls' /\ calls + 1 \notin Calls /\ 0 \notin Calls
    BY <1>1, <1>2, <1>4, IdleIs DEF IInv, Stores, Copies, Calls
  <1>6. /\ at'[t] = "write" /\ loc'[t].by = calls + 1
        /\ \A u \in Threads \ {t} : at'[u] = at[u] /\ loc'[u] = loc[u]
    BY <1>3, <1>5 DEF Goto, IInv
  <1>7. Stores'
    <2>1. copies'[book'].by = 0 /\ copies' = [i \in Copies |-> copies'[i]]
      BY <1>3, <1>5 DEF IInv, Stores, Torn
    <2>2. outdated' = ended /\ ended' \subseteq Calls
      BY <1>3 DEF IInv, Stores
    <2>3. \A u \in Threads : at'[u] = "write" => loc'[u].by \in Calls' \ ended'
      BY <1>3, <1>5, <1>6 DEF IInv, Stores
    <2>4. \A u, w \in Threads : at'[u] = "write" /\ at'[w] = "write" /\ loc'[u].by = loc'[w].by => u = w
      BY <1>5, <1>6 DEF IInv, Stores
    <2> QED
      BY <1>3, <1>5, <2>1, <2>2, <2>3, <2>4 DEF Stores
  <1>8. Holds("write", n, given)
    BY DEF Holds
  <1> QED
    BY <1>3, <1>7, <1>8, OnlyThread DEF Places

(* A store ends: it was not outdated before, and is not by this.           *)
LEMMA BookWriteStep ==
  ASSUME PeersAssumption, IInv, NEW t \in Threads, BookWrite(t)
  PROVE  IInv'
  <1>1. /\ at[t] = "write" /\ Goto(t, "idle", Idle) /\ ended' = ended \cup {loc[t].by}
        /\ UNCHANGED <<file, book, key, given, outdated, calls>>
    BY DEF BookWrite
  <1>2. PICK c \in {[by |-> loc[t].by, key |-> key], Torn, copies[loc[t].copy]} :
          copies' = [copies EXCEPT ![loc[t].copy] = c]
    BY DEF BookWrite
  <1>7. c.by \in {loc[t].by, 0} \/ c = copies[loc[t].copy]
    BY DEF Torn
  <1>3. /\ at'[t] = "idle"
        /\ \A u \in Threads \ {t} : at'[u] = at[u] /\ loc'[u] = loc[u]
    BY <1>1 DEF Goto, IInv
  <1>4. loc[t].by \in Calls \ ended /\ outdated \subseteq ended /\ ended \subseteq Calls /\ 0 \notin Calls
    BY <1>1 DEF IInv, Stores, Calls
  <1>5. Stores'
    <2>1. book' # 0 => copies'[book'].by \notin outdated'
      BY <1>1, <1>2, <1>4, <1>7 DEF IInv, Stores
    <2>2. ASSUME NEW u \in Threads, at'[u] = "write" PROVE loc'[u].by \in Calls' \ ended'
      <3>1. u # t /\ at[u] = "write" /\ loc'[u] = loc[u] /\ Calls' = Calls
        BY <1>1, <1>3, <2>2 DEF Calls
      <3> QED
        BY <1>1, <3>1 DEF IInv, Stores
    <2>3. \A u, w \in Threads : at'[u] = "write" /\ at'[w] = "write" /\ loc'[u].by = loc'[w].by => u = w
      BY <1>3 DEF IInv, Stores
    <2>4. copies' = [i \in Copies |-> copies'[i]] /\ calls' \in 0 .. MaxCalls /\ book' \in Copies \cup {0}
      BY <1>1, <1>2 DEF IInv, Stores
    <2>5. outdated' \subseteq ended' /\ ended' \subseteq Calls'
      BY <1>1, <1>4 DEF Calls
    <2> QED
      BY <2>1, <2>2, <2>3, <2>4, <2>5 DEF Stores
  <1>6. Holds("idle", Idle, given)
    BY DEF Holds
  <1> QED
    BY <1>1, <1>5, <1>6, OnlyThread DEF Places

(* A load or a removal writes no book.                                     *)
LEMMA BookReadStep ==
  ASSUME PeersAssumption, IInv, NEW t \in Threads, BookLoad(t) \/ BookLoadRemoves(t) \/ BookRemove(t)
  PROVE  IInv'
  <1>1. /\ UNCHANGED <<file, copies, key, given, ended, outdated>> /\ book' \in {book, 0}
        /\ calls' = calls \/ (calls < MaxCalls /\ calls' = calls + 1)
    BY DEF BookLoad, BookLoadRemoves, BookRemove, Call
  <1>2. PICK where \in {"idle", "remove"} : \E what : Goto(t, where, what)
    <2>1. CASE UNCHANGED <<at, loc>> /\ at[t] = "idle"
      BY <2>1 DEF Goto, IInv
    <2>2. CASE Goto(t, "remove", Idle) \/ Goto(t, "idle", Idle)
      BY <2>2
    <2> QED
      BY <2>1, <2>2 DEF BookLoad, BookLoadRemoves, BookRemove, Call
  <1>3. PICK what : Goto(t, where, what)
    BY <1>2
  <1>4. Stores' /\ Holds(where, what, given)
    BY <1>1, <1>3, StoresKept DEF Holds
  <1> QED
    BY <1>1, <1>3, <1>4, OnlyThread DEF Places

(* The key of the machine matters to no invariant, and a start forgets     *)
(* what the threads held.                                                  *)
LEMMA OthersStep ==
  ASSUME IInv, LearnUid \/ Die
  PROVE  IInv'
  <1>1. UNCHANGED <<file, given, book, copies, ended, outdated, calls>> /\ key' \in Keys
    BY DEF LearnUid, Die, Moves, IInv
  <1>2. Files(file, given)'
    BY <1>1 DEF IInv, Files
  <1>3. CASE UNCHANGED <<at, loc>>
    BY <1>1, <1>2, <1>3 DEF IInv, Stores, Calls, Holds
  <1>4. CASE Die
    <2>1. at' = [t \in Threads |-> "idle"] /\ loc' = [t \in Threads |-> Idle]
      BY <1>4 DEF Die
    <2>2. Stores'
      BY <1>1, <2>1 DEF IInv, Stores, Calls
    <2> QED
      BY <1>1, <1>2, <2>1, <2>2 DEF IInv, Holds, Places
  <1> QED
    BY <1>3, <1>4 DEF LearnUid

LEMMA NextIInv == PeersAssumption /\ IInv /\ [Next]_vars => IInv'
  <1> SUFFICES ASSUME PeersAssumption, IInv, [Next]_vars PROVE IInv'
    OBVIOUS
  <1>1. CASE UNCHANGED vars
    <2>1. UNCHANGED <<key, calls, at, loc, file, given, book, copies, ended, outdated>>
      BY <1>1 DEF vars
    <2> QED
      BY <2>1 DEF IInv, Files, Stores, Calls, Holds
  <1>2. CASE LearnUid \/ Die
    BY <1>2, OthersStep
  <1>3. ASSUME NEW t \in Threads, Step(t) PROVE IInv'
    <2>1. ASSUME NEW p \in Peers, NEW b \in BOOLEAN, Load(t, p, b) PROVE IInv'
      BY <2>1, LoadStep
    <2>2. CASE LoadStores(t)
      BY <2>2, LoadStoresStep
    <2>3. CASE BatchEnds(t)
      BY <2>3, BatchEndsStep
    <2>4. CASE Look(t)
      <3>1. Goto(t, "idle", Idle) /\ UNCHANGED <<key, file, given, book, copies, ended, outdated, calls>>
        BY <2>4 DEF Look
      <3>2. Stores' /\ Holds("idle", Idle, given)
        BY <3>1, StoresKept DEF Holds
      <3> QED
        BY <3>1, <3>2, OnlyThread DEF Places
    <2>5. CASE Store(t)
      BY <2>5, StoreStep
    <2>6. ASSUME NEW s \in Secrets, StorePassword(t, s) PROVE IInv'
      BY <2>6, StorePasswordStep
    <2>7. ASSUME NEW p \in Peers, RemovePeer(t, p) PROVE IInv'
      BY <2>7, RemovePeerStep
    <2>8. CASE BookCreate(t)
      BY <2>8, BookCreateStep
    <2>9. CASE BookWrite(t)
      BY <2>9, BookWriteStep
    <2>10. CASE BookLoad(t) \/ BookLoadRemoves(t) \/ BookRemove(t)
      BY <2>10, BookReadStep
    <2> QED
      BY <1>3, <2>1, <2>2, <2>3, <2>4, <2>5, <2>6, <2>7, <2>8, <2>9, <2>10 DEF Step
  <1> QED
    BY <1>1, <1>2, <1>3 DEF Next

(* Whatever threads load, store, remove and rewrite, in whatever order and *)
(* under whatever keys, a PeerConfig holds a password its peer was given,  *)
(* sealed at most once, and an address book that was stored before the     *)
(* last store began does not come back.                                    *)
THEOREM GenuineFiles == PeersAssumption => (Spec => []FilesAreGenuine)
  <1> SUFFICES ASSUME PeersAssumption PROVE Spec => []FilesAreGenuine
    OBVIOUS
  <1>1. Init => IInv
    BY InitIInv
  <1>2. IInv /\ [Next]_vars => IInv'
    BY NextIInv
  <1>3. IInv => FilesAreGenuine
    BY DEF IInv, Files, Stores, Cfgs, Vals, FilesAreGenuine
  <1> QED
    BY <1>1, <1>2, <1>3, PTL DEF Spec

=============================================================================
