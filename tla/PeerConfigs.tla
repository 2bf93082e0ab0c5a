---------------------------- MODULE PeerConfigs ----------------------------
(***************************************************************************)
(* The files a device keeps about its peers (config.rs): one PeerConfig    *)
(* for every peer, with secrets that are sealed under the key of the       *)
(* machine, and the address book (Ab; the file of Group is written and     *)
(* read by the same code), sealed as a whole.                              *)
(*                                                                         *)
(* A PeerConfig is replaced atomically under a shared lock; the book is    *)
(* truncated and rewritten in place under none, so that a reader, another  *)
(* writer or the death of the program may come between the two; and a load *)
(* that cannot open the book removes its file, whatever is there by then.  *)
(***************************************************************************)
EXTENDS Integers

CONSTANTS
  Threads,     \* threads that use the files
  Peers,       \* ids of peers
  Hidden,      \* those whose file name, encoded, holds a slash
  Secrets,     \* passwords a user may give, none of them empty
  Lookalikes,  \* those that look sealed: "00" and a base64 of 16 bytes or more
  Oversized,   \* those of more than ENCRYPT_MAX_LEN bytes
  Keys,        \* keys of machines, and the device's public key
  Pk,          \* the public key of the device
  MaxCalls,    \* bound: calls of the threads
  MaxMoves     \* bound: changes of the machine's key

VARIABLES
  file,        \* PeerConfig on disk of every peer, or None
  book,        \* the address book's file: a copy number, 0 for no file
  copies,      \* what every copy of it holds: which store wrote it, under which key
  key,         \* get_uuid of the process: the machine's id, or Pk while it cannot be had
  given,       \* history: passwords every peer was given
  ended,       \* history: stores of the book that ended
  outdated,    \* history: stores that had ended when another one began
  at, loc,     \* where every thread is, and what it holds
  calls, moves

vars == <<file, book, copies, key, given, ended, outdated, at, loc, calls, moves>>

Empty == ""

(* A value as it is kept: plain text, or text sealed some times under a    *)
(* key.                                                                    *)
Plain(text) == [text |-> text, seals |-> 0, key |-> Pk]
Config(secret, known) == [exists |-> TRUE, secret |-> secret, platform |-> known]
None == [exists |-> FALSE, secret |-> Plain(Empty), platform |-> FALSE]
Torn == [by |-> 0, key |-> Pk]
Idle == [id |-> CHOOSE p \in Peers : TRUE, cfg |-> None, batch |-> FALSE, by |-> 0, copy |-> 0]
Copies == 1 .. MaxCalls

(* There are as many copies of the book as there may be calls.             *)
PeersAssumption == MaxCalls \in Nat /\ Pk \in Keys

(* A password that is too long to seal is stored as an empty one.          *)
Kept(text) == IF text \in Oversized \ Lookalikes THEN Empty ELSE text

Init ==
  /\ key \in Keys
  /\ file \in [Peers -> {None} \cup {Config(Plain(s), b) : s \in Secrets \cup {Empty}, b \in BOOLEAN}]
  /\ book = 0
  /\ copies = [c \in Copies |-> Torn]
  /\ given = [p \in Peers |-> {file[p].secret.text, Kept(file[p].secret.text)}]
  /\ ended = {} /\ outdated = {}
  /\ at = [t \in Threads |-> "idle"]
  /\ loc = [t \in Threads |-> Idle]
  /\ calls = 0 /\ moves = 0

Goto(t, where, what) == at' = [at EXCEPT ![t] = where] /\ loc' = [loc EXCEPT ![t] = what]
Call(t) == at[t] = "idle" /\ calls < MaxCalls /\ calls' = calls + 1

-----------------------------------------------------------------------------
(* encrypt_vec_or_original and decrypt_vec_or_original: a value that looks *)
(* sealed is not sealed again, and one that does not open is returned as   *)
(* it is; the second says whether the file should be stored anew.          *)
LooksSealed(v) == v.seals > 0 \/ v.text \in Lookalikes

MutEncrypt(v) ==
  IF v.text = Empty THEN v
  ELSE IF v.text \in Oversized THEN Plain(Empty)
  ELSE [v EXCEPT !.seals = @ + 1, !.key = key]

Encrypt(v) ==
  IF LooksSealed(v) \/ v.text = Empty THEN v
  ELSE IF v.text \in Oversized THEN Plain(Empty)
  ELSE [v EXCEPT !.seals = 1, !.key = key]

(* symmetric_crypt: what does not open under the machine's key is tried    *)
(* under the public key, which stands in for it at times.                  *)
OpensUnder(k) == k \in {key, Pk}
Opens(v) == v.seals > 0 /\ OpensUnder(v.key)
Decrypt(v) == IF Opens(v) THEN [v EXCEPT !.seals = @ - 1] ELSE v
Upgrade(v) == ~Opens(v) /\ v.text # Empty /\ ~LooksSealed(v)

(* store_result_: the file is replaced as a whole.                         *)
Write(p, cfg) == file' = [file EXCEPT ![p] = Config(Encrypt(cfg.secret), cfg.platform)]

(* With its file, a peer loses its password.                               *)
RemoveFile(p) ==
  /\ file' = [file EXCEPT ![p] = None]
  /\ given' = [given EXCEPT ![p] = @ \cup {Empty}]

(* get_vec_id_modified_time_path lists the files of one directory; a name  *)
(* with a slash is a file of another one.                                  *)
Listed(p) == file[p].exists /\ p \notin Hidden

(* PeerConfig::load: a file that is missing gives the default, and one     *)
(* that holds a plain secret is stored again.  batch_peers loads every     *)
(* file it listed.                                                         *)
Load(t, p, batch) ==
  /\ Call(t)
  /\ batch => Listed(p)
  /\ Goto(t, IF Upgrade(file[p].secret) THEN "upgrade" ELSE "have",
          [Idle EXCEPT !.id = p, !.cfg = [file[p] EXCEPT !.secret = Decrypt(@)], !.batch = batch])
  /\ UNCHANGED <<file, book, copies, key, given, ended, outdated, moves>>

LoadStores(t) ==
  /\ at[t] = "upgrade"
  /\ Write(loc[t].id, loc[t].cfg)
  /\ Goto(t, "have", loc[t])
  /\ UNCHANGED <<book, copies, key, given, ended, outdated, calls, moves>>

(* batch_peers removes the file of a peer it knows no platform of.         *)
BatchEnds(t) ==
  /\ at[t] = "have" /\ loc[t].batch
  /\ IF loc[t].cfg.platform THEN UNCHANGED <<file, given>> ELSE RemoveFile(loc[t].id)
  /\ Goto(t, "idle", Idle)
  /\ UNCHANGED <<book, copies, key, ended, outdated, calls, moves>>

(* A program stores what it loaded, with another password or the same, or  *)
(* only looks.                                                             *)
StoreCalled(t, secret) ==
  /\ at[t] = "have" /\ ~loc[t].batch
  /\ Write(loc[t].id, [loc[t].cfg EXCEPT !.secret = secret, !.platform = TRUE])
  /\ Goto(t, "idle", Idle)
  /\ UNCHANGED <<book, copies, key, ended, outdated, calls, moves>>

Store(t) == StoreCalled(t, loc[t].cfg.secret) /\ UNCHANGED given

StorePassword(t, text) ==
  /\ StoreCalled(t, Plain(text))
  /\ given' = [given EXCEPT ![loc[t].id] = @ \cup {Kept(text)}]

Look(t) ==
  /\ at[t] = "have" /\ ~loc[t].batch
  /\ Goto(t, "idle", Idle)
  /\ UNCHANGED <<file, book, copies, key, given, ended, outdated, calls, moves>>

RemovePeer(t, p) ==
  /\ Call(t)
  /\ RemoveFile(p)
  /\ UNCHANGED <<book, copies, key, ended, outdated, at, loc, moves>>

-----------------------------------------------------------------------------
(* Ab::store: the file is created, or emptied where it is; then the sealed *)
(* book is written to the file that was opened, whoever has removed it or  *)
(* written to it since: over a longer one, or when it fails half-way, it   *)
(* leaves a file that does not open.  One that is too large leaves it      *)
(* empty.                                                                  *)
Emptied(c) == [copies EXCEPT ![c] = Torn]

BookCreate(t) ==
  LET c == IF book # 0 THEN book ELSE calls + 1 IN
  /\ Call(t)
  /\ book' = c
  /\ copies' = Emptied(c)
  /\ outdated' = outdated \cup ended
  /\ Goto(t, "write", [Idle EXCEPT !.by = calls + 1, !.copy = c])
  /\ UNCHANGED <<file, key, given, ended, moves>>

BookWrite(t) ==
  /\ at[t] = "write"
  /\ \E c \in {[by |-> loc[t].by, key |-> key], Torn, copies[loc[t].copy]} :
       copies' = [copies EXCEPT ![loc[t].copy] = c]
  /\ ended' = ended \cup {loc[t].by}
  /\ Goto(t, "idle", Idle)
  /\ UNCHANGED <<file, book, key, given, outdated, calls, moves>>

(* Ab::load: the book, if the file opens; if not, or if there is none, an  *)
(* empty book, and what has the file's name by then is removed.            *)
Genuine(c) == copies[c].by # 0 /\ OpensUnder(copies[c].key)

BookLoad(t) ==
  /\ Call(t)
  /\ IF book # 0 /\ Genuine(book) THEN UNCHANGED <<at, loc>> ELSE Goto(t, "remove", Idle)
  /\ UNCHANGED <<file, book, copies, key, given, ended, outdated, moves>>

BookLoadRemoves(t) ==
  /\ at[t] = "remove"
  /\ book' = 0
  /\ Goto(t, "idle", Idle)
  /\ UNCHANGED <<file, copies, key, given, ended, outdated, calls, moves>>

BookRemove(t) ==
  /\ Call(t)
  /\ book' = 0
  /\ UNCHANGED <<file, copies, key, given, ended, outdated, at, loc, moves>>

(* get_uuid: a process keeps the machine's id once it has it; as long as   *)
(* it has not, the public key stands in.                                   *)
Moves(k) == moves < MaxMoves /\ moves' = moves + 1 /\ k # key /\ key' = k

LearnUid ==
  /\ key = Pk
  /\ \E k \in Keys : Moves(k)
  /\ UNCHANGED <<file, book, copies, given, ended, outdated, at, loc, calls>>

(* The program dies and starts again, perhaps with another key: the id of  *)
(* the machine cannot be had, or the files were copied to another.         *)
Die ==
  /\ at' = [t \in Threads |-> "idle"] /\ loc' = [t \in Threads |-> Idle]
  /\ \/ at' # at /\ UNCHANGED <<key, moves>>
     \/ \E k \in Keys : Moves(k)
  /\ UNCHANGED <<file, book, copies, given, ended, outdated, calls>>

Step(t) ==
  \/ \E p \in Peers, b \in BOOLEAN : Load(t, p, b)
  \/ LoadStores(t) \/ BatchEnds(t) \/ Look(t)
  \/ Store(t) \/ \E s \in Secrets : StorePassword(t, s)
  \/ \E p \in Peers : RemovePeer(t, p)
  \/ BookCreate(t) \/ BookWrite(t)
  \/ BookLoad(t) \/ BookLoadRemoves(t) \/ BookRemove(t)

Next == (\E t \in Threads : Step(t)) \/ LearnUid \/ Die

Spec == Init /\ [][Next]_vars

-----------------------------------------------------------------------------
(* What is read is what was written: a file holds, sealed at most once, a  *)
(* password its peer was given, whatever keys it was loaded and stored     *)
(* under (an empty one stands for a file that was missing, and for a       *)
(* password too long to seal).  And the address book is not one that was   *)
(* stored before the last store began, however stores overlap, fail half-  *)
(* way and write to a file that a load removed; that there may be none is  *)
(* another matter: a store that is not alone may lose the book.            *)
FilesAreGenuine ==
  /\ \A p \in Peers : file[p].exists =>
       file[p].secret.seals <= 1 /\ file[p].secret.text \in given[p]
  /\ book # 0 => copies[book].by \notin outdated
=============================================================================
