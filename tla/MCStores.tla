------------------------------ MODULE MCStores ------------------------------
(***************************************************************************)
(* Small instances, for TLC, of what a device keeps on disk.  The stores   *)
(* use different files and locks and do not touch each other: a behaviour  *)
(* is about one of them, `lane` says which, and v1 to v14 are the          *)
(* variables of its module.  Threads and processes are interchangeable,    *)
(* and so are the keys of two machines.                                    *)
(***************************************************************************)
EXTENDS Integers, TLC

CONSTANTS
  t1, t2,        \* two threads of a process, or two processes
  home, away     \* the keys of two machines

Symmetry == Permutations({t1, t2}) \cup Permutations({home, away})

VARIABLES lane, v1, v2, v3, v4, v5, v6, v7, v8, v9, v10, v11, v12, v13, v14

vars == <<lane, v1, v2, v3, v4, v5, v6, v7, v8, v9, v10, v11, v12, v13, v14>>

Identity == INSTANCE ConfigIdentity WITH
  Threads <- {t1, t2}, Passwords <- {"p1", "p2"}, Salts <- {"s1", "s2"},
  MaxKeys <- 3, MaxCalls <- 4, MaxDeaths <- 1,
  file <- v1, mem <- v2, loaded <- v3, cache <- v4, at <- v5, loc <- v6, dirty <- v7, keys <- v8,
  calls <- v9, deaths <- v10, truth <- v11, handed <- v12, torn <- v13, behind <- v14

Tls == INSTANCE TlsIdentity WITH
  Callers <- {1}, MaxCalls <- 4, MaxDeaths <- 3,
  file <- v1, tmp <- v2, at <- v3, held <- v4, pairs <- v5, calls <- v6, deaths <- v7, lost <- v9,
  returned <- v8, blind <- v10

(* Three ids of two devices, so that some are aliases.                     *)
Trust == INSTANCE PeerStore WITH
  Peers <- {"p1", "p2", "p3"}, Identities <- {"k1", "k2"}, MaxCalls <- 5,
  rec <- v1, tmp <- v2, at <- v3, who <- v4, key <- v5, todo <- v6, calls <- v7, doomed <- v8, gone <- v9

Peers == INSTANCE PeerConfigs WITH
  Threads <- {t1, t2}, Peers <- {"p", "a:b?"}, Hidden <- {"a:b?"}, Secrets <- {"s", "00like", "long"},
  Lookalikes <- {"00like"}, Oversized <- {"long"}, Keys <- {home, away, "pk"}, Pk <- "pk",
  MaxCalls <- 3, MaxMoves <- 1,
  file <- v1, book <- v2, copies <- v3, key <- v4, given <- v5, ended <- v6, at <- v7, loc <- v8,
  calls <- v9, moves <- v10, outdated <- v11

(* One option that the user cannot change, and the language, which has a   *)
(* default and is read as it is.                                           *)
Settings == INSTANCE LocalSettings WITH
  Processes <- {t1, t2}, Options <- {"locked", "lang"}, Language <- "lang", Values <- {"", "a", "b", "default"},
  Overwrite <- [k \in {"locked", "lang"} |-> IF k = "locked" THEN "a" ELSE "-"],
  Default <- [k \in {"locked", "lang"} |-> IF k = "lang" THEN "b" ELSE "-"],
  Free <- {"lang"}, Accepted <- {"b"}, Fallback <- "f", Interval <- 1, MaxTime <- 2, MaxCalls <- 3,
  local <- v1, copy <- v2, localFile <- v3, userFile <- v4, last <- v5, recent <- v6, read <- v7,
  now <- v8, calls <- v9, draft <- v10, stale <- v11, lost <- v12

ASSUME Identity!IdentityAssumption /\ Peers!PeersAssumption /\ Settings!SettingsAssumption

(* Variables that the lane does not use.                                   *)
Off == 0
From10 == v10 = Off /\ v11 = Off /\ v12 = Off /\ v13 = Off /\ v14 = Off
From11 == v11 = Off /\ v12 = Off /\ v13 = Off /\ v14 = Off
From12 == v12 = Off /\ v13 = Off /\ v14 = Off

Init ==
  \/ lane = "identity" /\ Identity!Init
  \/ lane = "tls" /\ Tls!Init /\ From11
  \/ lane = "trust" /\ Trust!Init /\ From10
  \/ lane = "peers" /\ Peers!Init /\ From12
  \/ lane = "settings" /\ Settings!Init /\ v13 = Off /\ v14 = Off

Next ==
  /\ UNCHANGED lane
  /\ \/ lane = "identity" /\ Identity!Next
     \/ lane = "tls" /\ Tls!Next /\ UNCHANGED <<v11, v12, v13, v14>>
     \/ lane = "trust" /\ Trust!Next /\ UNCHANGED <<v10, v11, v12, v13, v14>>
     \/ lane = "peers" /\ Peers!Next /\ UNCHANGED <<v12, v13, v14>>
     \/ lane = "settings" /\ Settings!Next /\ UNCHANGED <<v13, v14>>

Spec == Init /\ [][Next]_vars

(* Config keeps to the password the user set last.                         *)
PasswordVerifies == lane = "identity" => Identity!PasswordVerifies

(* Callers of get_key_pair hold one key pair.                              *)
KeyPairIsStable == lane = "identity" => Identity!KeyPairIsStable

(* load_or_create keeps one TLS identity.                                  *)
IdentityIsKept == lane = "tls" => Tls!IdentityIsKept

(* remove_peer_and_aliases leaves no id of the device.                     *)
UnpairedMeansGone == lane = "trust" => Trust!UnpairedMeansGone

(* A PeerConfig holds what was given, and no old address book comes back.  *)
FilesAreGenuine == lane = "peers" => Peers!FilesAreGenuine

(* get_option returns the last choice, read a value of the last interval.  *)
SettingsAreCurrent == lane = "settings" => Settings!SettingsAreCurrent
=============================================================================
