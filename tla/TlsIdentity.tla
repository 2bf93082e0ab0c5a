---------------------------- MODULE TlsIdentity ----------------------------
(***************************************************************************)
(* The TLS identity of a device (transport/identity.rs): a private key and *)
(* a self-signed certificate in two files, made by the first call of       *)
(* load_or_create and read by the later ones.  A call is one step per      *)
(* operation on the file system, any of which may fail; the process may    *)
(* die between two of them, and a file that is being written then stays    *)
(* behind under its temporary name.  Something outside the program may     *)
(* remove one of the two files, at any time.                               *)
(***************************************************************************)
EXTENDS Integers

CONSTANTS
  Callers,      \* threads that call load_or_create
  MaxCalls,     \* bound: calls started
  MaxDeaths     \* bound: deaths of the process

None == 0
Torn == -1      \* a file not wholly written

Files == {"key", "cert"}

VARIABLES
  file, tmp,      \* the pair whose half each file and each temporary file holds
  at,             \* where every caller is: what it does to which file
  held,           \* the pair every caller made, or read the certificate of
  pairs,          \* key pairs generated so far
  calls, deaths,
  lost,           \* a file was removed from outside
  blind,          \* history: a call took a file that was there for absent
                  \* and generated a new pair
  returned        \* history: identities callers got, as <<key, certificate>>

vars == <<file, tmp, at, held, pairs, calls, deaths, lost, blind, returned>>

Idle == <<"idle", "key">>

(* There is no identity yet, or the one that an earlier process made.      *)
Init ==
  /\ pairs \in {0, 1}
  /\ file = [f \in Files |-> pairs] /\ tmp = [f \in Files |-> None]
  /\ returned = {<<p, p>> : p \in 1 .. pairs}
  /\ at = [c \in Callers |-> Idle]
  /\ held = [c \in Callers |-> None]
  /\ calls = 0 /\ deaths = 0
  /\ lost = FALSE /\ blind = FALSE

Goto(c, what, f) == at' = [at EXCEPT ![c] = <<what, f>>]
Return(c) == at' = [at EXCEPT ![c] = Idle]

(* load_or_create: does the certificate exist, does the key?  Path::exists *)
(* says so of no file that is absent, and when its look fails it says of a *)
(* file that is there that it is not.                                      *)
Start(c) ==
  /\ at[c] = Idle /\ calls < MaxCalls
  /\ calls' = calls + 1
  /\ \/ file["cert"] = None /\ Goto(c, "no cert", "key")
     \/ file["cert"] # None /\ (Goto(c, "cert", "key") \/ Goto(c, "cert unseen", "key"))
  /\ UNCHANGED <<file, tmp, held, pairs, deaths, lost, blind, returned>>

Generates(c) ==
  /\ pairs' = pairs + 1
  /\ held' = [held EXCEPT ![c] = pairs']
  /\ Goto(c, "create", "key")
  /\ blind' = (blind \/ at[c][1] = "cert unseen" \/ file["key"] # None)

Keeps == UNCHANGED <<held, pairs, blind>>

MutDecide(c) ==
  /\ at[c][1] \in {"no cert", "cert", "cert unseen"}
  /\ IF at[c][1] = "cert" /\ file["key"] # None THEN Goto(c, "load", "cert") /\ Keeps
     ELSE /\ pairs' = pairs + 1
          /\ held' = [held EXCEPT ![c] = pairs']
          /\ Goto(c, "create", IF file["key"] = None THEN "key" ELSE "cert")
          /\ blind' = (blind \/ at[c][1] = "cert unseen")
  /\ UNCHANGED <<file, tmp, calls, deaths, lost, returned>>

(* Both are there: load.  Neither is: generate.  Otherwise an error.       *)
Decide(c) ==
  /\ at[c][1] \in {"no cert", "cert", "cert unseen"}
  /\ \/ at[c][1] = "cert" /\ file["key"] # None /\ Goto(c, "load", "cert") /\ Keeps
     \/ at[c][1] # "cert" /\ Generates(c)
     \/ (at[c][1] = "cert" \/ file["key"] # None) /\ Return(c) /\ Keeps
  /\ UNCHANGED <<file, tmp, calls, deaths, lost, returned>>

(* load: the certificate, then the key; an unreadable file is an error.    *)
Load(c) ==
  /\ at[c][1] = "load"
  /\ \/ Return(c) /\ UNCHANGED <<held, returned>>
     \/ /\ at[c][2] = "cert" /\ file["cert"] # None
        /\ held' = [held EXCEPT ![c] = file["cert"]]
        /\ Goto(c, "load", "key") /\ UNCHANGED returned
     \/ /\ at[c][2] = "key" /\ file["key"] # None
        /\ returned' = returned \cup {<<file["key"], held[c]>>}
        /\ Return(c) /\ UNCHANGED held
  /\ UNCHANGED <<file, tmp, pairs, calls, deaths, lost, blind>>

(* write_atomic failed: when it was the certificate, the key file goes.    *)
Failed(c, f) == IF f = "key" THEN Return(c) ELSE Goto(c, "undo", "key")

(* write_atomic: a new temporary file, its contents, and the rename.  A    *)
(* write or a rename that fails removes the temporary file; a failure to   *)
(* create it, or to restrict the mode of the key, leaves it.               *)
Create(c, f) ==
  /\ at[c] = <<"create", f>>
  /\ \/ tmp[f] = None /\ tmp' = [tmp EXCEPT ![f] = Torn] /\ Goto(c, "write", f)
     \/ tmp[f] = None /\ f = "key" /\ tmp' = [tmp EXCEPT ![f] = Torn] /\ Failed(c, f)
     \/ tmp' = tmp /\ Failed(c, f)
  /\ UNCHANGED <<file, held, pairs, calls, deaths, lost, blind, returned>>

Write(c, f) ==
  /\ at[c] = <<"write", f>>
  /\ \/ tmp' = [tmp EXCEPT ![f] = held[c]] /\ Goto(c, "rename", f)
     \/ tmp' = [tmp EXCEPT ![f] = None] /\ Failed(c, f)
  /\ UNCHANGED <<file, held, pairs, calls, deaths, lost, blind, returned>>

Rename(c, f) ==
  /\ at[c] = <<"rename", f>>
  /\ tmp' = [tmp EXCEPT ![f] = None]
  /\ \/ /\ file' = [file EXCEPT ![f] = tmp[f]]
        /\ IF f = "key" THEN Goto(c, "create", "cert") /\ UNCHANGED returned
           ELSE Return(c) /\ returned' = returned \cup {<<held[c], held[c]>>}
     \/ file' = file /\ Failed(c, f) /\ UNCHANGED returned
  /\ UNCHANGED <<held, pairs, calls, deaths, lost, blind>>

UndoKey(c) ==
  /\ at[c] = <<"undo", "key">>
  /\ \E left \in {None, file["key"]} : file' = [file EXCEPT !["key"] = left]
  /\ Return(c)
  /\ UNCHANGED <<tmp, held, pairs, calls, deaths, lost, blind, returned>>

(* The process dies; the next one has another id, so that the temporary    *)
(* names are free again, or by chance the same one.                        *)
Die ==
  /\ deaths < MaxDeaths
  /\ deaths' = deaths + 1
  /\ at' = [c \in Callers |-> Idle]
  /\ tmp' \in {tmp, [f \in Files |-> None]}
  /\ UNCHANGED <<file, held, pairs, calls, lost, blind, returned>>

(* One of the files disappears, both never do.                             *)
Lose(f) ==
  /\ ~lost /\ lost' = TRUE
  /\ file' = [file EXCEPT ![f] = None]
  /\ UNCHANGED <<tmp, at, held, pairs, calls, deaths, blind, returned>>

Next ==
  \/ Die
  \/ \E f \in Files : Lose(f)
  \/ \E c \in Callers : Start(c) \/ Decide(c) \/ Load(c) \/ UndoKey(c)
  \/ \E c \in Callers, f \in Files : Create(c, f) \/ Write(c, f) \/ Rename(c, f)

Spec == Init /\ [][Next]_vars

(* No silent key replacement (identity.rs: "refusing silent key            *)
(* replacement"): all identities that load_or_create ever returns are the  *)
(* same one, and its certificate is that of its key, across failures of    *)
(* the file system, deaths of the process at any point and the loss of one *)
(* of the two files, as long as no call generated a pair because a look at *)
(* an existing file failed.  The check of both files makes that one look   *)
(* harmless when the other file is seen.                                   *)
IdentityIsKept ==
  ~blind => /\ \A i \in returned : i[1] = i[2]
            /\ \A i, j \in returned : i = j
=============================================================================
