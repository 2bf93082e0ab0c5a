----------------------------- MODULE PeerStore -----------------------------
(***************************************************************************)
(* The store of trusted peers (transport/pairing.rs): one file per peer id *)
(* with the identity (key and certificate) that a user confirmed.  The     *)
(* same device may be paired under several ids, its aliases, and is        *)
(* unpaired with all of them.  A call is one step per operation on the     *)
(* file system; an operation may fail, which ends the call with an error,  *)
(* and the process may die between two of them.                            *)
(***************************************************************************)
EXTENDS Integers, FiniteSets, Sequences, SequencesExt

CONSTANTS
  Peers,         \* peer ids
  Identities,    \* identities of devices
  MaxCalls       \* bound: calls started

None == "none"
Torn == "torn"    \* a temporary file not wholly written

VARIABLES
  rec,       \* the record of every peer id
  tmp,       \* the temporary file of every record, named after the process
  at,        \* what the call in progress does next
  who,       \* the peer it is about
  key,       \* the identity it is about
  todo,      \* remove_peer_and_aliases: ids still to remove
  calls,
  doomed,    \* history: the identity each id had when its unpairing began, until
             \* its record is replaced or removed otherwise
  gone       \* history: that identity, once the unpairing succeeded

vars == <<rec, tmp, at, who, key, todo, calls, doomed, gone>>

Nowhere == [p \in Peers |-> None]

(* Some peers may have been paired before.                                 *)
Init ==
  /\ rec \in [Peers -> Identities \cup {None}] /\ tmp = Nowhere
  /\ at = "idle" /\ who = (CHOOSE p \in Peers : TRUE) /\ key = None /\ todo = <<>>
  /\ calls = 0
  /\ doomed = Nowhere /\ gone = Nowhere

(* A call begins.                                                          *)
Call(what, p, k) ==
  /\ at = "idle" /\ calls < MaxCalls
  /\ calls' = calls + 1
  /\ at' = what /\ who' = p /\ key' = k
  /\ UNCHANGED <<rec, tmp, todo, doomed, gone>>

Return == at' = "idle" /\ UNCHANGED <<who, key, calls>>

(* PairingCandidate::confirm: only the fingerprint that is shown makes a   *)
(* record, which is then inserted.                                         *)
Pair(p, k, shown) == shown = k /\ Call("insert", p, k)
Replace(p, k) == Call("create", p, k)
Unpair(p) == Call("load", p, None)
RemovePeer(p) == Call("remove", p, None)

(* insert does not overwrite a record.                                     *)
InsertTests ==
  /\ at = "insert"
  /\ at' = IF rec[who] = None THEN "create" ELSE "idle"
  /\ UNCHANGED <<rec, tmp, who, key, todo, calls, doomed, gone>>

(* write_record: the temporary file is new, or the call fails.             *)
CreateTemporary ==
  /\ at = "create"
  /\ \/ tmp[who] = None /\ tmp' = [tmp EXCEPT ![who] = Torn] /\ at' \in {"write", "idle"}
     \/ tmp' = tmp /\ at' = "idle"
  /\ UNCHANGED <<rec, who, key, todo, calls, doomed, gone>>

WriteTemporary ==
  /\ at = "write"
  /\ \/ tmp' = [tmp EXCEPT ![who] = key] /\ at' = "rename"
     \/ tmp' = [tmp EXCEPT ![who] = None] /\ at' = "idle"
  /\ UNCHANGED <<rec, who, key, todo, calls, doomed, gone>>

RenameTemporary ==
  /\ at = "rename"
  /\ \/ /\ rec' = [rec EXCEPT ![who] = tmp[who]]
        /\ doomed' = [p \in Peers |-> IF p = who \/ doomed[p] = key THEN None ELSE doomed[p]]
        /\ gone' = [p \in Peers |-> IF gone[p] = key THEN None ELSE gone[p]]
     \/ UNCHANGED <<rec, doomed, gone>>
  /\ tmp' = [tmp EXCEPT ![who] = None]
  /\ Return
  /\ UNCHANGED todo

(* remove, as a call of its own: unpairing that id is not begun any more.  *)
RemoveAlone ==
  /\ at = "remove"
  /\ \/ rec' = [rec EXCEPT ![who] = None] /\ doomed' = [doomed EXCEPT ![who] = None]
     \/ UNCHANGED <<rec, doomed>>
  /\ Return
  /\ UNCHANGED <<tmp, todo, gone>>

-----------------------------------------------------------------------------
(* remove_peer_and_aliases: there is nothing to do without a record.       *)
LoadTarget ==
  /\ at = "load"
  /\ \/ Return /\ UNCHANGED <<doomed, gone>>
     \/ /\ rec[who] = None
        /\ gone' = [gone EXCEPT ![who] = doomed[who]]
        /\ Return /\ UNCHANGED doomed
     \/ /\ rec[who] # None
        /\ at' = "load all" /\ key' = rec[who]
        /\ doomed' = [doomed EXCEPT ![who] = rec[who]]
        /\ UNCHANGED <<who, calls, gone>>
  /\ UNCHANGED <<rec, tmp, todo>>

MutLoadAll ==
  /\ at = "load all"
  /\ \/ todo' \in SetToSeqs({p \in Peers : rec[p] = key}) /\ at' = "remove next"
     \/ todo' = todo /\ at' = "idle"
  /\ UNCHANGED <<rec, tmp, who, key, calls, doomed, gone>>

(* load_all and the order of removal: the named peer comes last.           *)
LoadAll ==
  /\ at = "load all"
  /\ \/ /\ \E aliases \in SetToSeqs({p \in Peers : rec[p] = key} \ {who}) :
             todo' = Append(aliases, who)
        /\ at' = "remove next"
     \/ todo' = todo /\ at' = "idle"
  /\ UNCHANGED <<rec, tmp, who, key, calls, doomed, gone>>

RemoveNext ==
  /\ at = "remove next"
  /\ \/ /\ todo # <<>>
        /\ rec' = [rec EXCEPT ![Head(todo)] = None]
        /\ todo' = Tail(todo)
        /\ doomed' = IF Head(todo) = who THEN doomed ELSE [doomed EXCEPT ![Head(todo)] = None]
        /\ UNCHANGED <<at, who, key, calls, gone>>
     \/ todo = <<>> /\ gone' = [gone EXCEPT ![who] = doomed[who]] /\ Return /\ UNCHANGED <<rec, todo, doomed>>
     \/ Return /\ todo' = <<>> /\ UNCHANGED <<rec, gone, doomed>>
  /\ UNCHANGED tmp

(* The process dies; the next one has another id, or by chance the same.   *)
Die ==
  /\ at # "idle"
  /\ at' = "idle" /\ todo' = <<>>
  /\ tmp' \in {tmp, Nowhere}
  /\ UNCHANGED <<rec, who, key, calls, doomed, gone>>

Next ==
  \/ \E p \in Peers, k, shown \in Identities : Pair(p, k, shown)
  \/ \E p \in Peers, k \in Identities : Replace(p, k)
  \/ \E p \in Peers : Unpair(p) \/ RemovePeer(p)
  \/ InsertTests \/ CreateTemporary \/ WriteTemporary \/ RenameTemporary
  \/ RemoveAlone \/ LoadTarget \/ LoadAll \/ RemoveNext \/ Die

Spec == Init /\ [][Next]_vars

(* Once remove_peer_and_aliases has returned Ok for a peer, no id of the   *)
(* device it was is left in the store, though earlier attempts may have    *)
(* failed or died halfway: an attempt that stops keeps the named record,   *)
(* and the next one finds the remaining aliases through it.  No record is  *)
(* ever half written.                                                      *)
UnpairedMeansGone ==
  \A p, q \in Peers : rec[q] # Torn /\ (gone[p] # None => rec[q] # gone[p])
=============================================================================
