---------------------------- MODULE ConfigLists ----------------------------
(***************************************************************************)
(* The second configuration of a device (config.rs, struct Config2): its   *)
(* options, and the two lists it keeps sealed with a decoded copy beside   *)
(* it, the trusted devices (TRUSTED_DEVICES) and the paired viewers        *)
(* (PAIRED_VIEWERS).  A change of the permanent password clears the first, *)
(* a change of the pairing passphrase the second.                          *)
(*                                                                         *)
(* Threads of one process call the functions below; a call is one step for *)
(* every lock it takes.  Every change is stored to the file under the lock *)
(* of CONFIG2, and the file is a copy of it.                               *)
(***************************************************************************)
EXTENDS Integers, FiniteSets

CONSTANTS
  Threads,      \* threads that call Config
  Names,        \* devices and viewers
  Phrases,      \* pairing passphrases a user may choose
  Oversized,    \* those of more than ENCRYPT_MAX_LEN characters
  MaxItems,     \* entries of a list that fit into a megabyte
  MaxCalls      \* bound: calls started

Lists == {"devices", "viewers"}
Keys == {"phrase", "other"}
None == ""

VARIABLES
  opt,       \* CONFIG2: plain value of every option, None for no entry
  sealed,    \* CONFIG2: entries of every list, or that there is no list
  cache,     \* the decoded copies
  synced,    \* they are valid
  outdated,  \* names whose entries are too old
  gen,       \* history: times every list was cleared by a change
  at, loc,   \* where every thread is, and what it holds
  calls      \* calls so far

vars == <<opt, sealed, cache, synced, outdated, gen, at, loc, calls>>

NoList == [ok |-> FALSE, items |-> {}]
List(s) == [ok |-> TRUE, items |-> s]
Idle == [l |-> "viewers", items |-> {}, add |-> {}, drop |-> {}, new |-> [k \in Keys |-> None],
         changed |-> FALSE]

(* An entry carries the count of clearings it was written under.           *)
Entries(l) == {[name |-> n, gen |-> gen[l]] : n \in Names}

Init ==
  /\ opt \in [Keys -> {None, CHOOSE p \in Phrases : p \notin Oversized}]
  /\ gen = [l \in Lists |-> 0]
  /\ sealed \in [Lists -> {NoList, List({}), List({[name |-> CHOOSE n \in Names : TRUE, gen |-> 0]})}]
  /\ cache = [l \in Lists |-> {}]
  /\ synced = [l \in Lists |-> FALSE]
  /\ outdated = {}
  /\ at = [t \in Threads |-> "idle"]
  /\ loc = [t \in Threads |-> Idle]
  /\ calls = 0

Fresh(s) == {e \in s : e.name \notin outdated}
Call(t) == at[t] = "idle" /\ calls < MaxCalls /\ calls' = calls + 1
Goto(t, where, what) == at' = [at EXCEPT ![t] = where] /\ loc' = [loc EXCEPT ![t] = what]
Return(t) == Goto(t, "idle", Idle)

-----------------------------------------------------------------------------
(* set_trusted_devices and set_paired_viewers, under both locks: a list    *)
(* that is too large is not written.                                       *)
SetList(l, s) ==
  IF Cardinality(Fresh(s)) > MaxItems
  THEN UNCHANGED <<sealed, cache, synced>>
  ELSE /\ sealed' = [sealed EXCEPT ![l] = List(Fresh(s))]
       /\ cache' = [cache EXCEPT ![l] = Fresh(s)]
       /\ synced' = [synced EXCEPT ![l] = TRUE]

(* get_trusted_devices and get_paired_viewers: the decoded copy, or, with  *)
(* its lock released, the sealed list; only a list that was decoded fills  *)
(* the copy, after outdated entries were dropped from the sealed one.      *)
ListRead(l) == IF synced[l] THEN cache[l] ELSE {}

GetReads(t, l, add, drop) ==
  /\ Call(t)
  /\ Goto(t, IF synced[l] THEN "have" ELSE "decode",
          [Idle EXCEPT !.l = l, !.items = ListRead(l), !.add = add, !.drop = drop])
  /\ UNCHANGED <<opt, sealed, cache, synced, outdated, gen>>

GetDecodes(t) ==
  LET r == loc[t] IN
  /\ at[t] = "decode"
  /\ Goto(t, IF ~sealed[r.l].ok THEN "have"
             ELSE IF Fresh(sealed[r.l].items) # sealed[r.l].items THEN "prune" ELSE "fill",
          [r EXCEPT !.items = IF sealed[r.l].ok THEN Fresh(sealed[r.l].items) ELSE {}])
  /\ UNCHANGED <<opt, sealed, cache, synced, outdated, gen, calls>>

GetPrunes(t) ==
  /\ at[t] = "prune"
  /\ SetList(loc[t].l, loc[t].items)
  /\ Goto(t, "fill", loc[t])
  /\ UNCHANGED <<opt, outdated, gen, calls>>

GetFills(t) ==
  /\ at[t] = "fill"
  /\ cache' = [cache EXCEPT ![loc[t].l] = loc[t].items]
  /\ synced' = [synced EXCEPT ![loc[t].l] = TRUE]
  /\ Goto(t, "have", loc[t])
  /\ UNCHANGED <<opt, sealed, outdated, gen, calls>>

(* add_trusted_device, remove_trusted_devices and the like: the list that  *)
(* was got, less the named entries and with the new one, is set.  A call   *)
(* that only asks returns here.                                            *)
Change(t) ==
  LET r == loc[t] IN
  /\ at[t] = "have"
  /\ \/ r.add \cup r.drop = {} /\ UNCHANGED <<sealed, cache, synced>>
     \/ /\ r.add \cup r.drop # {}
        /\ SetList(r.l, {e \in r.items : e.name \notin r.add \cup r.drop} \cup
                        {e \in Entries(r.l) : e.name \in r.add})
  /\ Return(t)
  /\ UNCHANGED <<opt, outdated, gen, calls>>

GetTrustedDevices(t) == GetReads(t, "devices", {}, {})
AddTrustedDevice(t, n) == GetReads(t, "devices", {n}, {})
RemoveTrustedDevices(t, s) == GetReads(t, "devices", {}, s)
HasPairedViewer(t) == GetReads(t, "viewers", {}, {})
AddPairedViewer(t, n) == GetReads(t, "viewers", {n}, {})
RemovePairedViewers(t, s) == GetReads(t, "viewers", {}, s)

(* clear_trusted_devices, which a change of the permanent password calls.  *)
ClearTrustedDevices(t) ==
  /\ Call(t)
  /\ SetList("devices", {})
  /\ gen' = [gen EXCEPT !["devices"] = @ + 1]
  /\ UNCHANGED <<opt, outdated, at, loc>>

-----------------------------------------------------------------------------
(* The options.  No option is overwritten or has a default here, so that   *)
(* is_option_can_save holds.                                               *)
ClearViewers ==
  /\ sealed' = [sealed EXCEPT !["viewers"] = NoList]
  /\ cache' = [cache EXCEPT !["viewers"] = {}]
  /\ synced' = [synced EXCEPT !["viewers"] = TRUE]
  /\ gen' = [gen EXCEPT !["viewers"] = @ + 1]

Rejected(k, v) == k = "phrase" /\ v \in Oversized

(* set_option: nothing happens when the plain value is the stored one or   *)
(* cannot be sealed.                                                       *)
SetOption(t, k, v) ==
  /\ Call(t)
  /\ IF v = opt[k] \/ Rejected(k, v) THEN UNCHANGED <<opt, sealed, cache, synced, gen>>
     ELSE /\ opt' = [opt EXCEPT ![k] = v]
          /\ IF k = "phrase" THEN ClearViewers ELSE UNCHANGED <<sealed, cache, synced, gen>>
  /\ UNCHANGED <<outdated, at, loc>>

(* set_options: all options at once, prepared against a copy of the old    *)
(* ones taken before CONFIG2 is locked for writing.                        *)
SetOptionsReads(t, v) ==
  LET kept == [k \in Keys |-> IF Rejected(k, v[k]) THEN opt[k] ELSE v[k]] IN
  /\ Call(t)
  /\ Goto(t, "options", [Idle EXCEPT !.new = kept, !.changed = kept["phrase"] # opt["phrase"]])
  /\ UNCHANGED <<opt, sealed, cache, synced, outdated, gen>>

SetOptionsWrites(t) ==
  /\ at[t] = "options"
  /\ opt' = loc[t].new
  /\ IF opt' # opt /\ loc[t].changed THEN ClearViewers ELSE UNCHANGED <<sealed, cache, synced, gen>>
  /\ Return(t)
  /\ UNCHANGED <<outdated, calls>>

(* Time passes for an entry.                                               *)
Outdate(n) ==
  /\ n \notin outdated
  /\ outdated' = outdated \cup {n}
  /\ UNCHANGED <<opt, sealed, cache, synced, gen, at, loc, calls>>

Step(t) ==
  \/ GetTrustedDevices(t) \/ HasPairedViewer(t) \/ ClearTrustedDevices(t)
  \/ \E n \in Names : AddTrustedDevice(t, n) \/ AddPairedViewer(t, n)
  \/ \E n \in Names : RemoveTrustedDevices(t, {n}) \/ RemovePairedViewers(t, {n})
  \/ GetDecodes(t) \/ GetPrunes(t) \/ GetFills(t) \/ Change(t)
  \/ \E k \in Keys, v \in Phrases \cup {None} : SetOption(t, k, v)
  \/ \E v \in [Keys -> Phrases \cup {None}] : SetOptionsReads(t, v)
  \/ SetOptionsWrites(t)

Next == (\E n \in Names : Outdate(n)) \/ \E t \in Threads : Step(t)

Spec == Init /\ [][Next]_vars

(* What a change of the pairing passphrase cleared stays cleared: no       *)
(* viewer that was paired before it is on the list after it, as            *)
(* test_changing_direct_pairing_passphrase_clears_paired_viewers expects   *)
(* of set_option.  (get_paired_viewers may have decoded the old list       *)
(* before the change and write it to PAIRED_VIEWERS after it.)             *)
ClearedViewersStayCleared ==
  synced["viewers"] => \A e \in cache["viewers"] : e.gen = gen["viewers"]
=============================================================================
