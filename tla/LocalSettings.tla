--------------------------- MODULE LocalSettings ---------------------------
(***************************************************************************)
(* The settings of a user (config.rs).  LocalConfig is read once by every  *)
(* process, changed in memory and stored as a whole, also over what        *)
(* another process has stored since.  UserDefaultConfig holds the defaults *)
(* of a PeerConfig: a change loads the file and later, under no lock,      *)
(* stores it; a read keeps a copy that it loads anew after an interval,    *)
(* "because default config may changed in another process".  Both have a   *)
(* layer of settings above them that the user cannot change and one below, *)
(* which a custom client brings.  Every store replaces its file atomically *)
(* (store_path).                                                           *)
(***************************************************************************)
EXTENDS Integers

CONSTANTS
  Processes,   \* processes of the user
  Options,     \* names of options
  Language,    \* the option for which "default" means an empty value
  Values,      \* values an option is given; "default" is one of them
  Overwrite,   \* options of the upper layer, with their values
  Default,     \* options of the lower layer, with their values
  Free,        \* options of which UserDefaultConfig::get lets any value through
  Accepted,    \* values get_string and get_num_string let through
  Fallback,    \* the value they give instead of another
  Interval,    \* age from which on a copy is loaded anew, in ticks
  MaxTime,     \* bound: ticks
  MaxCalls     \* bound: changes

VARIABLES
  local,       \* LOCAL_CONFIG.options of every process
  copy,        \* USER_DEFAULT_CONFIG of every process, with its time
  localFile,   \* the stored LocalConfig
  userFile,    \* the stored UserDefaultConfig
  draft,       \* the UserDefaultConfig that a process loaded to change it
  last,        \* history: what every option was last chosen to be, in any process
  stale,       \* history: options of which a process holds an earlier choice
  lost,        \* history: options of which the file does
  recent,      \* history: contents of userFile at every tick
  read,        \* history: what the last read, in any process, returned
  now, calls

vars == <<local, copy, localFile, userFile, draft, last, stale, lost, recent, read, now, calls>>

(* The options of a map are those that do not map to Absent.               *)
Absent == "-"
Nothing == [k \in Options |-> Absent]
NoDraft == [held |-> FALSE, options |-> Nothing]
NoRead == [key |-> Absent, value |-> Absent, at |-> 0]

(* A value is not the mark of a missing one.                               *)
SettingsAssumption == Absent \notin Values /\ Interval \in Nat /\ MaxTime \in Nat

(* get_or: the first layer that has the option, or an empty value.         *)
GetOr(options, k) ==
  IF Overwrite[k] # Absent THEN Overwrite[k]
  ELSE IF options[k] # Absent THEN options[k]
  ELSE IF Default[k] # Absent THEN Default[k] ELSE ""

IsOptionCanSave(k, v) == Overwrite[k] = Absent /\ Default[k] # v
IsDefaultLang(k, v) == k = Language /\ v = "default"

(* What an option is meant to be once v was chosen for it.                 *)
Meant(k, v) ==
  IF Overwrite[k] # Absent THEN Overwrite[k]
  ELSE IF Default[k] = v THEN v
  ELSE IF IsDefaultLang(k, v) THEN ""
  ELSE IF v # "" THEN v
  ELSE IF Default[k] # Absent THEN Default[k] ELSE ""

Init ==
  /\ localFile \in [Options -> {Absent} \cup (Values \ {"", "default"})]
  /\ local = [p \in Processes |-> localFile]
  /\ userFile = Nothing
  /\ copy = [p \in Processes |-> [options |-> Nothing, at |-> 0]]
  /\ draft = [p \in Processes |-> NoDraft]
  /\ last = [k \in Options |-> GetOr(localFile, k)]
  /\ stale = [p \in Processes |-> {}] /\ lost = {}
  /\ recent = [i \in 0 .. MaxTime |-> IF i = 0 THEN {userFile} ELSE {}]
  /\ read = NoRead
  /\ now = 0 /\ calls = 0

Called == calls < MaxCalls /\ calls' = calls + 1
Put(options, k, v) == [options EXCEPT ![k] = IF v = "" THEN Absent ELSE v]

-----------------------------------------------------------------------------
(* LocalConfig::set_option, under the lock of LOCAL_CONFIG: an option that *)
(* is not to be saved is removed, so that the layers decide.               *)
SetLocal(options, k, v) ==
  IF ~IsOptionCanSave(k, v) THEN [options EXCEPT ![k] = Absent]
  ELSE IF IsDefaultLang(k, v) THEN [options EXCEPT ![k] = ""]
  ELSE Put(options, k, v)

(* The options as they are in the process, all of them, replace the file   *)
(* when one has changed; the store may fail, which is only logged.         *)
SetOption(p, k, v) ==
  LET options == SetLocal(local[p], k, v)
      stores == options # local[p] \/ (IsDefaultLang(k, v) /\ IsOptionCanSave(k, v)) IN
  /\ Called
  /\ local' = [local EXCEPT ![p] = options]
  /\ last' = [last EXCEPT ![k] = Meant(k, v)]
  /\ stale' = [q \in Processes |-> IF q = p THEN stale[q] \ {k} ELSE stale[q] \cup {k}]
  /\ \/ stores /\ localFile' = options /\ lost' = stale[p] \ {k}
     \/ stores /\ localFile' = localFile /\ lost' = lost \cup {k}
     \/ ~stores /\ localFile' = localFile
        /\ lost' = lost \cup (stale[p] \cap {k})
  /\ UNCHANGED <<copy, userFile, draft, recent, read, now>>

(* A process starts anew: LOCAL_CONFIG and USER_DEFAULT_CONFIG are loaded. *)
Restart(p) ==
  /\ Called
  /\ local' = [local EXCEPT ![p] = localFile]
  /\ copy' = [copy EXCEPT ![p] = [options |-> userFile, at |-> now]]
  /\ draft' = [draft EXCEPT ![p] = NoDraft]
  /\ stale' = [stale EXCEPT ![p] = lost]
  /\ UNCHANGED <<localFile, userFile, last, lost, recent, read, now>>

-----------------------------------------------------------------------------
(* UserDefaultConfig::load, by one who is about to change an option.       *)
LoadDefault(p) ==
  /\ Called
  /\ ~draft[p].held
  /\ draft' = [draft EXCEPT ![p] = [held |-> TRUE, options |-> userFile]]
  /\ UNCHANGED <<local, copy, localFile, userFile, last, stale, lost, recent, read, now>>

(* UserDefaultConfig::set, of what was loaded: an option that is not to be *)
(* saved is removed, and stored only when it was there.                    *)
SetDefault(p, k, v) ==
  LET old == draft[p].options
      options == IF IsOptionCanSave(k, v) THEN Put(old, k, v) ELSE [old EXCEPT ![k] = Absent] IN
  /\ draft[p].held
  /\ draft' = [draft EXCEPT ![p] = NoDraft]
  /\ \/ (IsOptionCanSave(k, v) \/ options # old) /\ userFile' = options
     \/ userFile' = userFile
  /\ recent' = [recent EXCEPT ![now] = @ \cup {userFile'}]
  /\ UNCHANGED <<local, copy, localFile, last, stale, lost, read, now, calls>>

(* UserDefaultConfig::read: the copy, loaded anew when it is too old, and  *)
(* of most options a value that is let through.                            *)
MutRefreshed(p) ==
  [options |-> IF now - copy[p].at > Interval THEN userFile ELSE copy[p].options, at |-> now]

Refreshed(p) ==
  IF now - copy[p].at > Interval THEN [options |-> userFile, at |-> now] ELSE copy[p]

Sanitised(k, v) == IF k \in Free \/ v \in Accepted THEN v ELSE Fallback

ReadDefault(p, k) ==
  /\ copy' = [copy EXCEPT ![p] = Refreshed(p)]
  /\ read' = [key |-> k, value |-> Sanitised(k, GetOr(copy'[p].options, k)), at |-> now]
  /\ UNCHANGED <<local, localFile, userFile, draft, last, stale, lost, recent, now, calls>>

(* A field that a PeerConfig lacks, or whose value is out of range, is     *)
(* read so when the PeerConfig is made or loaded.                          *)
DefaultField(p, k) == ReadDefault(p, k)

Tick ==
  /\ now < MaxTime /\ now' = now + 1
  /\ recent' = [recent EXCEPT ![now + 1] = {userFile}]
  /\ UNCHANGED <<local, copy, localFile, userFile, draft, last, stale, lost, read, calls>>

Step(p) ==
  \/ \E k \in Options, v \in Values : SetOption(p, k, v) \/ SetDefault(p, k, v)
  \/ Restart(p) \/ LoadDefault(p)
  \/ \E k \in Options : DefaultField(p, k)

Next == Tick \/ \E p \in Processes : Step(p)

Spec == Init /\ [][Next]_vars

-----------------------------------------------------------------------------
(* get_option of a process returns what was last chosen, in whichever      *)
(* process and before whatever restart: the upper layer where it has the   *)
(* option, a default where the choice was that default or nothing, and     *)
(* never an older choice that outlives one which set_option did not save.  *)
(* Only a process that had loaded its settings before another one made the *)
(* choice holds an earlier one; and only when it then stores what it       *)
(* holds, when it is given the choice it holds already, or when the store  *)
(* of the choice fails, does the file.  And a default that                 *)
(* UserDefaultConfig::read returns was in effect, in the file another      *)
(* process may have stored, no longer than the interval ago, however often *)
(* it is read.                                                             *)
SettingsAreCurrent ==
  /\ \A p \in Processes, k \in Options : k \notin stale[p] => GetOr(local[p], k) = last[k]
  /\ \A k \in Options : k \notin lost => GetOr(localFile, k) = last[k]
  /\ read.key # Absent =>
       \E i \in 0 .. read.at : \E options \in recent[i] :
         read.at - i <= Interval /\ read.value = Sanitised(read.key, GetOr(options, read.key))
=============================================================================
