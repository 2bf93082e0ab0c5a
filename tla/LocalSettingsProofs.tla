------------------------ MODULE LocalSettingsProofs ------------------------
(***************************************************************************)
(* Settings are current, for every number of processes, options, values,   *)
(* layers, calls and ticks, and every interval.                            *)
(***************************************************************************)
EXTENDS LocalSettings, TLAPS

Opts == [Options -> Values \cup {Absent, ""}]

(* The types of the state.                                                 *)
Typed ==
  /\ local \in [Processes -> Opts] /\ localFile \in Opts /\ userFile \in Opts
  /\ draft \in [Processes -> [held : BOOLEAN, options : Opts]]
  /\ last = [k \in Options |-> last[k]] /\ stale = [p \in Processes |-> stale[p]]
  /\ copy \in [Processes -> [options : Opts, at : 0 .. now]]
  /\ now \in 0 .. MaxTime
  /\ recent \in [0 .. MaxTime -> SUBSET Opts]

(* The choices of LocalConfig.                                             *)
ChosenOK ==
  /\ \A p \in Processes, k \in Options : k \notin stale[p] => GetOr(local[p], k) = last[k]
  /\ \A k \in Options : k \notin lost => GetOr(localFile, k) = last[k]

(* A copy is what the file was when it was loaded, and the file is what it *)
(* is now.                                                                 *)
CopiesOK ==
  /\ userFile \in recent[now]
  /\ \A p \in Processes : copy[p].options \in recent[copy[p].at]

(* What was read was in the file, not long before.                         *)
ReadIn(r, time, record) ==
  /\ r.at \in 0 .. time
  /\ r.key # Absent =>
       \E i \in 0 .. r.at : \E options \in record[i] :
         r.at - i <= Interval /\ r.value = Sanitised(r.key, GetOr(options, r.key))

ReadOK == ReadIn(read, now, recent)

IInv == Typed /\ ChosenOK /\ CopiesOK /\ ReadOK

(* Initially every process holds what the files hold.                      *)
LEMMA InitIInv == SettingsAssumption /\ Init => IInv
  <1> SUFFICES ASSUME SettingsAssumption, Init PROVE IInv
    OBVIOUS
  <1>1. localFile \in Opts /\ Nothing \in Opts
    BY DEF Init, Opts, Nothing
  <1>2. now = 0 /\ userFile = Nothing
    BY DEF Init
  <1>3. MaxTime \in Nat
    BY DEF SettingsAssumption
  <1>4. Typed
    <2>1. now \in 0 .. MaxTime /\ 0 \in 0 .. now
      BY <1>2, <1>3
    <2>2. recent \in [0 .. MaxTime -> SUBSET Opts]
      <3>1. userFile \in Opts /\ recent = [i \in 0 .. MaxTime |-> IF i = 0 THEN {userFile} ELSE {}]
        BY <1>1 DEF Init
      <3> QED
        BY <3>1
    <2>3. copy \in [Processes -> [options : Opts, at : 0 .. now]]
      BY <1>1, <2>1 DEF Init
    <2> QED
      BY <1>1, <2>1, <2>2, <2>3 DEF Init, Typed, NoDraft
  <1>5. ChosenOK
    BY DEF Init, ChosenOK
  <1>6. CopiesOK
    <2>1. 0 \in 0 .. MaxTime
      BY <1>3
    <2>2. recent = [i \in 0 .. MaxTime |-> IF i = 0 THEN {userFile} ELSE {}]
      BY DEF Init
    <2>3. recent[0] = {Nothing}
      BY <1>2, <2>1, <2>2
    <2> QED
      BY <1>2, <2>1, <2>3 DEF Init, CopiesOK
  <1>7. ReadOK
    <2>1. read.key = Absent /\ read.at = 0 /\ now = 0
      BY DEF Init, NoRead
    <2> QED
      BY <2>1 DEF ReadOK, ReadIn
  <1> QED
    BY <1>4, <1>5, <1>6, <1>7 DEF IInv

(* set_option makes get_option return what is meant, and leaves the other  *)
(* options alone.                                                          *)
LEMMA SetLocalIs ==
  ASSUME SettingsAssumption, NEW o \in Opts, NEW k \in Options, NEW v \in Values
  PROVE  /\ SetLocal(o, k, v) \in Opts
         /\ GetOr(SetLocal(o, k, v), k) = Meant(k, v)
         /\ \A j \in Options \ {k} : GetOr(SetLocal(o, k, v), j) = GetOr(o, j)
  <1> DEFINE n == SetLocal(o, k, v)
  <1>1. n \in Opts /\ \A j \in Options \ {k} : n[j] = o[j]
    BY DEF SetLocal, Put, Opts
  <1>2. n[k] = IF ~IsOptionCanSave(k, v) THEN Absent
               ELSE IF IsDefaultLang(k, v) THEN "" ELSE IF v = "" THEN Absent ELSE v
    BY DEF SetLocal, Put, Opts
  <1>3. v # Absent /\ Absent # ""
    BY DEF SettingsAssumption, Absent
  <1>4. GetOr(n, k) = Meant(k, v)
    <2> HIDE DEF n
    <2>1. CASE Overwrite[k] # Absent
      BY <2>1 DEF GetOr, Meant
    <2>2. CASE Overwrite[k] = Absent /\ Default[k] = v
      BY <1>2, <1>3, <2>2 DEF GetOr, Meant, IsOptionCanSave
    <2>3. CASE Overwrite[k] = Absent /\ Default[k] # v /\ IsDefaultLang(k, v)
      BY <1>2, <1>3, <2>3 DEF GetOr, Meant, IsOptionCanSave
    <2>4. CASE Overwrite[k] = Absent /\ Default[k] # v /\ ~IsDefaultLang(k, v) /\ v # ""
      BY <1>2, <1>3, <2>4 DEF GetOr, Meant, IsOptionCanSave
    <2>5. CASE Overwrite[k] = Absent /\ Default[k] # v /\ ~IsDefaultLang(k, v) /\ v = ""
      BY <1>2, <1>3, <2>5 DEF GetOr, Meant, IsOptionCanSave
    <2> QED
      BY <2>1, <2>2, <2>3, <2>4, <2>5
  <1>5. \A j \in Options \ {k} : GetOr(n, j) = GetOr(o, j)
    <2> HIDE DEF n
    <2> QED
      BY <1>1 DEF GetOr
  <1> QED
    BY <1>1, <1>4, <1>5

(* A step of LocalConfig.                                                  *)
LEMMA SetOptionIInv ==
  ASSUME SettingsAssumption, IInv, NEW p \in Processes, NEW k \in Options, NEW v \in Values,
         SetOption(p, k, v)
  PROVE  IInv'
  <1> DEFINE n == SetLocal(local[p], k, v)
  <1>1. local[p] \in Opts
    BY DEF IInv, Typed
  <1>2. /\ n \in Opts /\ GetOr(n, k) = Meant(k, v)
        /\ \A j \in Options \ {k} : GetOr(n, j) = GetOr(local[p], j)
    BY <1>1, SetLocalIs
  <1>3. /\ local' = [local EXCEPT ![p] = n] /\ localFile' \in {n, localFile}
        /\ last' = [last EXCEPT ![k] = Meant(k, v)]
        /\ stale' = [q \in Processes |-> IF q = p THEN stale[q] \ {k} ELSE stale[q] \cup {k}]
        /\ UNCHANGED <<copy, userFile, draft, recent, read, now>>
    BY DEF SetOption
  <1>4. \/ localFile' = n /\ lost' = stale[p] \ {k}
        \/ localFile' = localFile /\ lost' = lost \cup {k}
        \/ localFile' = localFile /\ n = local[p] /\ lost' = lost \cup (stale[p] \cap {k})
    BY DEF SetOption
  <1> HIDE DEF n
  <1>5. Typed'
    <2>1. /\ last' = [j \in Options |-> last'[j]] /\ stale' = [q \in Processes |-> stale'[q]]
      BY <1>3 DEF IInv, Typed
    <2> QED
      BY <1>2, <1>3, <2>1 DEF IInv, Typed
  <1>6. last'[k] = Meant(k, v) /\ \A j \in Options \ {k} : last'[j] = last[j]
    BY <1>3 DEF IInv, Typed
  <1>7. ASSUME NEW q \in Processes, NEW j \in Options, j \notin stale'[q]
        PROVE  GetOr(local'[q], j) = last'[j]
    <2>1. CASE q = p /\ j = k
      BY <1>2, <1>3, <1>6, <2>1 DEF IInv, Typed
    <2>2. CASE q = p /\ j # k
      <3>1. j \notin stale[p] /\ local'[q] = n
        BY <1>3, <1>7, <2>2 DEF IInv, Typed
      <3>2. GetOr(local[p], j) = last[j]
        BY <3>1 DEF IInv, ChosenOK
      <3> QED
        BY <1>2, <1>6, <2>2, <3>1, <3>2
    <2>3. CASE q # p
      <3>1. j # k /\ j \notin stale[q] /\ local'[q] = local[q]
        BY <1>3, <1>7, <2>3 DEF IInv, Typed
      <3>2. GetOr(local[q], j) = last[j]
        BY <3>1 DEF IInv, ChosenOK
      <3> QED
        BY <1>6, <3>1, <3>2
    <2> QED
      BY <2>1, <2>2, <2>3
  <1>8. ASSUME NEW j \in Options, j \notin lost' PROVE GetOr(localFile', j) = last'[j]
    <2>0. /\ j \notin stale[p] => GetOr(local[p], j) = last[j]
          /\ j \notin lost => GetOr(localFile, j) = last[j]
      BY DEF IInv, ChosenOK
    <2>1. CASE localFile' = n /\ lost' = stale[p] \ {k}
      <3>1. CASE j = k
        BY <1>2, <1>6, <2>1, <3>1
      <3>2. CASE j # k
        BY <1>2, <1>6, <1>8, <2>0, <2>1, <3>2
      <3> QED
        BY <3>1, <3>2
    <2>2. CASE localFile' = localFile /\ lost' = lost \cup {k}
      BY <1>6, <1>8, <2>0, <2>2
    <2>3. CASE localFile' = localFile /\ n = local[p] /\ lost' = lost \cup (stale[p] \cap {k})
      <3>1. CASE j = k
        <4>1. k \notin stale[p] /\ k \notin lost
          BY <1>8, <2>3, <3>1
        <4>2. GetOr(local[p], k) = Meant(k, v)
          BY <1>2, <2>3
        <4> QED
          BY <1>6, <2>0, <2>3, <3>1, <4>1, <4>2
      <3>2. CASE j # k
        BY <1>6, <1>8, <2>0, <2>3, <3>2
      <3> QED
        BY <3>1, <3>2
    <2> QED
      BY <1>4, <2>1, <2>2, <2>3
  <1>9. ChosenOK'
    BY <1>7, <1>8 DEF ChosenOK, GetOr
  <1>10. CopiesOK' /\ ReadOK'
    BY <1>3 DEF IInv, CopiesOK, ReadOK
  <1> QED
    BY <1>5, <1>9, <1>10 DEF IInv

(* A process that starts anew loads both files.                            *)
LEMMA RestartIInv ==
  ASSUME SettingsAssumption, IInv, NEW p \in Processes, Restart(p)
  PROVE  IInv'
  <1>1. /\ local' = [local EXCEPT ![p] = localFile]
        /\ copy' = [copy EXCEPT ![p] = [options |-> userFile, at |-> now]]
        /\ draft' = [draft EXCEPT ![p] = NoDraft] /\ stale' = [stale EXCEPT ![p] = lost]
        /\ UNCHANGED <<localFile, userFile, last, lost, recent, read, now>>
    BY DEF Restart
  <1>2. now \in 0 .. now /\ localFile \in Opts /\ userFile \in Opts
    BY DEF IInv, Typed
  <1>3. Typed'
    <2>1. NoDraft \in [held : BOOLEAN, options : Opts]
      BY DEF NoDraft, Nothing, Opts
    <2>2. draft' \in [Processes -> [held : BOOLEAN, options : Opts]]
      BY <1>1, <2>1 DEF IInv, Typed
    <2>3. stale' = [q \in Processes |-> stale'[q]]
      BY <1>1 DEF IInv, Typed
    <2> QED
      BY <1>1, <1>2, <2>2, <2>3 DEF IInv, Typed
  <1>4. ChosenOK'
    <2>1. ASSUME NEW q \in Processes, NEW j \in Options, j \notin stale'[q]
          PROVE  GetOr(local'[q], j) = last[j]
      <3>1. CASE q = p
        <4>1. local'[q] = localFile /\ j \notin lost
          BY <1>1, <2>1, <3>1 DEF IInv, Typed
        <4> QED
          BY <4>1 DEF IInv, ChosenOK
      <3>2. CASE q # p
        <4>1. local'[q] = local[q] /\ j \notin stale[q]
          BY <1>1, <2>1, <3>2 DEF IInv, Typed
        <4> QED
          BY <4>1 DEF IInv, ChosenOK
      <3> QED
        BY <3>1, <3>2
    <2>2. \A j \in Options : j \notin lost => GetOr(localFile, j) = last[j]
      BY DEF IInv, ChosenOK
    <2> QED
      BY <1>1, <2>1, <2>2 DEF ChosenOK, GetOr
  <1>5. CopiesOK'
    <2>1. ASSUME NEW q \in Processes PROVE copy'[q].options \in recent[copy'[q].at]
      BY <1>1 DEF IInv, Typed, CopiesOK
    <2> QED
      BY <1>1, <2>1 DEF IInv, CopiesOK
  <1>6. ReadOK'
    BY <1>1 DEF IInv, ReadOK
  <1> QED
    BY <1>3, <1>4, <1>5, <1>6 DEF IInv

(* What was recorded of the file is kept.                                  *)
LEMMA RecordKept ==
  ASSUME IInv, now' \in 0 .. MaxTime, now <= now', NEW r, ReadIn(r, now, recent),
         \A i \in 0 .. now : recent[i] \subseteq recent'[i]
  PROVE  ReadIn(r, now', recent')
  <1>1. now \in Nat /\ now' \in Nat /\ r.at \in 0 .. now
    BY DEF ReadIn, IInv, Typed
  <1>2. r.at \in 0 .. now' /\ 0 .. r.at \subseteq 0 .. now
    BY <1>1
  <1>3. ASSUME r.key # Absent
        PROVE  \E i \in 0 .. r.at : \E options \in recent'[i] :
                 r.at - i <= Interval /\ r.value = Sanitised(r.key, GetOr(options, r.key))
    <2>1. PICK i \in 0 .. r.at : \E options \in recent[i] :
            r.at - i <= Interval /\ r.value = Sanitised(r.key, GetOr(options, r.key))
      BY <1>3 DEF ReadIn
    <2>2. recent[i] \subseteq recent'[i]
      BY <1>2
    <2> QED
      BY <2>1, <2>2
  <1> QED
    BY <1>2, <1>3 DEF ReadIn

(* Nothing of LocalConfig is touched.                                      *)
LEMMA ChosenKept ==
  ASSUME IInv, UNCHANGED <<local, localFile, last, stale, lost>>
  PROVE  ChosenOK'
  BY DEF IInv, ChosenOK, GetOr

(* The defaults are loaded, to change one.                                 *)
LEMMA LoadDefaultIInv ==
  ASSUME IInv, NEW p \in Processes, LoadDefault(p)
  PROVE  IInv'
  <1>1. /\ draft' = [draft EXCEPT ![p] = [held |-> TRUE, options |-> userFile]]
        /\ UNCHANGED <<local, copy, localFile, userFile, last, stale, lost, recent, read, now>>
    BY DEF LoadDefault
  <1>2. draft' \in [Processes -> [held : BOOLEAN, options : Opts]]
    BY <1>1 DEF IInv, Typed
  <1>3. Typed'
    BY <1>1, <1>2 DEF IInv, Typed
  <1>4. ChosenOK'
    BY <1>1, ChosenKept
  <1>5. CopiesOK' /\ ReadOK'
    BY <1>1 DEF IInv, CopiesOK, ReadOK
  <1> QED
    BY <1>3, <1>4, <1>5 DEF IInv

(* A change of the defaults.                                               *)
LEMMA SetDefaultIInv ==
  ASSUME SettingsAssumption, IInv, NEW p \in Processes, NEW k \in Options, NEW v \in Values,
         SetDefault(p, k, v)
  PROVE  IInv'
  <1>0. PICK old : old = draft[p].options /\ old \in Opts
    BY DEF IInv, Typed
  <1>1. PICK o : /\ o \in {Put(old, k, v), [old EXCEPT ![k] = Absent], userFile}
                 /\ userFile' = o /\ recent' = [recent EXCEPT ![now] = @ \cup {o}]
                 /\ draft' = [draft EXCEPT ![p] = NoDraft]
                 /\ UNCHANGED <<local, copy, localFile, last, stale, lost, read, now>>
    BY <1>0 DEF SetDefault
  <1>2. o \in Opts
    BY <1>0, <1>1 DEF IInv, Typed, Opts, Put
  <1>3. /\ recent' \in [0 .. MaxTime -> SUBSET Opts] /\ o \in recent'[now]
        /\ \A i \in 0 .. MaxTime : recent[i] \subseteq recent'[i]
    BY <1>1, <1>2 DEF IInv, Typed
  <1>4. Typed'
    <2>1. NoDraft \in [held : BOOLEAN, options : Opts]
      BY DEF NoDraft, Nothing, Opts
    <2>2. draft' \in [Processes -> [held : BOOLEAN, options : Opts]]
      BY <1>1, <2>1 DEF IInv, Typed
    <2> QED
      BY <1>1, <1>2, <1>3, <2>2 DEF IInv, Typed
  <1>5. CopiesOK'
    <2>1. ASSUME NEW q \in Processes PROVE copy[q].options \in recent'[copy[q].at]
      <3>1. copy[q].at \in 0 .. now /\ now \in 0 .. MaxTime
        BY DEF IInv, Typed
      <3>2. copy[q].at \in 0 .. MaxTime
        BY <3>1 DEF SettingsAssumption
      <3> QED
        BY <1>3, <3>2 DEF IInv, CopiesOK
    <2> QED
      BY <1>1, <1>3, <2>1 DEF CopiesOK
  <1>6. ReadOK'
    <2>1. now' \in 0 .. MaxTime /\ now <= now' /\ \A i \in 0 .. now : recent[i] \subseteq recent'[i]
      BY <1>1, <1>3 DEF IInv, Typed
    <2>2. ReadIn(read, now, recent) /\ read' = read
      BY <1>1 DEF IInv, ReadOK
    <2> QED
      BY <2>1, <2>2, RecordKept DEF ReadOK
  <1>7. ChosenOK'
    BY <1>1, ChosenKept
  <1> QED
    BY <1>4, <1>5, <1>6, <1>7 DEF IInv

(* Time passes.                                                            *)
LEMMA TickIInv ==
  ASSUME SettingsAssumption, IInv, Tick
  PROVE  IInv'
  <1>1. /\ now < MaxTime /\ now' = now + 1 /\ recent' = [recent EXCEPT ![now + 1] = {userFile}]
        /\ UNCHANGED <<local, copy, localFile, userFile, draft, last, stale, lost, read>>
    BY DEF Tick
  <1>2. now \in Nat /\ now' \in 0 .. MaxTime /\ now <= now' /\ 0 .. now \subseteq 0 .. now'
    BY <1>1 DEF IInv, Typed, SettingsAssumption
  <1>3. /\ recent' \in [0 .. MaxTime -> SUBSET Opts] /\ userFile \in recent'[now']
        /\ \A i \in 0 .. now : recent'[i] = recent[i]
    BY <1>1, <1>2 DEF IInv, Typed
  <1>4. Typed'
    <2>1. copy \in [Processes -> [options : Opts, at : 0 .. now']]
      BY <1>2 DEF IInv, Typed
    <2> QED
      BY <1>1, <1>2, <1>3, <2>1 DEF IInv, Typed
  <1>5. CopiesOK'
    <2>1. ASSUME NEW q \in Processes PROVE copy[q].options \in recent'[copy[q].at]
      <3>1. copy[q].at \in 0 .. now
        BY DEF IInv, Typed
      <3> QED
        BY <1>3, <3>1 DEF IInv, CopiesOK
    <2> QED
      BY <1>1, <1>3, <2>1 DEF CopiesOK
  <1>6. ReadOK'
    <2>1. ReadIn(read, now, recent) /\ read' = read
      BY <1>1 DEF IInv, ReadOK
    <2> QED
      BY <1>2, <1>3, <2>1, RecordKept DEF ReadOK
  <1>7. ChosenOK'
    BY <1>1, ChosenKept
  <1> QED
    BY <1>4, <1>5, <1>6, <1>7 DEF IInv

(* A read is answered from a copy that is not too old.                     *)
LEMMA ReadDefaultIInv ==
  ASSUME SettingsAssumption, IInv, NEW p \in Processes, NEW k \in Options, ReadDefault(p, k)
  PROVE  IInv'
  <1>1. PICK c : c = Refreshed(p)
    OBVIOUS
  <1>2. /\ copy' = [copy EXCEPT ![p] = c]
        /\ UNCHANGED <<local, localFile, userFile, draft, last, stale, lost, recent, now>>
    BY <1>1 DEF ReadDefault
  <1>3. copy[p] \in [options : Opts, at : 0 .. now] /\ now \in Nat /\ copy[p].at \in Int /\ Interval \in Nat
    BY DEF IInv, Typed, SettingsAssumption
  <1>4. c \in [options : Opts, at : 0 .. now] /\ c.options \in recent[c.at] /\ now - c.at <= Interval
    <2>1. CASE now - copy[p].at > Interval
      <3>1. c = [options |-> userFile, at |-> now]
        BY <1>1, <2>1 DEF Refreshed
      <3> QED
        BY <1>3, <3>1 DEF IInv, Typed, CopiesOK
    <2>2. CASE ~(now - copy[p].at > Interval)
      <3>1. c = copy[p]
        BY <1>1, <2>2 DEF Refreshed
      <3> QED
        BY <1>3, <2>2, <3>1 DEF IInv, CopiesOK
    <2> QED
      BY <2>1, <2>2
  <1>5. copy' \in [Processes -> [options : Opts, at : 0 .. now]] /\ copy'[p] = c
        /\ \A q \in Processes \ {p} : copy'[q] = copy[q]
    BY <1>2, <1>4 DEF IInv, Typed
  <1>6. read' = [key |-> k, value |-> Sanitised(k, GetOr(c.options, k)), at |-> now]
    BY <1>5 DEF ReadDefault
  <1>7. Typed'
    BY <1>2, <1>5 DEF IInv, Typed
  <1>8. CopiesOK'
    BY <1>2, <1>4, <1>5 DEF IInv, CopiesOK
  <1>9. ReadOK'
    <2>1. /\ read'.key = k /\ read'.at = now /\ read'.value = Sanitised(k, GetOr(c.options, k))
          /\ c.at \in 0 .. now /\ now \in 0 .. now
      BY <1>3, <1>4, <1>6 DEF IInv, Typed
    <2> QED
      BY <1>2, <1>4, <2>1 DEF ReadOK, ReadIn
  <1>10. ChosenOK'
    BY <1>2, ChosenKept
  <1> QED
    BY <1>7, <1>8, <1>9, <1>10 DEF IInv

(* get_option returns, and the file holds, the last choice made in any     *)
(* process, over both layers, but where a process acted on settings it had *)
(* loaded before that choice or a store failed; and a default that is read *)
(* was in effect at most an interval ago, however changes, reads, restarts *)
(* and ticks of the processes follow each other.                           *)
THEOREM CurrentSettings == SettingsAssumption => (Spec => []SettingsAreCurrent)
  <1> SUFFICES ASSUME SettingsAssumption PROVE Spec => []SettingsAreCurrent
    OBVIOUS
  <1>1. Init => IInv
    BY InitIInv
  <1>2. IInv /\ [Next]_vars => IInv'
    <2> SUFFICES ASSUME IInv, [Next]_vars PROVE IInv'
      OBVIOUS
    <2>1. CASE UNCHANGED vars
      <3>1. Typed' /\ ChosenOK'
        BY <2>1 DEF vars, IInv, Typed, ChosenOK
      <3>2. CopiesOK' /\ ReadOK'
        BY <2>1 DEF vars, IInv, CopiesOK, ReadOK
      <3> QED
        BY <3>1, <3>2 DEF IInv
    <2>2. CASE Next
      BY <2>2, SetOptionIInv, RestartIInv, LoadDefaultIInv, SetDefaultIInv, TickIInv, ReadDefaultIInv
         DEF Next, Step, DefaultField
    <2> QED
      BY <2>1, <2>2
  <1>3. IInv => SettingsAreCurrent
    BY DEF IInv, ChosenOK, ReadOK, ReadIn, SettingsAreCurrent
  <1> QED
    BY <1>1, <1>2, <1>3, PTL DEF Spec
=============================================================================
