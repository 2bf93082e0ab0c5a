------------------------ MODULE WebRtcSessionsProofs ------------------------
(***************************************************************************)
(* WebRTC sessions are usable, for every number of tasks, offers,          *)
(* connections, calls and reported ends.                                   *)
(***************************************************************************)
EXTENDS WebRtcSessions, TLAPS

AllKeys == Keys \cup {Idle.key}
States == {"idle", "new", "gather", "have", "send", "next", "sends", "reads"}
Conns ==
  [mode : {"none", "offer", "answer"}, key : AllKeys, described : BOOLEAN,
   channel : {"own", "dummy", "remote"}, hears : BOOLEAN, answered : BOOLEAN, open : BOOLEAN,
   notified : BOOLEAN, ends : Nat, handler : {"idle", "notify", "close", "remove"}, early : BOOLEAN]

(* The types of the state.                                                 *)
Typed ==
  /\ conn \in [Ids -> Conns]
  /\ sessions \in [Keys -> Ids \cup {None}]
  /\ task \in [Tasks -> [at : States, key : AllKeys, c : Ids \cup {None}]]

(* A connection by itself: its handler is due only after its end, it hears *)
(* of a channel it has taken, and only a channel that is open, or the end, *)
(* was notified.                                                           *)
Well(r) ==
  /\ r.handler # "idle" => r.ends > 0
  /\ r.hears => r.channel # "dummy"
  /\ r.notified /\ ~(r.ends > 0) => r.open /\ r.hears

ConnOK(c) == Well(conn[c])

(* A task holds a connection that was created, under its key while new     *)
(* runs, and goes on from a wait only when it was notified.                *)
TaskOK(t) ==
  LET c == task[t].c IN
  /\ task[t].at # "idle" => c \in Ids /\ conn[c].mode # "none"
  /\ task[t].at \in {"new", "gather"} => task[t].key \in Keys /\ conn[c].key = task[t].key
  /\ task[t].at = "gather" => conn[c].described
  /\ task[t].at \in {"sends", "reads"} => conn[c].notified

(* A session is of a described connection, under that connection's key,    *)
(* and leaves with it.                                                     *)
SessionOK(k) ==
  LET c == sessions[k] IN
  c # None =>
    /\ conn[c].mode # "none" /\ conn[c].described /\ conn[c].key = k
    /\ Ended(c) /\ conn[c].handler = "idle" => conn[c].early

IInv ==
  /\ Typed
  /\ \A c \in Ids : ConnOK(c)
  /\ \A t \in Tasks : TaskOK(t)
  /\ \A k \in Keys : SessionOK(k)

(* What no step takes back from a connection that was created, and what    *)
(* only new and the removal of its session change.                         *)
Keeps(q, r) ==
  /\ r.mode = q.mode /\ r.key = q.key
  /\ q.described => r.described
  /\ q.notified => r.notified

Quiet(q, r) ==
  /\ r.early = q.early
  /\ r.ends > 0 /\ r.handler = "idle" => q.ends > 0 /\ q.handler = "idle"

Lasts(c) == Keeps(conn[c], conn'[c])

(* No connection is None.                                                  *)
LEMMA NoneIsNoId == None \notin Ids
  BY DEF None, Ids

(* The changes of a connection that the steps make, as facts about         *)
(* records: each leaves it well formed and takes nothing back.             *)
LEMMA Answering ==
  ASSUME NEW r \in Conns, Well(r)
  PROVE  LET n == [r EXCEPT !.answered = TRUE] IN n \in Conns /\ Well(n) /\ Keeps(r, n) /\ Quiet(r, n)
  BY DEF Conns, Well, Keeps, Quiet

LEMMA Describing ==
  ASSUME NEW r \in Conns, Well(r)
  PROVE  LET n == [r EXCEPT !.described = TRUE] IN
         n \in Conns /\ n.described /\ Well(n) /\ Keeps(r, n) /\ Quiet(r, n)
  BY DEF Conns, Well, Keeps, Quiet

LEMMA Taking ==
  ASSUME NEW r \in Conns, Well(r)
  PROVE  LET n == [r EXCEPT !.channel = "remote"] IN n \in Conns /\ Well(n) /\ Keeps(r, n) /\ Quiet(r, n)
  BY DEF Conns, Well, Keeps, Quiet

LEMMA Hearing ==
  ASSUME NEW r \in Conns, Well(r), r.channel = "remote"
  PROVE  LET n == [r EXCEPT !.hears = TRUE] IN n \in Conns /\ Well(n) /\ Keeps(r, n) /\ Quiet(r, n)
  BY DEF Conns, Well, Keeps, Quiet

LEMMA Opening ==
  ASSUME NEW r \in Conns, Well(r)
  PROVE  LET n == [r EXCEPT !.open = TRUE] IN n \in Conns /\ Well(n) /\ Keeps(r, n) /\ Quiet(r, n)
  BY DEF Conns, Well, Keeps, Quiet

LEMMA Telling ==
  ASSUME NEW r \in Conns, Well(r), r.open, r.hears
  PROVE  LET n == [r EXCEPT !.notified = TRUE] IN n \in Conns /\ Well(n) /\ Keeps(r, n) /\ Quiet(r, n)
  BY DEF Conns, Well, Keeps, Quiet

LEMMA EndingAt ==
  ASSUME NEW r \in Conns, Well(r), NEW e \in Nat, e > 0
  PROVE  LET n == [r EXCEPT !.ends = e, !.handler = "notify"] IN
         n \in Conns /\ Well(n) /\ Keeps(r, n) /\ Quiet(r, n)
  BY DEF Conns, Well, Keeps, Quiet

LEMMA Notifying ==
  ASSUME NEW r \in Conns, Well(r), r.handler = "notify"
  PROVE  LET n == [r EXCEPT !.notified = TRUE, !.handler = "close"] IN
         n \in Conns /\ Well(n) /\ Keeps(r, n) /\ Quiet(r, n)
  BY DEF Conns, Well, Keeps, Quiet

LEMMA Closing ==
  ASSUME NEW r \in Conns, Well(r), r.handler = "close", NEW o \in BOOLEAN
  PROVE  LET n == [r EXCEPT !.open = o, !.handler = "remove"] IN
         n \in Conns /\ Well(n) /\ Keeps(r, n) /\ Quiet(r, n)
  BY DEF Conns, Well, Keeps, Quiet

LEMMA Removing ==
  ASSUME NEW r \in Conns, Well(r)
  PROVE  LET n == [r EXCEPT !.handler = "idle"] IN
         n \in Conns /\ Well(n) /\ Keeps(r, n) /\ n.early = r.early /\ n.ends = r.ends
  BY DEF Conns, Well, Keeps

LEMMA Storing ==
  ASSUME NEW r \in Conns, Well(r), NEW e \in BOOLEAN
  PROVE  LET n == [r EXCEPT !.early = e] IN
         n \in Conns /\ Well(n) /\ Keeps(r, n) /\ n.early = e /\ n.ends = r.ends /\ n.handler = r.handler
  BY DEF Conns, Well, Keeps

LEMMA Creating ==
  ASSUME NEW mode \in {"none", "offer", "answer"}, NEW key \in AllKeys
  PROVE  LET n == Connection(mode, key) IN
         n \in Conns /\ Well(n) /\ n.mode = mode /\ n.key = key /\ n.ends = 0
  BY DEF Conns, Well, Connection

(* Initially there is no connection.                                       *)
LEMMA InitIInv == Init => IInv
  <1> SUFFICES ASSUME Init PROVE IInv
    OBVIOUS
  <1> DEFINE none == Connection("none", Idle.key)
  <1>1. none \in Conns /\ Well(none)
    BY Creating DEF AllKeys
  <1>2. conn = [c \in Ids |-> none] /\ sessions = [k \in Keys |-> None] /\ task = [t \in Tasks |-> Idle]
    BY DEF Init
  <1> HIDE DEF none
  <1>3. Idle \in [at : States, key : AllKeys, c : Ids \cup {None}] /\ Idle.at = "idle"
    BY DEF Idle, States, AllKeys
  <1>4. Typed
    BY <1>1, <1>2, <1>3 DEF Typed
  <1>5. \A c \in Ids : ConnOK(c)
    BY <1>1, <1>2 DEF ConnOK
  <1>6. \A t \in Tasks : TaskOK(t)
    BY <1>2, <1>3 DEF TaskOK
  <1>7. \A k \in Keys : SessionOK(k)
    BY <1>2 DEF SessionOK
  <1> QED
    BY <1>4, <1>5, <1>6, <1>7 DEF IInv

(* A step that replaces one connection.                                    *)
LEMMA OneConn ==
  ASSUME IInv, NEW c \in Ids, NEW r \in Conns, conn' = [conn EXCEPT ![c] = r], Well(r),
         conn[c].mode # "none" => Keeps(conn[c], r)
  PROVE  /\ conn' \in [Ids -> Conns] /\ conn'[c] = r /\ \A d \in Ids \ {c} : conn'[d] = conn[d]
         /\ \A d \in Ids : ConnOK(d)'
         /\ \A d \in Ids : conn[d].mode # "none" => Lasts(d)
  <1>1. conn' \in [Ids -> Conns] /\ conn'[c] = r /\ \A d \in Ids \ {c} : conn'[d] = conn[d]
    BY DEF IInv, Typed
  <1>2. ASSUME NEW d \in Ids PROVE ConnOK(d)'
    BY <1>1 DEF IInv, ConnOK
  <1>3. ASSUME NEW d \in Ids, conn[d].mode # "none" PROVE Lasts(d)
    <2>1. CASE d = c
      BY <1>1, <1>3, <2>1 DEF Lasts
    <2>2. CASE d # c
      BY <1>1, <2>2 DEF Lasts, Keeps
    <2> QED
      BY <2>1, <2>2
  <1> QED
    BY <1>1, <1>2, <1>3

(* A session of a connection that is as it was, or follows quietly.        *)
LEMMA SessionStays ==
  ASSUME IInv, NEW k \in Keys, sessions'[k] = sessions[k],
         \A d \in Ids : conn[d].mode # "none" => Lasts(d) /\ Quiet(conn[d], conn'[d])
  PROVE  SessionOK(k)'
  <1>1. SessionOK(k) /\ sessions[k] \in Ids \cup {None}
    BY DEF IInv, Typed
  <1>2. CASE sessions[k] = None
    BY <1>2 DEF SessionOK
  <1>3. CASE sessions[k] # None
    <2> DEFINE c == sessions[k]
    <2>1. /\ c \in Ids /\ conn[c].mode # "none" /\ conn[c].described /\ conn[c].key = k
          /\ conn[c].ends > 0 /\ conn[c].handler = "idle" => conn[c].early
      BY <1>1, <1>3 DEF SessionOK, Ended
    <2>2. Keeps(conn[c], conn'[c]) /\ Quiet(conn[c], conn'[c])
      BY <2>1 DEF Lasts
    <2>3. conn'[c].mode # "none" /\ conn'[c].described /\ conn'[c].key = k
      BY <2>1, <2>2 DEF Keeps
    <2>4. conn'[c].ends > 0 /\ conn'[c].handler = "idle" => conn'[c].early
      BY <2>1, <2>2 DEF Quiet
    <2> QED
      BY <2>3, <2>4 DEF SessionOK, Ended
  <1> QED
    BY <1>2, <1>3

(* A task that does not move keeps what it has.                            *)
LEMMA TaskStays ==
  ASSUME IInv, NEW t \in Tasks, task'[t] = task[t],
         \A c \in Ids : conn[c].mode # "none" => Lasts(c)
  PROVE  TaskOK(t)'
  <1>1. TaskOK(t)
    BY DEF IInv
  <1> QED
    BY <1>1 DEF TaskOK, Lasts, Keeps

(* The end of a connection by close: its handler is due from then on.      *)
LEMMA CloseKeeps ==
  ASSUME IInv, NEW c \in Ids, Close(c)
  PROVE  /\ conn' \in [Ids -> Conns]
         /\ \A d \in Ids : ConnOK(d)'
         /\ \A d \in Ids : conn[d].mode # "none" => Lasts(d) /\ Quiet(conn[d], conn'[d])
  <1>1. conn \in [Ids -> Conns] /\ conn[c] \in Conns /\ Well(conn[c]) /\ conn[c].ends \in Nat
    BY DEF IInv, Typed, ConnOK, Conns
  <1> DEFINE e == conn[c].ends + 1
             n == [conn[c] EXCEPT !.ends = e, !.handler = "notify"]
             due == conn[c].ends < MaxEnds /\ conn[c].handler = "idle"
  <1>2. conn' = [conn EXCEPT ![c] = IF due THEN n ELSE conn[c]]
    BY <1>1 DEF Close
  <1>3. e \in Nat /\ e > 0
    BY <1>1
  <1>4. n \in Conns /\ Well(n) /\ Keeps(conn[c], n) /\ Quiet(conn[c], n)
    <2> HIDE DEF e
    <2> QED
      BY <1>1, <1>3, EndingAt
  <1>5. Keeps(conn[c], conn[c]) /\ Quiet(conn[c], conn[c])
    BY DEF Keeps, Quiet
  <1> DEFINE r == IF due THEN n ELSE conn[c]
  <1> HIDE DEF n, due
  <1>6. r \in Conns /\ Well(r) /\ Keeps(conn[c], r) /\ Quiet(conn[c], r) /\ conn' = [conn EXCEPT ![c] = r]
    BY <1>1, <1>2, <1>4, <1>5
  <1> HIDE DEF r
  <1>7. /\ conn' \in [Ids -> Conns] /\ conn'[c] = r /\ \A d \in Ids \ {c} : conn'[d] = conn[d]
        /\ \A d \in Ids : ConnOK(d)'
        /\ \A d \in Ids : conn[d].mode # "none" => Lasts(d)
    BY <1>6, OneConn
  <1>8. ASSUME NEW d \in Ids PROVE Quiet(conn[d], conn'[d])
    <2>1. CASE d = c
      BY <1>6, <1>7, <2>1
    <2>2. CASE d # c
      BY <1>7, <2>2 DEF Quiet
    <2> QED
      BY <2>1, <2>2
  <1> QED
    BY <1>7, <1>8

(* A step that changes one connection and leaves the map and the tasks     *)
(* alone.                                                                  *)
LEMMA ConnStepKeeps ==
  ASSUME IInv, NEW c \in Ids, NEW r \in Conns, conn' = [conn EXCEPT ![c] = r],
         UNCHANGED <<sessions, task>>, Well(r), Keeps(conn[c], r), Quiet(conn[c], r)
  PROVE  IInv'
  <1>1. /\ conn' \in [Ids -> Conns] /\ conn'[c] = r /\ \A d \in Ids \ {c} : conn'[d] = conn[d]
        /\ \A d \in Ids : ConnOK(d)'
        /\ \A d \in Ids : conn[d].mode # "none" => Lasts(d)
    BY OneConn
  <1>2. ASSUME NEW d \in Ids PROVE Quiet(conn[d], conn'[d])
    <2>1. CASE d = c
      BY <1>1, <2>1
    <2>2. CASE d # c
      BY <1>1, <2>2 DEF Quiet
    <2> QED
      BY <2>1, <2>2
  <1>3. Typed'
    BY <1>1 DEF IInv, Typed
  <1>4. ASSUME NEW t \in Tasks PROVE TaskOK(t)'
    BY <1>1, TaskStays
  <1>5. ASSUME NEW k \in Keys PROVE SessionOK(k)'
    BY <1>1, <1>2, SessionStays
  <1> QED
    BY <1>1, <1>3, <1>4, <1>5 DEF IInv

(* A step of one task.                                                     *)
LEMMA TaskStepKeeps ==
  ASSUME IInv, NEW t \in Tasks,
         NEW r \in [at : States, key : AllKeys, c : Ids \cup {None}],
         task' = [task EXCEPT ![t] = r],
         conn' \in [Ids -> Conns], sessions' \in [Keys -> Ids \cup {None}],
         \A c \in Ids : ConnOK(c)',
         \A c \in Ids : conn[c].mode # "none" => Lasts(c),
         \A k \in Keys : SessionOK(k)',
         TaskOK(t)'
  PROVE  IInv'
  <1>1. task' \in [Tasks -> [at : States, key : AllKeys, c : Ids \cup {None}]]
    BY DEF IInv, Typed
  <1>2. ASSUME NEW u \in Tasks PROVE TaskOK(u)'
    <2>1. CASE u # t
      <3>1. task'[u] = task[u]
        BY <2>1 DEF IInv, Typed
      <3> QED
        BY <3>1, TaskStays
    <2> QED
      BY <2>1
  <1> QED
    BY <1>1, <1>2 DEF IInv, Typed

(* What a task becomes when it goes on.                                    *)
LEMMA GotoIs ==
  ASSUME IInv, NEW t \in Tasks, NEW at \in States, NEW c \in Ids \cup {None}, Goto(t, at, c)
  PROVE  \E r \in [at : States, key : AllKeys, c : Ids \cup {None}] :
           /\ task' = [task EXCEPT ![t] = r]
           /\ r.at = at /\ r.c = c /\ r.key = task[t].key /\ task'[t] = r
  <1>1. task[t] \in [at : States, key : AllKeys, c : Ids \cup {None}]
    BY DEF IInv, Typed
  <1> DEFINE r == [task[t] EXCEPT !.at = at, !.c = c]
  <1>2. r.at = at /\ r.c = c /\ r.key = task[t].key
    BY <1>1
  <1>3. r \in [at : States, key : AllKeys, c : Ids \cup {None}]
    BY <1>1
  <1>4. task' = [task EXCEPT ![t] = r] /\ task'[t] = r
    BY DEF Goto, IInv, Typed
  <1> QED
    BY <1>2, <1>3, <1>4

(* A task that goes on, with connections and map as they are.              *)
LEMMA OnlyGoto ==
  ASSUME IInv, NEW t \in Tasks, NEW at \in States \ {"new", "gather"}, NEW c \in Ids,
         Goto(t, at, c), UNCHANGED <<conn, sessions>>,
         conn[c].mode # "none", at \in {"sends", "reads"} => conn[c].notified
  PROVE  IInv'
  <1>1. PICK r \in [at : States, key : AllKeys, c : Ids \cup {None}] :
          /\ task' = [task EXCEPT ![t] = r]
          /\ r.at = at /\ r.c = c /\ task'[t] = r
    BY GotoIs
  <1>2. TaskOK(t)'
    BY <1>1 DEF TaskOK
  <1>3. /\ conn' \in [Ids -> Conns] /\ sessions' \in [Keys -> Ids \cup {None}]
        /\ \A d \in Ids : ConnOK(d)' /\ Lasts(d)
        /\ \A k \in Keys : SessionOK(k)'
    BY DEF IInv, Typed, ConnOK, Well, Lasts, Keeps, SessionOK, Ended
  <1> QED
    BY <1>1, <1>2, <1>3, TaskStepKeeps

(* A task that lets go of its connection.                                  *)
LEMMA GoIdle ==
  ASSUME IInv, NEW t \in Tasks, task' = [task EXCEPT ![t] = Idle], UNCHANGED <<conn, sessions>>
  PROVE  IInv'
  <1>1. Idle \in [at : States, key : AllKeys, c : Ids \cup {None}]
    BY DEF Idle, States, AllKeys
  <1>2. task'[t] = Idle
    BY DEF IInv, Typed
  <1>3. TaskOK(t)'
    BY <1>2 DEF TaskOK, Idle
  <1>4. /\ conn' \in [Ids -> Conns] /\ sessions' \in [Keys -> Ids \cup {None}]
        /\ \A d \in Ids : ConnOK(d)' /\ Lasts(d)
        /\ \A k \in Keys : SessionOK(k)'
    BY DEF IInv, Typed, ConnOK, Well, Lasts, Keeps, SessionOK, Ended
  <1> QED
    BY <1>1, <1>3, <1>4, TaskStepKeeps

(* A task that closes its connection and goes on to hold one that may have *)
(* been another's.                                                         *)
LEMMA CloseAndGo ==
  ASSUME IInv, NEW t \in Tasks, NEW c \in Ids, NEW d \in Ids, Close(c), Goto(t, "have", d),
         UNCHANGED sessions, conn[d].mode # "none"
  PROVE  IInv'
  <1>1. PICK r \in [at : States, key : AllKeys, c : Ids \cup {None}] :
          /\ task' = [task EXCEPT ![t] = r]
          /\ r.at = "have" /\ r.c = d /\ task'[t] = r
    BY GotoIs DEF States
  <1>2. /\ conn' \in [Ids -> Conns]
        /\ \A e \in Ids : ConnOK(e)'
        /\ \A e \in Ids : conn[e].mode # "none" => Lasts(e) /\ Quiet(conn[e], conn'[e])
    BY CloseKeeps
  <1>3. TaskOK(t)'
    BY <1>1, <1>2 DEF TaskOK, Lasts, Keeps
  <1>4. ASSUME NEW k \in Keys PROVE SessionOK(k)'
    BY <1>2, SessionStays
  <1>5. sessions' \in [Keys -> Ids \cup {None}]
    BY DEF IInv, Typed
  <1> QED
    BY <1>1, <1>2, <1>3, <1>4, <1>5, TaskStepKeeps

(* new makes a connection that nobody holds yet.                           *)
LEMMA CreateKeeps ==
  ASSUME IInv, NEW t \in Tasks, NEW mode \in {"offer", "answer"}, NEW key \in AllKeys,
         mode = "answer" => key \in Keys, Create(t, mode, key)
  PROVE  IInv'
  <1>1. PICK c \in Ids :
          LET k == IF mode = "offer" THEN <<"local", c>> ELSE key IN
          /\ c \notin Created
          /\ conn' = [conn EXCEPT ![c] = Connection(mode, k)]
          /\ task' = [task EXCEPT ![t] = [at |-> "new", key |-> k, c |-> c]]
          /\ UNCHANGED sessions
    BY DEF Create
  <1> DEFINE k == IF mode = "offer" THEN <<"local", c>> ELSE key
             r == [at |-> "new", key |-> k, c |-> c]
  <1>2. k \in Keys
    BY DEF Keys
  <1>3. PICK n : n = Connection(mode, k)
    OBVIOUS
  <1>4. n \in Conns /\ Well(n) /\ n.mode # "none" /\ n.key = k /\ n.ends = 0
    BY <1>2, <1>3, Creating DEF AllKeys
  <1>5. conn[c].mode = "none" /\ conn' = [conn EXCEPT ![c] = n]
    BY <1>1, <1>3 DEF Created
  <1>6. /\ conn' \in [Ids -> Conns] /\ conn'[c] = n /\ \A d \in Ids \ {c} : conn'[d] = conn[d]
        /\ \A d \in Ids : ConnOK(d)'
        /\ \A d \in Ids : conn[d].mode # "none" => Lasts(d)
    BY <1>4, <1>5, OneConn
  <1>7. r \in [at : States, key : AllKeys, c : Ids \cup {None}] /\ task' = [task EXCEPT ![t] = r]
        /\ task'[t] = r
    BY <1>1, <1>2 DEF States, AllKeys, IInv, Typed
  <1>8. TaskOK(t)'
    BY <1>2, <1>4, <1>6, <1>7 DEF TaskOK
  <1>9. ASSUME NEW d \in Ids, conn[d].mode # "none" PROVE Quiet(conn[d], conn'[d])
    BY <1>5, <1>6, <1>9 DEF Quiet
  <1>10. ASSUME NEW q \in Keys PROVE SessionOK(q)'
    BY <1>1, <1>6, <1>9, SessionStays
  <1>11. sessions' \in [Keys -> Ids \cup {None}]
    BY <1>1 DEF IInv, Typed
  <1> HIDE DEF r
  <1> QED
    BY <1>6, <1>7, <1>8, <1>10, <1>11, TaskStepKeeps

(* The map is looked up again before a connection is stored in it.         *)
LEMMA FinishKeeps ==
  ASSUME IInv, NEW t \in Tasks, Finish(t)
  PROVE  IInv'
  <1> DEFINE c == task[t].c
             k == task[t].key
  <1>1. /\ task[t].at = "gather" /\ c \in Ids /\ k \in Keys /\ conn[c] \in Conns
        /\ conn[c].mode # "none" /\ conn[c].key = k /\ conn[c].described
    BY DEF Finish, IInv, TaskOK, Typed
  <1>2. CASE sessions[k] # None
    <2>1. sessions[k] \in Ids /\ conn[sessions[k]].mode # "none"
      BY <1>1, <1>2 DEF IInv, Typed, SessionOK
    <2>2. Close(c) /\ Goto(t, "have", sessions[k]) /\ UNCHANGED sessions
      BY <1>2 DEF Finish
    <2> QED
      BY <1>1, <2>1, <2>2, CloseAndGo
  <1>3. CASE sessions[k] = None
    <2>1. PICK n : n = [conn[c] EXCEPT !.early = Ended(c)]
      OBVIOUS
    <2>2. /\ sessions' = [sessions EXCEPT ![k] = c]
          /\ conn' = [conn EXCEPT ![c] = n]
          /\ Goto(t, "have", c)
      BY <1>1, <1>3, <2>1 DEF Finish
    <2>3. Ended(c) \in BOOLEAN /\ Well(conn[c])
      BY <1>1 DEF Ended, IInv, ConnOK
    <2>4. /\ n \in Conns /\ Well(n) /\ Keeps(conn[c], n)
          /\ n.early = Ended(c) /\ n.ends = conn[c].ends /\ n.handler = conn[c].handler
      BY <1>1, <2>1, <2>3, Storing
    <2>5. /\ conn' \in [Ids -> Conns] /\ conn'[c] = n /\ \A d \in Ids \ {c} : conn'[d] = conn[d]
          /\ \A d \in Ids : ConnOK(d)'
          /\ \A d \in Ids : conn[d].mode # "none" => Lasts(d)
      BY <1>1, <2>2, <2>4, OneConn
    <2>6. /\ sessions' \in [Keys -> Ids \cup {None}] /\ sessions'[k] = c
          /\ \A q \in Keys \ {k} : sessions'[q] = sessions[q]
      BY <1>1, <2>2 DEF IInv, Typed
    <2>7. PICK r \in [at : States, key : AllKeys, c : Ids \cup {None}] :
            /\ task' = [task EXCEPT ![t] = r]
            /\ r.at = "have" /\ r.c = c /\ task'[t] = r
      BY <1>1, <2>2, GotoIs DEF States
    <2>8. TaskOK(t)'
      BY <1>1, <2>4, <2>5, <2>7 DEF TaskOK, Keeps
    <2>9. ASSUME NEW q \in Keys PROVE SessionOK(q)'
      <3>1. CASE q = k
        <4>1. n.mode # "none" /\ n.described /\ n.key = k
          BY <1>1, <2>4 DEF Keeps
        <4>2. n.ends > 0 => n.early
          BY <2>4 DEF Ended
        <4> QED
          BY <2>5, <2>6, <3>1, <4>1, <4>2 DEF SessionOK, Ended
      <3>2. CASE q # k
        <4>1. sessions'[q] = sessions[q] /\ SessionOK(q) /\ sessions[q] \in Ids \cup {None}
          BY <2>6, <3>2 DEF IInv, Typed
        <4>2. sessions[q] # c
          BY <1>1, <3>2, <4>1, NoneIsNoId DEF SessionOK
        <4> QED
          BY <2>5, <4>1, <4>2 DEF SessionOK, Ended
      <3> QED
        BY <3>1, <3>2
    <2> QED
      BY <2>5, <2>6, <2>7, <2>8, <2>9, TaskStepKeeps
  <1> QED
    BY <1>2, <1>3

(* The description is set.                                                 *)
LEMMA DescribeKeeps ==
  ASSUME IInv, NEW t \in Tasks, Describe(t)
  PROVE  IInv'
  <1> DEFINE c == task[t].c
  <1>1. /\ c \in Ids /\ task[t].key \in Keys /\ conn[c] \in Conns /\ Well(conn[c])
        /\ conn[c].mode # "none" /\ conn[c].key = task[t].key
    BY DEF Describe, IInv, TaskOK, ConnOK, Typed
  <1>2. PICK n : n = [conn[c] EXCEPT !.described = TRUE]
    OBVIOUS
  <1>3. conn' = [conn EXCEPT ![c] = n] /\ Goto(t, "gather", c) /\ UNCHANGED sessions
    BY <1>1, <1>2 DEF Describe
  <1>4. n \in Conns /\ n.described /\ Well(n) /\ Keeps(conn[c], n) /\ Quiet(conn[c], n)
    BY <1>1, <1>2, Describing
  <1>5. /\ conn' \in [Ids -> Conns] /\ conn'[c] = n /\ \A d \in Ids \ {c} : conn'[d] = conn[d]
        /\ \A d \in Ids : ConnOK(d)'
        /\ \A d \in Ids : conn[d].mode # "none" => Lasts(d)
    BY <1>1, <1>3, <1>4, OneConn
  <1>6. PICK r \in [at : States, key : AllKeys, c : Ids \cup {None}] :
          /\ task' = [task EXCEPT ![t] = r]
          /\ r.at = "gather" /\ r.c = c /\ r.key = task[t].key /\ task'[t] = r
    BY <1>1, <1>3, GotoIs DEF States
  <1>7. TaskOK(t)'
    BY <1>1, <1>4, <1>5, <1>6 DEF TaskOK, Keeps
  <1>8. ASSUME NEW d \in Ids PROVE Quiet(conn[d], conn'[d])
    <2>1. CASE d = c
      BY <1>4, <1>5, <2>1
    <2>2. CASE d # c
      BY <1>5, <2>2 DEF Quiet
    <2> QED
      BY <2>1, <2>2
  <1>9. ASSUME NEW k \in Keys PROVE SessionOK(k)'
    BY <1>3, <1>5, <1>8, SessionStays
  <1>10. sessions' \in [Keys -> Ids \cup {None}]
    BY <1>3 DEF IInv, Typed
  <1> QED
    BY <1>5, <1>6, <1>7, <1>9, <1>10, TaskStepKeeps

(* Every step of a task keeps the invariant.                               *)
LEMMA TaskStepIInv ==
  ASSUME IInv, NEW t \in Tasks, TaskStep(t)
  PROVE  IInv'
  <1> DEFINE c == task[t].c
  <1>0. task[t].at # "idle" => c \in Ids /\ conn[c].mode # "none"
    BY DEF IInv, TaskOK
  <1>1. CASE NewOffer(t)
    BY <1>1, CreateKeeps DEF NewOffer, AllKeys
  <1>2. ASSUME NEW o \in Offers, NewAnswer(t, o) PROVE IInv'
    <2> DEFINE k == <<"remote", o>>
    <2>1. k \in Keys
      BY DEF Keys
    <2>2. CASE sessions[k] # None /\ Goto(t, "have", sessions[k]) /\ UNCHANGED <<conn, sessions>>
      <3>1. sessions[k] \in Ids /\ conn[sessions[k]].mode # "none"
        BY <2>1, <2>2 DEF IInv, Typed, SessionOK
      <3> QED
        BY <2>2, <3>1, OnlyGoto DEF States
    <2>3. CASE Create(t, "answer", k)
      BY <2>1, <2>3, CreateKeeps DEF AllKeys
    <2> QED
      BY <1>2, <2>2, <2>3 DEF NewAnswer
  <1>3. CASE Describe(t)
    BY <1>3, DescribeKeeps
  <1>4. CASE DescribeFails(t)
    BY <1>4, GoIdle DEF DescribeFails
  <1>5. CASE Finish(t)
    BY <1>5, FinishKeeps
  <1>6. CASE SetRemoteEndpoint(t)
    <2>1. PICK n : n = [conn[c] EXCEPT !.answered = TRUE]
      OBVIOUS
    <2>2. c \in Ids /\ conn' = [conn EXCEPT ![c] = n] /\ UNCHANGED <<sessions, task>>
      BY <1>0, <1>6, <2>1 DEF SetRemoteEndpoint
    <2>3. conn[c] \in Conns /\ Well(conn[c])
      BY <2>2 DEF IInv, Typed, ConnOK
    <2> QED
      BY <2>1, <2>2, <2>3, Answering, ConnStepKeeps
  <1>7. ASSUME NEW how \in {"send", "next"}, Use(t, how) PROVE IInv'
    BY <1>0, <1>7, OnlyGoto DEF Use, States
  <1>8. CASE Woken(t)
    BY <1>0, <1>8, OnlyGoto DEF Woken, States
  <1>9. CASE SendTimeout(t)
    BY <1>0, <1>9, CloseAndGo DEF SendTimeout
  <1>10. CASE NextTimeout(t)
    BY <1>0, <1>10, OnlyGoto DEF NextTimeout, States
  <1>11. CASE Transfer(t)
    BY <1>0, <1>11, OnlyGoto, CloseAndGo DEF Transfer, States
  <1>12. CASE Drop(t)
    BY <1>12, GoIdle DEF Drop
  <1> QED
    BY <1>1, <1>2, <1>3, <1>4, <1>5, <1>6, <1>7, <1>8, <1>9, <1>10, <1>11, <1>12 DEF TaskStep

(* Every step of a connection keeps the invariant.                         *)
LEMMA ConnStepIInv ==
  ASSUME IInv, NEW c \in Created, ConnStep(c)
  PROVE  IInv'
  <1>0. c \in Ids /\ conn \in [Ids -> Conns] /\ conn[c] \in Conns /\ Well(conn[c])
    BY DEF Created, IInv, Typed, ConnOK
  <1>1. CASE TakeChannel(c)
    <2>1. PICK n : n = [conn[c] EXCEPT !.channel = "remote"]
      OBVIOUS
    <2>2. conn' = [conn EXCEPT ![c] = n] /\ UNCHANGED <<sessions, task>>
      BY <1>0, <1>1, <2>1 DEF TakeChannel
    <2> QED
      BY <1>0, <2>1, <2>2, Taking, ConnStepKeeps
  <1>2. CASE HearChannel(c)
    <2>1. PICK n : n = [conn[c] EXCEPT !.hears = TRUE]
      OBVIOUS
    <2>2. conn' = [conn EXCEPT ![c] = n] /\ UNCHANGED <<sessions, task>> /\ conn[c].channel = "remote"
      BY <1>0, <1>2, <2>1 DEF HearChannel
    <2> QED
      BY <1>0, <2>1, <2>2, Hearing, ConnStepKeeps
  <1>3. CASE OpenChannel(c)
    <2>1. PICK n : n = [conn[c] EXCEPT !.open = TRUE]
      OBVIOUS
    <2>2. conn' = [conn EXCEPT ![c] = n] /\ UNCHANGED <<sessions, task>>
      BY <1>0, <1>3, <2>1 DEF OpenChannel
    <2> QED
      BY <1>0, <2>1, <2>2, Opening, ConnStepKeeps
  <1>4. CASE OnOpen(c)
    <2>1. PICK n : n = [conn[c] EXCEPT !.notified = TRUE]
      OBVIOUS
    <2>2. conn' = [conn EXCEPT ![c] = n] /\ UNCHANGED <<sessions, task>> /\ conn[c].open /\ conn[c].hears
      BY <1>0, <1>4, <2>1 DEF OnOpen
    <2> QED
      BY <1>0, <2>1, <2>2, Telling, ConnStepKeeps
  <1>5. CASE End(c)
    <2>1. Close(c) /\ UNCHANGED <<sessions, task>>
      BY <1>5 DEF End
    <2>2. /\ conn' \in [Ids -> Conns]
          /\ \A e \in Ids : ConnOK(e)'
          /\ \A e \in Ids : conn[e].mode # "none" => Lasts(e) /\ Quiet(conn[e], conn'[e])
      BY <1>0, <2>1, CloseKeeps
    <2>3. ASSUME NEW t \in Tasks PROVE TaskOK(t)'
      BY <2>1, <2>2, TaskStays
    <2>4. ASSUME NEW k \in Keys PROVE SessionOK(k)'
      BY <2>1, <2>2, SessionStays
    <2> QED
      BY <2>1, <2>2, <2>3, <2>4 DEF IInv, Typed
  <1>6. CASE Notify(c)
    <2>1. PICK n : n = [conn[c] EXCEPT !.notified = TRUE, !.handler = "close"]
      OBVIOUS
    <2>2. conn' = [conn EXCEPT ![c] = n] /\ UNCHANGED <<sessions, task>> /\ conn[c].handler = "notify"
      BY <1>0, <1>6, <2>1 DEF Notify
    <2> QED
      BY <1>0, <2>1, <2>2, Notifying, ConnStepKeeps
  <1>7. CASE CloseChannel(c)
    <2>1. PICK o \in BOOLEAN : o = (conn[c].open /\ conn[c].channel = "dummy")
      OBVIOUS
    <2>2. PICK n : n = [conn[c] EXCEPT !.open = o, !.handler = "remove"]
      OBVIOUS
    <2>3. conn' = [conn EXCEPT ![c] = n] /\ UNCHANGED <<sessions, task>> /\ conn[c].handler = "close"
      BY <1>0, <1>7, <2>1, <2>2 DEF CloseChannel
    <2> QED
      BY <1>0, <2>1, <2>2, <2>3, Closing, ConnStepKeeps
  <1>8. CASE RemoveSession(c)
    <2>1. PICK n : n = [conn[c] EXCEPT !.handler = "idle"]
      OBVIOUS
    <2>2. /\ conn' = [conn EXCEPT ![c] = n] /\ task' = task
          /\ sessions' = [k \in Keys |-> IF k \in Doomed(c) THEN None ELSE sessions[k]]
      BY <1>0, <1>8, <2>1 DEF RemoveSession
    <2>3. n \in Conns /\ Well(n) /\ Keeps(conn[c], n) /\ n.early = conn[c].early
      BY <1>0, <2>1, Removing
    <2>4. /\ conn' \in [Ids -> Conns] /\ conn'[c] = n /\ \A d \in Ids \ {c} : conn'[d] = conn[d]
          /\ \A d \in Ids : ConnOK(d)'
          /\ \A d \in Ids : conn[d].mode # "none" => Lasts(d)
      BY <1>0, <2>2, <2>3, OneConn
    <2>5. ASSUME NEW t \in Tasks PROVE TaskOK(t)'
      BY <2>2, <2>4, TaskStays
    <2>6. ASSUME NEW k \in Keys PROVE SessionOK(k)' /\ sessions'[k] \in Ids \cup {None}
      <3>1. SessionOK(k) /\ sessions[k] \in Ids \cup {None}
        BY DEF IInv, Typed
      <3>2. sessions[k] = c => sessions'[k] = None
        BY <1>0, <2>2, <3>1, NoneIsNoId DEF SessionOK, Doomed
      <3>3. sessions'[k] = None \/ sessions'[k] = sessions[k]
        BY <2>2
      <3> QED
        BY <2>4, <3>1, <3>2, <3>3 DEF SessionOK, Ended
    <2>7. sessions' \in [Keys -> Ids \cup {None}]
      BY <2>2, <2>6
    <2> QED
      BY <2>2, <2>4, <2>5, <2>6, <2>7 DEF IInv, Typed
  <1> QED
    BY <1>1, <1>2, <1>3, <1>4, <1>5, <1>6, <1>7, <1>8 DEF ConnStep

(* A session that new finds in SESSIONS belongs to a connection that has   *)
(* not ended (or had ended before it was stored), and a caller that was    *)
(* woken finds an open channel of its own, whatever the order of the       *)
(* tasks, the handlers and the library.                                    *)
THEOREM UsableSessions == Spec => []SessionsAreUsable
  <1>1. IInv /\ [Next]_vars => IInv'
    <2> SUFFICES ASSUME IInv, [Next]_vars PROVE IInv'
      OBVIOUS
    <2>1. CASE UNCHANGED vars
      BY <2>1 DEF vars, IInv, Typed, ConnOK, Well, TaskOK, SessionOK, Ended
    <2>2. CASE Next
      BY <2>2, TaskStepIInv, ConnStepIInv DEF Next
    <2> QED
      BY <2>1, <2>2
  <1>2. IInv => SessionsAreUsable
    <2> SUFFICES ASSUME IInv PROVE SessionsAreUsable
      OBVIOUS
    <2>1. EndedSessionsLeave
      BY NoneIsNoId DEF IInv, SessionOK, EndedSessionsLeave
    <2>2. ASSUME NEW t \in Tasks, task[t].at \in {"sends", "reads"}, ~Ended(task[t].c)
          PROVE  conn[task[t].c].channel # "dummy" /\ conn[task[t].c].open
      <3>1. task[t].c \in Ids /\ conn[task[t].c].notified
        BY <2>2 DEF IInv, TaskOK
      <3> QED
        BY <2>2, <3>1 DEF IInv, ConnOK, Well, Ended
    <2> QED
      BY <2>1, <2>2 DEF SessionsAreUsable, WokenCallersHaveAChannel
  <1> QED
    BY InitIInv, <1>1, <1>2, PTL DEF Spec
=============================================================================
