--------------------------- MODULE WebRtcSessions ---------------------------
(***************************************************************************)
(* WebRTC streams of one process (webrtc.rs).  WebRTCStream::new either    *)
(* offers a connection or answers a remote offer; finished streams are     *)
(* shared through the map SESSIONS, whose key is the fingerprint of the    *)
(* offer.  Handlers that `new` registers run beside it: one takes the data *)
(* channel of the other end, one tells waiting callers that it is open,    *)
(* one cleans up when the connection ends.                                 *)
(*                                                                         *)
(* The connection itself belongs to the webrtc library: it may be          *)
(* described or refuse, its channel may arrive and open, and it may end at *)
(* any time, more than once (Disconnected, then Failed or Closed).  The    *)
(* library runs a handler as a task of its own.                            *)
(***************************************************************************)
EXTENDS Integers

CONSTANTS
  Tasks,      \* tasks that use streams
  Offers,     \* offers received from other ends
  MaxConns,   \* bound: connections created
  MaxCalls,   \* bound: calls of the tasks
  MaxEnds     \* times the library reports the end of a connection

VARIABLES
  conn,       \* connections created so far
  sessions,   \* SESSIONS: connection of every key, None for no entry
  task,       \* where every task is, and the connection it holds
  calls       \* calls so far

vars == <<conn, sessions, task, calls>>

None == 0
Ids == 1 .. MaxConns
Keys == ({"remote"} \X Offers) \cup ({"local"} \X Ids)
Idle == [at |-> "idle", key |-> <<"local", None>>, c |-> None]
Created == {c \in Ids : conn[c].mode # "none"}

(* A connection that offers owns its channel and hears of its opening; one *)
(* that answers starts with a dummy channel.                               *)
Connection(mode, key) ==
  [mode |-> mode, key |-> key, described |-> FALSE, channel |-> IF mode = "offer" THEN "own" ELSE "dummy",
   hears |-> mode = "offer", answered |-> FALSE, open |-> FALSE, notified |-> FALSE,
   ends |-> 0, handler |-> "idle", early |-> FALSE]

Init ==
  /\ conn = [c \in Ids |-> Connection("none", Idle.key)]
  /\ sessions = [k \in Keys |-> None]
  /\ task = [t \in Tasks |-> Idle]
  /\ calls = 0

Ended(c) == conn[c].ends > 0
Goto(t, at, c) == task' = [task EXCEPT ![t] = [@ EXCEPT !.at = at, !.c = c]]
Call(t) == task[t].at = "idle" /\ calls < MaxCalls /\ calls' = calls + 1

(* pc.close, or the library giving the connection up: the handler of the   *)
(* connection's state is due.                                              *)
Close(c) ==
  conn' = [conn EXCEPT ![c] =
    IF @.ends < MaxEnds /\ @.handler = "idle"
    THEN [@ EXCEPT !.ends = conn[c].ends + 1, !.handler = "notify"] ELSE @]

-----------------------------------------------------------------------------
(* new: a session of that offer, or a connection of its own.               *)
Create(t, mode, key) ==
  \E c \in Ids : /\ c \notin Created /\ 1 .. c - 1 \subseteq Created
                 /\ LET k == IF mode = "offer" THEN <<"local", c>> ELSE key IN
                    /\ conn' = [conn EXCEPT ![c] = Connection(mode, k)]
                    /\ task' = [task EXCEPT ![t] = [at |-> "new", key |-> k, c |-> c]]
                 /\ UNCHANGED sessions

NewOffer(t) == Call(t) /\ Create(t, "offer", Idle.key)

NewAnswer(t, o) ==
  LET k == <<"remote", o>> IN
  /\ Call(t)
  /\ \/ sessions[k] # None /\ Goto(t, "have", sessions[k]) /\ UNCHANGED <<conn, sessions>>
     \/ sessions[k] = None /\ Create(t, "answer", k)

(* The description is set and candidates are gathered; an error returns    *)
(* and leaves the connection as it is.                                     *)
Describe(t) ==
  /\ task[t].at = "new"
  /\ conn' = [conn EXCEPT ![task[t].c].described = TRUE]
  /\ Goto(t, "gather", task[t].c)
  /\ UNCHANGED <<sessions, calls>>

DescribeFails(t) ==
  /\ task[t].at = "new"
  /\ task' = [task EXCEPT ![t] = Idle]
  /\ UNCHANGED <<conn, sessions, calls>>

(* The map again, now with the key of the description: whoever comes       *)
(* second closes its own connection and takes the session of the first.    *)
Finish(t) ==
  LET c == task[t].c  k == task[t].key IN
  /\ task[t].at = "gather"
  /\ IF sessions[k] # None
     THEN Close(c) /\ Goto(t, "have", sessions[k]) /\ UNCHANGED sessions
     ELSE /\ sessions' = [sessions EXCEPT ![k] = c]
          /\ conn' = [conn EXCEPT ![c].early = Ended(c)]
          /\ Goto(t, "have", c)
  /\ UNCHANGED calls

-----------------------------------------------------------------------------
(* set_remote_endpoint: the answer to an offer.                            *)
SetRemoteEndpoint(t) ==
  LET c == task[t].c IN
  /\ task[t].at = "have" /\ conn[c].mode = "offer" /\ ~conn[c].answered
  /\ conn' = [conn EXCEPT ![c].answered = TRUE]
  /\ UNCHANGED <<sessions, task, calls>>

(* send_bytes and next wait for the connection's result; a send gives up   *)
(* after its timeout and closes the connection, next_timeout only returns. *)
Use(t, how) ==
  /\ task[t].at = "have" /\ calls < MaxCalls /\ calls' = calls + 1
  /\ Goto(t, how, task[t].c)
  /\ UNCHANGED <<conn, sessions>>

Woken(t) ==
  /\ task[t].at \in {"send", "next"} /\ conn[task[t].c].notified
  /\ Goto(t, IF task[t].at = "send" THEN "sends" ELSE "reads", task[t].c)
  /\ UNCHANGED <<conn, sessions, calls>>

SendTimeout(t) ==
  /\ task[t].at = "send" /\ ~conn[task[t].c].notified
  /\ Close(task[t].c)
  /\ Goto(t, "have", task[t].c)
  /\ UNCHANGED <<sessions, calls>>

NextTimeout(t) ==
  /\ task[t].at \in {"next", "reads"}
  /\ Goto(t, "have", task[t].c)
  /\ UNCHANGED <<conn, sessions, calls>>

(* Data goes through the channel the stream holds now, or the call fails;  *)
(* a failed read closes the connection, a failed detach or send does not.  *)
Transfer(t) ==
  LET c == task[t].c IN
  /\ task[t].at \in {"sends", "reads"}
  /\ \/ UNCHANGED conn
     \/ task[t].at = "reads" /\ conn[c].channel # "dummy" /\ Close(c)
  /\ Goto(t, "have", c)
  /\ UNCHANGED <<sessions, calls>>

Drop(t) ==
  /\ task[t].at = "have"
  /\ task' = [task EXCEPT ![t] = Idle]
  /\ UNCHANGED <<conn, sessions, calls>>

-----------------------------------------------------------------------------
(* on_data_channel: the stream takes the remote channel, and only then     *)
(* asks to hear of its opening.                                            *)
TakeChannel(c) ==
  /\ conn[c].mode = "answer" /\ conn[c].described /\ conn[c].channel = "dummy"
  /\ conn' = [conn EXCEPT ![c].channel = "remote"]
  /\ UNCHANGED <<sessions, task, calls>>

MutHearChannel(c) ==
  /\ conn[c].mode = "answer" /\ conn[c].described /\ ~conn[c].hears
  /\ conn' = [conn EXCEPT ![c].hears = TRUE]
  /\ UNCHANGED <<sessions, task, calls>>

HearChannel(c) ==
  /\ conn[c].channel = "remote" /\ ~conn[c].hears
  /\ conn' = [conn EXCEPT ![c].hears = TRUE]
  /\ UNCHANGED <<sessions, task, calls>>

(* The library opens the channel, and runs the handler of on_open once it  *)
(* is registered.                                                          *)
OpenChannel(c) ==
  /\ conn[c].described /\ ~Ended(c) /\ ~conn[c].open
  /\ conn[c].mode = "offer" => conn[c].answered
  /\ conn' = [conn EXCEPT ![c].open = TRUE]
  /\ UNCHANGED <<sessions, task, calls>>

OnOpen(c) ==
  /\ conn[c].open /\ conn[c].hears /\ ~conn[c].notified
  /\ conn' = [conn EXCEPT ![c].notified = TRUE]
  /\ UNCHANGED <<sessions, task, calls>>

End(c) ==
  /\ conn[c].ends < MaxEnds /\ conn[c].handler = "idle"
  /\ Close(c)
  /\ UNCHANGED <<sessions, task, calls>>

(* on_peer_connection_state_change of an ended connection: it wakes the    *)
(* callers, closes the channel, and removes the session of its key,        *)
(* whichever connection that is; without a description there is no key,    *)
(* and the sessions of this connection go.                                 *)
Notify(c) ==
  /\ conn[c].handler = "notify"
  /\ conn' = [conn EXCEPT ![c].notified = TRUE, ![c].handler = "close"]
  /\ UNCHANGED <<sessions, task, calls>>

CloseChannel(c) ==
  /\ conn[c].handler = "close"
  /\ conn' = [conn EXCEPT ![c].open = @ /\ conn[c].channel = "dummy", ![c].handler = "remove"]
  /\ UNCHANGED <<sessions, task, calls>>

MutDoomed(c) == IF conn[c].described THEN {<<"local", c>>} ELSE {k \in Keys : sessions[k] = c}

Doomed(c) == IF conn[c].described THEN {conn[c].key} ELSE {k \in Keys : sessions[k] = c}

RemoveSession(c) ==
  /\ conn[c].handler = "remove"
  /\ sessions' = [k \in Keys |-> IF k \in Doomed(c) THEN None ELSE sessions[k]]
  /\ conn' = [conn EXCEPT ![c].handler = "idle"]
  /\ UNCHANGED <<task, calls>>

TaskStep(t) ==
  \/ NewOffer(t) \/ \E o \in Offers : NewAnswer(t, o)
  \/ Describe(t) \/ DescribeFails(t) \/ Finish(t)
  \/ SetRemoteEndpoint(t) \/ \E how \in {"send", "next"} : Use(t, how)
  \/ Woken(t) \/ SendTimeout(t) \/ NextTimeout(t) \/ Transfer(t) \/ Drop(t)

ConnStep(c) ==
  \/ TakeChannel(c) \/ HearChannel(c) \/ OpenChannel(c) \/ OnOpen(c) \/ End(c)
  \/ Notify(c) \/ CloseChannel(c) \/ RemoveSession(c)

Next == (\E t \in Tasks : TaskStep(t)) \/ \E c \in Created : ConnStep(c)

Spec == Init /\ [][Next]_vars

-----------------------------------------------------------------------------
(* A connection that has ended leaves SESSIONS: once its handler has run,  *)
(* no session of it is kept for later callers of new, except when it had   *)
(* ended before new stored it, where nothing removes it any more.  (The    *)
(* handler looks up the key by the direction of the connection.)           *)
EndedSessionsLeave ==
  \A k \in Keys, c \in Ids :
    sessions[k] = c /\ Ended(c) /\ conn[c].handler = "idle" => conn[c].early

(* A caller that the connection's result wakes finds the channel to use:   *)
(* while the connection lives, send_bytes and next never reach the dummy   *)
(* channel of a connection that answers, nor one that is not yet open.     *)
WokenCallersHaveAChannel ==
  \A t \in Tasks : task[t].at \in {"sends", "reads"} /\ ~Ended(task[t].c) =>
    conn[task[t].c].channel # "dummy" /\ conn[task[t].c].open

(* A session that new returns, or that a caller waits on, can be used.     *)
SessionsAreUsable == EndedSessionsLeave /\ WokenCallersHaveAChannel
=============================================================================
