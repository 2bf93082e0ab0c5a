----------------------------- MODULE Clipboard -----------------------------
(***************************************************************************)
(* Clipboard texts between peers (transport/clipboard.rs).  Every peer     *)
(* numbers the texts copied on it; a receiver remembers the last number of *)
(* each origin, up to a limit, and passes on newer texts only.  A program  *)
(* that is not sure of a payload may send it again, so payloads of a       *)
(* session may repeat and come late; when the session ends the receiver    *)
(* forgets the numbers (reset_remote_state).                               *)
(***************************************************************************)
EXTENDS Integers, Sequences, FiniteSets

CONSTANTS
  Peers,
  Permission,   \* [Peers -> "disabled", "receive", "send" or "both"]
  MaxOrigins,   \* MAX_TRACKED_ORIGINS
  MaxTexts,     \* texts copied at each peer (bound)
  MaxResets     \* calls of reset_remote_state (bound)

VARIABLES
  nextSeq,   \* next_local_sequence of each peer
  remote,    \* remote_sequences of each peer: a function on the origins it knows
  mail,      \* payloads each peer has been sent, an unordered set: any may come again
  shown,     \* history: the texts each peer's system clipboard has been given, by origin
  resets     \* resets so far

vars == <<nextSeq, remote, mail, shown, resets>>

Init ==
  /\ nextSeq = [p \in Peers |-> 1]
  /\ remote = [p \in Peers |-> <<>>]
  /\ mail = [p \in Peers |-> {}]
  /\ shown = [p \in Peers |-> [o \in Peers |-> <<>>]]
  /\ resets = 0

CanSend(p) == Permission[p] \in {"send", "both"}
CanReceive(p) == Permission[p] \in {"receive", "both"}

(* prepare_local_text: the text gets the next number and goes to the other *)
(* peers; an empty or overlong text, or one the peer may not send, changes *)
(* nothing.                                                                *)
PrepareLocalText(p) ==
  LET text == [origin |-> p, seq |-> nextSeq[p]]
  IN /\ nextSeq[p] <= MaxTexts /\ CanSend(p)
     /\ nextSeq' = [nextSeq EXCEPT ![p] = @ + 1]
     /\ mail' = [q \in Peers |-> IF q = p THEN mail[q] ELSE mail[q] \cup {text}]
     /\ UNCHANGED <<remote, shown, resets>>

MutKnown(p, text) == text.origin \in DOMAIN remote[p] /\ text.seq = remote[p][text.origin]

Known(p, text) == text.origin \in DOMAIN remote[p] /\ text.seq <= remote[p][text.origin]

(* receive: one's own texts, known ones and those of too many origins are  *)
(* not passed on.                                                          *)
Receive(p, text) ==
  /\ text \in mail[p] /\ CanReceive(p)
  /\ text.origin # p /\ ~Known(p, text)
  /\ text.origin \in DOMAIN remote[p] \/ Cardinality(DOMAIN remote[p]) < MaxOrigins
  /\ remote' = [remote EXCEPT ![p] =
       [o \in DOMAIN @ \cup {text.origin} |-> IF o = text.origin THEN text.seq ELSE @[o]]]
  /\ shown' = [shown EXCEPT ![p][text.origin] = Append(@, text.seq)]
  /\ UNCHANGED <<nextSeq, mail, resets>>

(* The session with the others ends, and with it what was on its way:      *)
(* reset_remote_state.                                                     *)
ResetRemoteState(p) ==
  /\ resets < MaxResets
  /\ resets' = resets + 1
  /\ remote' = [remote EXCEPT ![p] = <<>>]
  /\ mail' = [mail EXCEPT ![p] = {}]
  /\ UNCHANGED <<nextSeq, shown>>

Next ==
  \E p \in Peers :
    \/ PrepareLocalText(p) \/ ResetRemoteState(p)
    \/ \E text \in mail[p] : Receive(p, text)

Spec == Init /\ [][Next]_vars

-----------------------------------------------------------------------------
(* The system clipboard of a peer is given every text of another at most   *)
(* once and in the order they were copied, also over several sessions, and *)
(* never one of its own: a payload that is repeated or late is recognised. *)
TextsComeInOrder ==
  \A p, o \in Peers :
    /\ shown[p][p] = <<>>
    /\ \A i, j \in 1..Len(shown[p][o]) : i < j => shown[p][o][i] < shown[p][o][j]
=============================================================================
