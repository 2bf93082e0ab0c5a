--------------------------- MODULE InputRecovery ---------------------------
(***************************************************************************)
(* Keyboard and mouse buttons of a session that is lost and regained       *)
(* (transport/input.rs ReliableInputReceiver, transport/recovery.rs).  The *)
(* viewer numbers its input events from 1 on every connection and sends    *)
(* them over a reliable stream; the host applies them to a record of what  *)
(* is pressed and passes on the events that change it.  When the host sees *)
(* its connection end it releases everything (on_disconnect); the viewer   *)
(* dials again after growing delays, until its attempts are used up.       *)
(***************************************************************************)
EXTENDS Integers, Sequences, SequencesExt, FiniteSetsExt

CONSTANTS
  Keys,            \* key codes
  Buttons,         \* mouse buttons
  InitialDelay,    \* ReconnectPolicy, in time units
  MaximumDelay,
  MaximumAttempts,
  Jitter,          \* largest deviation of a delay (percent of it in the code)
  MaxEvents,       \* events sent on one connection (bound)
  MaxConnections   \* connections made (bound)

Held == Keys \cup Buttons
Malformed == "malformed"   \* a payload decode_reliable_input refuses

VARIABLES
  held,        \* what the user holds down at the viewer
  dialled,     \* number of the viewer's connection, or 0 while it has none
  nextSeq,     \* sequence number of its next event
  attempts,    \* ReconnectState.attempts at the viewer
  delay,       \* delay the viewer waits out, -1 for none
  made,        \* connections made so far
  serving,     \* connection the host serves, or 0
  flight,      \* events on the wire of the host's connection, in order
  cut,         \* the host's connection is broken
  generation,  \* ReconnectState.generation at the host
  lastSeq,     \* ReliableInputReceiver.last_sequence
  pressed,     \* pressed_keys and pressed_buttons
  os           \* what the host's system has been told is pressed

viewer == <<held, dialled, nextSeq, attempts, delay, made>>
host == <<serving, generation, lastSeq, pressed, os>>
vars == <<viewer, host, flight, cut>>

Init ==
  /\ held = {} /\ dialled = 0 /\ nextSeq = 1 /\ attempts = 0 /\ delay = -1 /\ made = 0
  /\ serving = 0 /\ flight = <<>> /\ cut = FALSE
  /\ generation = 1 /\ lastSeq = 0 /\ pressed = {} /\ os = {}

-----------------------------------------------------------------------------
(* The viewer.  An event is sent on the connection the viewer has; whether *)
(* it arrives depends on that connection.                                  *)
SendEvent(event) ==
  /\ dialled # 0 /\ nextSeq <= MaxEvents
  /\ nextSeq' = nextSeq + 1
  /\ flight' = IF cut \/ serving # dialled THEN flight
               ELSE Append(flight, [seq |-> nextSeq, event |-> event])

Press(k) ==
  /\ k \notin held
  /\ held' = held \cup {k}
  /\ \/ SendEvent([what |-> k, down |-> TRUE])
     \/ dialled = 0 /\ UNCHANGED <<nextSeq, flight>>
  /\ UNCHANGED <<dialled, attempts, delay, made, host, cut>>

Release(k) ==
  /\ k \in held
  /\ held' = held \ {k}
  /\ \/ SendEvent([what |-> k, down |-> FALSE])
     \/ dialled = 0 /\ UNCHANGED <<nextSeq, flight>>
  /\ UNCHANGED <<dialled, attempts, delay, made, host, cut>>

(* A key that repeats, or an event of a kind or with values the host does  *)
(* not know.                                                               *)
Repeat(k) ==
  /\ \/ k \in held /\ SendEvent([what |-> k, down |-> TRUE])
     \/ k = Malformed /\ SendEvent([what |-> k, down |-> FALSE])
  /\ UNCHANGED <<held, dialled, attempts, delay, made, host, cut>>

(* The connection breaks: what is on the wire may still arrive in part.    *)
Break ==
  /\ serving # 0 /\ ~cut
  /\ cut' = TRUE
  /\ \E n \in 0..Len(flight) : flight' = SubSeq(flight, 1, n)
  /\ UNCHANGED <<viewer, host>>

ViewerNotices ==
  /\ dialled # 0 /\ (cut \/ serving # dialled)
  /\ dialled' = 0
  /\ UNCHANGED <<held, nextSeq, attempts, delay, made, host, flight, cut>>

(* next_delay: the delay doubles up to the maximum, with a jitter.         *)
Base == LET grown == InitialDelay * 2^attempts
        IN IF grown < MaximumDelay THEN grown ELSE MaximumDelay

NextDelay ==
  /\ dialled = 0 /\ delay = -1 /\ made < MaxConnections
  /\ attempts < MaximumAttempts
  /\ attempts' = attempts + 1
  /\ \E d \in (Base - Jitter)..(Base + Jitter) : delay' = IF d < 0 THEN 0 ELSE d
  /\ UNCHANGED <<held, dialled, nextSeq, made, host, flight, cut>>

(* AttemptsExhausted, and the user asks for another attempt (manual_delay).*)
ManualDelay ==
  /\ dialled = 0 /\ delay = -1 /\ made < MaxConnections
  /\ attempts >= MaximumAttempts
  /\ delay' = 0
  /\ UNCHANGED <<held, dialled, nextSeq, attempts, made, host, flight, cut>>

(* The delay passes and the viewer dials; a host that still serves the old *)
(* connection, or the network, refuses it.                                 *)
Dial ==
  /\ delay # -1
  /\ delay' = -1
  /\ \/ /\ serving = 0
        /\ made' = made + 1 /\ dialled' = made + 1 /\ serving' = made + 1
        /\ nextSeq' = 1 /\ attempts' = 0
        /\ flight' = <<>> /\ cut' = FALSE
     \/ UNCHANGED <<made, dialled, serving, nextSeq, attempts, flight, cut>>
  /\ UNCHANGED <<held, generation, lastSeq, pressed, os>>

-----------------------------------------------------------------------------
(* The host.                                                               *)

(* ReliableInputReceiver::apply: an event out of sequence or that does not *)
(* decode is an error and changes nothing, one that changes nothing is     *)
(* swallowed.  After an error the host closes the connection.              *)
Apply ==
  /\ serving # 0 /\ flight # <<>>
  /\ LET m == Head(flight)
         refused == m.seq # lastSeq + 1 \/ m.event.what = Malformed
         now == IF m.event.down THEN pressed \cup {m.event.what} ELSE pressed \ {m.event.what}
     IN IF refused
        THEN flight' = <<>> /\ cut' = TRUE /\ UNCHANGED <<lastSeq, pressed, os>>
        ELSE /\ flight' = Tail(flight) /\ UNCHANGED cut
             /\ lastSeq' = m.seq
             /\ pressed' = now
             /\ os' = IF now = pressed THEN os
                      ELSE IF m.event.down THEN os \cup {m.event.what}
                      ELSE os \ {m.event.what}
  /\ UNCHANGED <<viewer, serving, generation>>

MutReleaseAll == pressed \cap Keys

(* release_all: the releases of every key and every button.                *)
ReleaseAll == pressed

(* The host has read what arrived and sees the end: on_disconnect.         *)
OnDisconnect ==
  /\ serving # 0 /\ cut /\ flight = <<>>
  /\ serving' = 0 /\ generation' = generation + 1
  /\ os' = os \ ReleaseAll
  /\ pressed' = {} /\ lastSeq' = 0
  /\ cut' = FALSE
  /\ UNCHANGED <<viewer, flight>>

Next ==
  \/ \E k \in Held : Press(k) \/ Release(k)
  \/ \E k \in Held \cup {Malformed} : Repeat(k)
  \/ Break \/ ViewerNotices \/ NextDelay \/ ManualDelay \/ Dial
  \/ Apply \/ OnDisconnect

Spec == Init /\ [][Next]_vars

-----------------------------------------------------------------------------
(* Nothing stays pressed at the host that the user has let go of: what the *)
(* host's system holds down is held at the viewer, or its release is on    *)
(* its way over the connection the host serves, or that connection is over *)
(* and the host has yet to see it.  Without a connection nothing is held.  *)
NothingStaysPressed ==
  /\ serving = 0 => os = {}
  /\ serving # 0 /\ ~cut /\ dialled = serving =>
       \A k \in os : \/ k \in held
                     \/ \E i \in 1..Len(flight) : flight[i].event = [what |-> k, down |-> FALSE]
=============================================================================
