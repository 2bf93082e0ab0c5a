---------------------------- MODULE TlsFallback ----------------------------
(***************************************************************************)
(* How a client finds a way to speak TLS with a server (tls.rs, the        *)
(* connect of websocket.rs, the HTTPS proxy of proxy.rs).  There are two   *)
(* libraries, rustls and native-tls, and, if the user has allowed it, a    *)
(* certificate that does not verify may be accepted.  A call tries one     *)
(* combination after another and stores what worked for the next calls, in *)
(* two maps with a lock each.                                              *)
(*                                                                         *)
(* The calls are about one host and port; the maps keep hosts apart.       *)
(* Plain URLs, which the maps are not asked about, are left out.           *)
(***************************************************************************)
EXTENDS Integers

CONSTANTS
  Callers,      \* tasks that connect
  Proxied,      \* those that connect to an HTTPS proxy, the others to a WebSocket
  Servers,      \* what the server may be: [types, valid], the libraries it can speak
                \* with, and whether its certificate verifies
  MaxCalls,     \* bound: calls
  MaxChanges    \* bound: changes of the option, of the server, resets

None == "none"
Types == {"rustls", "native"}

VARIABLES
  tlsType,      \* URL_TLS_TYPE of the host, or None
  accept,       \* URL_TLS_DANGER_ACCEPT_INVALID_CERTS of the host: "no", "yes" or None
  allowed,      \* the option allow-insecure-tls-fallback
  server,       \* the server now
  at,           \* where every caller is
  call,         \* what it holds
  resetting,    \* reset_tls_cache has cleared the first map
  calls, changes

vars == <<tlsType, accept, allowed, server, at, call, resetting, calls, changes>>
env == <<allowed, server, resetting, changes>>

(* type, cached, accept and original are the parameters of try_connect;    *)
(* history: whether the option allowed it, what was tried, whether it was  *)
(* hindered by something else than TLS or by a change of the server.       *)
NewCall == [type |-> "rustls", cached |-> FALSE, accept |-> None, original |-> None,
            permitted |-> FALSE, tried |-> {}, hindered |-> FALSE]

Init ==
  /\ tlsType = None /\ accept = None
  /\ allowed \in BOOLEAN
  /\ server \in Servers
  /\ at = [c \in Callers |-> "idle"]
  /\ call = [c \in Callers |-> NewCall]
  /\ resetting = FALSE
  /\ calls = 0 /\ changes = 0

Goto(c, where, what) == at' = [at EXCEPT ![c] = where] /\ call' = [call EXCEPT ![c] = what]

-----------------------------------------------------------------------------
(* get_cached_tls_type, then get_cached_tls_accept_invalid_cert, which     *)
(* looks at the option before it looks at its map.                         *)
CachedType == IF tlsType = None THEN "rustls" ELSE tlsType

ReadType(c) ==
  /\ at[c] = "idle" /\ calls < MaxCalls
  /\ calls' = calls + 1
  /\ Goto(c, "option", [NewCall EXCEPT !.type = CachedType, !.cached = tlsType # None])
  /\ UNCHANGED <<tlsType, accept, env>>

MutReadOption(c) ==
  /\ at[c] = "option"
  /\ Goto(c, "accept", [call[c] EXCEPT !.permitted = allowed])
  /\ UNCHANGED <<tlsType, accept, calls, env>>

ReadOption(c) ==
  /\ at[c] = "option"
  /\ IF allowed THEN Goto(c, "accept", [call[c] EXCEPT !.permitted = TRUE])
     ELSE Goto(c, "try", [call[c] EXCEPT !.accept = "no", !.original = "no"])
  /\ UNCHANGED <<tlsType, accept, calls, env>>

ReadAccept(c) ==
  /\ at[c] = "accept"
  /\ Goto(c, "try", [call[c] EXCEPT !.accept = accept, !.original = accept])
  /\ UNCHANGED <<tlsType, accept, calls, env>>

-----------------------------------------------------------------------------
Suits(type, trusting) == type \in server.types /\ (server.valid \/ trusting)
Trusting(r) == r.accept = "yes"
Attempted(r) == [r EXCEPT !.tried = @ \cup {<<r.type, Trusting(r)>>}]

(* The parameters of the next attempt when one has failed; none for bail.  *)
Trustful(r) == [r EXCEPT !.accept = "yes"]
ToNative(r) == [r EXCEPT !.type = "native", !.accept = r.original]

(* try_connect of a WebSocket.                                             *)
WebSocketRetries(r) ==
  IF r.accept = None THEN {Trustful(r)}
  ELSE IF r.type = "rustls" /\ ~r.cached THEN {ToNative(r)} ELSE {}

(* The proxy does not go on from native-tls.                               *)
ProxyRetries(r) ==
  IF r.type = "native" THEN {}
  ELSE IF r.accept = None THEN {Trustful(r)}
  ELSE IF ~r.cached THEN {ToNative(r)} ELSE {}

Retries(c, r) == IF c \in Proxied THEN ProxyRetries(r) ELSE WebSocketRetries(r)

(* An attempt fails when TLS does, or the network, or what is above TLS.   *)
TryFails(c, other) ==
  LET r == [Attempted(call[c]) EXCEPT !.hindered = @ \/ other] IN
  /\ at[c] = "try"
  /\ other \/ ~Suits(r.type, Trusting(r))
  /\ \/ Retries(c, r) = {} /\ Goto(c, "failed", r)
     \/ \E next \in Retries(c, r) : Goto(c, "try", next)
  /\ UNCHANGED <<tlsType, accept, calls, env>>

(* The time-out of an attempt ends the call.  (So does a proxy that cannot *)
(* be reached for the next one.)                                           *)
TimesOut(c) ==
  /\ at[c] = "try"
  /\ Goto(c, "failed", [Attempted(call[c]) EXCEPT !.hindered = TRUE])
  /\ UNCHANGED <<tlsType, accept, calls, env>>

TrySucceeds(c) ==
  /\ at[c] = "try"
  /\ Suits(call[c].type, Trusting(call[c]))
  /\ Goto(c, "store type", Attempted(call[c]))
  /\ UNCHANGED <<tlsType, accept, calls, env>>

(* upsert_tls_cache.                                                       *)
StoreType(c) ==
  /\ at[c] = "store type"
  /\ tlsType' = call[c].type
  /\ Goto(c, "store accept", call[c])
  /\ UNCHANGED <<accept, calls, env>>

StoreAccept(c) ==
  /\ at[c] = "store accept"
  /\ accept' = IF Trusting(call[c]) THEN "yes" ELSE "no"
  /\ Goto(c, "up", call[c])
  /\ UNCHANGED <<tlsType, calls, env>>

Return(c) ==
  /\ at[c] \in {"up", "failed"}
  /\ Goto(c, "idle", NewCall)
  /\ UNCHANGED <<tlsType, accept, calls, env>>

-----------------------------------------------------------------------------
(* reset_tls_cache.                                                        *)
ResetType ==
  /\ ~resetting /\ changes < MaxChanges
  /\ tlsType' = None
  /\ resetting' = TRUE
  /\ changes' = changes + 1
  /\ UNCHANGED <<accept, allowed, server, at, call, calls>>

ResetAccept ==
  /\ resetting
  /\ accept' = None
  /\ resetting' = FALSE
  /\ UNCHANGED <<tlsType, allowed, server, at, call, calls, changes>>

(* The user changes the option, or somebody the server.                    *)
SetOption ==
  /\ changes < MaxChanges
  /\ allowed' = ~allowed
  /\ changes' = changes + 1
  /\ UNCHANGED <<tlsType, accept, server, at, call, resetting, calls>>

ServerChanges ==
  /\ changes < MaxChanges
  /\ server' \in Servers \ {server}
  /\ call' = [c \in Callers |-> IF at[c] \in {"try", "failed"} THEN [call[c] EXCEPT !.hindered = TRUE] ELSE call[c]]
  /\ changes' = changes + 1
  /\ UNCHANGED <<tlsType, accept, allowed, at, resetting, calls>>

Step(c) ==
  \/ ReadType(c) \/ ReadOption(c) \/ ReadAccept(c)
  \/ TrySucceeds(c) \/ (\E other \in BOOLEAN : TryFails(c, other)) \/ TimesOut(c)
  \/ StoreType(c) \/ StoreAccept(c) \/ Return(c)

Next == (\E c \in Callers : Step(c)) \/ ResetType \/ ResetAccept \/ SetOption \/ ServerChanges

Spec == Init /\ [][Next]_vars

-----------------------------------------------------------------------------
(* A connection whose certificate was not verified was made by a call that *)
(* found the option set, whatever other calls have stored while it was;    *)
(* and an attempt that verifies it was made before, by the same call, or   *)
(* by one that has stored its result.                                      *)
TrustIsAllowed ==
  \A c \in Callers : LET r == call[c] IN
    at[c] \in {"store type", "store accept", "up"} /\ Trusting(r) =>
      r.permitted /\ (r.original = "yes" \/ <<r.type, FALSE>> \in r.tried)

(* What a call may use: the library of an earlier connection, or both;     *)
(* trust as an earlier connection needed it, or any.                       *)
Usable(c) ==
  LET r == call[c] IN
  {<<t, trust>> \in Types \X BOOLEAN :
     /\ r.cached => t = r.type
     /\ r.original # None => trust = (r.original = "yes")
     /\ trust => r.permitted /\ (t = "native" /\ c \in Proxied => r.original = "yes")}

(* A server that can be reached is: a call that nothing else has hindered  *)
(* fails only if none of what it may use suits the server.                 *)
ReachableIsReached ==
  \A c \in Callers :
    at[c] = "failed" /\ ~call[c].hindered => \A u \in Usable(c) : ~Suits(u[1], u[2])

(* The fallback finds a way that there is, and only an allowed one.        *)
FallbackIsSound == TrustIsAllowed /\ ReachableIsReached
=============================================================================
