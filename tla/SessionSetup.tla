---------------------------- MODULE SessionSetup ----------------------------
(***************************************************************************)
(* The establishment of a session over QUIC, by its two ends: the TLS      *)
(* connection (transport/quic.rs, connect and IncomingHandshake), the      *)
(* authentication of the devices on the control stream (quic.rs,           *)
(* AuthenticatedControlChannel), the negotiation of the session and the    *)
(* opening of its channels (application.rs, establish).                    *)
(*                                                                         *)
(* A connection delivers what is sent on a stream, in order, until it is   *)
(* closed; it may be lost at any moment.  The keys, certificates and       *)
(* session ids of the two ends, and what they expect of the other, are     *)
(* chosen at the start.  A signature is a record that names its signer and *)
(* what it covers.  An end that fails drops its handles of the connection, *)
(* which closes it.                                                        *)
(***************************************************************************)
EXTENDS SessionNegotiation, FiniteSets

CONSTANTS
  Sessions,     \* session ids
  Versions,     \* application protocols that builds go up to
  Paths         \* what an end may find: [payload, file], the datagram size of the
                \* path and the file bandwidth limit of the configuration

Ends == {"client", "server"}
Peer(e) == IF e = "client" THEN "server" ELSE "client"
Any == "any"       \* an end that expects nothing (bind_provisional, discover)

VARIABLES
  conf,      \* every end: highest protocol, and the certificate, key, session it expects
  path,      \* every end: a member of Paths
  conn,      \* the connection: "none", "open" or "closed"
  at,        \* how far every end has come
  wire,      \* messages on the control stream, towards every end
  streams,   \* prefaces of the streams the client opened and the server has not accepted
  sid,       \* session id of every end
  out, last, \* next outgoing and last incoming sequence number of every end
  peer,      \* identity key every end has verified
  agreed,    \* agreement of every end
  chans,     \* channels of every end
  hindered   \* history: the connection was lost, or an end gave up waiting

vars == <<conf, path, conn, at, wire, streams, sid, out, last, peer, agreed, chans, hindered>>

Init ==
  /\ conf \in [Ends -> [version : Versions, pin : {Any, "client", "server"}, key : {Any, "client", "server"},
                        session : Sessions \cup {Any}]]
  /\ conf["client"].session = CHOOSE s \in Sessions : TRUE
  /\ path \in [Ends -> Paths]
  /\ conn = "none"
  /\ at = [e \in Ends |-> "start"]
  /\ wire = [e \in Ends |-> <<>>] /\ streams = <<>>
  /\ sid = [e \in Ends |-> Any]
  /\ out = [e \in Ends |-> 1] /\ last = [e \in Ends |-> 0]
  /\ peer = [e \in Ends |-> Any]
  /\ agreed = [e \in Ends |-> NoAgreement]
  /\ chans = [e \in Ends |-> {}]
  /\ hindered = FALSE

-----------------------------------------------------------------------------
(* What fails at an end drops the connection.                              *)
Fail(e) == at' = [at EXCEPT ![e] = "failed"] /\ conn' = "closed"
Goto(e, where) == at' = [at EXCEPT ![e] = where] /\ conn' = conn

(* MessageHeader::new, encode_message and decode_header: a message names   *)
(* its type, the session and a sequence number.                            *)
Message(type, s, n, body) == [type |-> type, session |-> s, seq |-> n, body |-> body]

(* send_control, take_sequence and write_message.                          *)
Send(e, m) ==
  /\ wire' = [wire EXCEPT ![Peer(e)] = Append(@, m)]
  /\ out' = [out EXCEPT ![e] = @ + 1]
  /\ UNCHANGED last

MutExchange(e, reply) ==
  /\ wire' = [wire EXCEPT ![e] = Tail(@), ![Peer(e)] = @ \o reply]
  /\ last' = [last EXCEPT ![e] = Head(wire[e]).seq + 1]
  /\ out' = [out EXCEPT ![e] = @ + Len(reply)]

(* A message is read, and answered by those of reply.                      *)
Exchange(e, reply) ==
  /\ wire' = [wire EXCEPT ![e] = Tail(@), ![Peer(e)] = @ \o reply]
  /\ last' = [last EXCEPT ![e] = Head(wire[e]).seq]
  /\ out' = [out EXCEPT ![e] = @ + Len(reply)]

(* read_control_message and the caller's test of the type.                 *)
Acceptable(e, m, type) == m.session = sid[e] /\ m.seq > last[e] /\ m.type = type

Reads(e, where) == at[e] = where /\ conn = "open" /\ wire[e] # <<>>

-----------------------------------------------------------------------------
(* The TLS handshake.  supported_alpn_protocols lists all protocols up to  *)
(* the own one; the highest that both ends list is chosen.                 *)
Alpn == Least(conf["client"].version, conf["server"].version)

Connect ==
  /\ conn = "none"
  /\ conn' = "open"
  /\ UNCHANGED <<conf, path, at, wire, streams, sid, out, last, peer, agreed, chans, hindered>>

(* The certificates an end's TLS configuration admits; each end then also  *)
(* tests the certificate of the other against its pin.                     *)
Roots(e) == IF conf[e].pin = Any THEN Ends ELSE {conf[e].pin}
Pinned(e) == Peer(e) \in Roots(e)

HandshakeDone(e) ==
  /\ at[e] = "start" /\ conn = "open"
  /\ IF Pinned(e) THEN Goto(e, "connected") ELSE Fail(e)
  /\ UNCHANGED <<conf, path, wire, streams, sid, out, last, peer, agreed, chans, hindered>>

(* client_transcript and server_transcript: what the signature of a hello  *)
(* covers.  The exporter is the same at both ends of the connection for    *)
(* the same session.                                                       *)
ClientProof(s, key, nonce) == [by |-> key, session |-> s, client |-> key, nonce |-> nonce]
ServerProof(s, client, nonce, key) == [by |-> key, session |-> s, client |-> client, nonce |-> nonce]

(* authenticate_client_inner, up to its first read.                        *)
SendClientHello ==
  LET s == conf["client"].session IN
  /\ at["client"] = "connected" /\ conn = "open"
  /\ Goto("client", "hello")
  /\ sid' = [sid EXCEPT !["client"] = s]
  /\ Send("client", Message("ClientHello", s, 1, ClientProof(s, "client", "n1")))
  /\ UNCHANGED <<conf, path, streams, peer, agreed, chans, hindered>>

(* authenticate_server_inner with an expected session, and                 *)
(* authenticate_server_discover_session_inner, which takes the client's.   *)
AnswerClientHello ==
  LET m == Head(wire["server"])
      b == m.body
  IN  /\ Reads("server", "connected")
      /\ IF /\ m.type = "ClientHello" /\ m.seq = 1
            /\ conf["server"].session \in {Any, m.session}
            /\ b = ClientProof(m.session, b.client, b.nonce)
            /\ conf["server"].key \in {Any, b.client}
         THEN /\ sid' = [sid EXCEPT !["server"] = m.session]
              /\ peer' = [peer EXCEPT !["server"] = b.client]
              /\ Exchange("server", <<Message("ServerHello", m.session, 1,
                                      ServerProof(m.session, b.client, b.nonce, "server"))>>)
              /\ Goto("server", "authenticated")
         ELSE Fail("server") /\ Exchange("server", <<>>) /\ UNCHANGED <<sid, peer>>
      /\ UNCHANGED <<conf, path, streams, agreed, chans, hindered>>

(* The rest of authenticate_client_inner.                                  *)
ReadServerHello ==
  LET m == Head(wire["client"]) IN
  /\ Reads("client", "hello")
  /\ Exchange("client", <<>>)
  /\ IF /\ m.type = "ServerHello" /\ m.session = sid["client"] /\ m.seq = 1
        /\ m.body = ServerProof(sid["client"], "client", "n1", m.body.by)
        /\ conf["client"].key \in {Any, m.body.by}
     THEN peer' = [peer EXCEPT !["client"] = m.body.by] /\ Goto("client", "authenticated")
     ELSE Fail("client") /\ UNCHANGED peer
  /\ UNCHANGED <<conf, path, streams, sid, agreed, chans, hindered>>

-----------------------------------------------------------------------------
(* application_session_offer.                                              *)
ApplicationOffer(e) ==
  LET payload == Least(Most(path[e].payload, 256), 65000) IN
  [min |-> Alpn, max |-> Alpn,
   caps |-> {"clipboard send", "clipboard receive", "file", "input send", "input receive"}
            \cup (IF Alpn >= 2 THEN {"keyframes"} ELSE {})
            \cup (IF Alpn >= 4 THEN {"barrier"} ELSE {}),
   mode |-> "low latency",
   video |-> <<"av1", "h265", "h264", "vp9", "vp8", "raw">>, audio |-> <<"opus">>,
   colors |-> Colors,
   limit |-> [x \in Limits |->
     CASE x = "payload" -> IF Alpn >= 2 THEN Least(Most(payload, 1300), 65000) ELSE payload
       [] x = "file rate" -> IF path[e].file = 0 THEN 1000000 ELSE path[e].file * 1000
       [] OTHER -> Highest[x]]]

(* negotiate_application_session of the client, in two steps, and of the   *)
(* server, in one.  No end limits the time it waits here.                  *)
SendOffer ==
  /\ at["client"] = "authenticated" /\ conn = "open"
  /\ IF ValidOffer(ApplicationOffer("client"))
     THEN /\ Goto("client", "offered")
          /\ Send("client", Message("SessionOffer", sid["client"], out["client"], ApplicationOffer("client")))
     ELSE Fail("client") /\ UNCHANGED <<wire, out, last>>
  /\ UNCHANGED <<conf, path, streams, sid, peer, agreed, chans, hindered>>

AnswerOffer ==
  LET m == Head(wire["server"])
      mine == ApplicationOffer("server")
      a == Negotiate(m.body, mine)
  IN  /\ Reads("server", "authenticated")
      /\ IF Acceptable("server", m, "SessionOffer") /\ a # NoAgreement /\ ValidAgreement(a)
         THEN /\ agreed' = [agreed EXCEPT !["server"] = a]
              /\ Exchange("server", <<Message("SessionAccept", sid["server"], out["server"],
                                              [offer |-> mine, agreement |-> a])>>)
              /\ Goto("server", "channels")
         ELSE Fail("server") /\ Exchange("server", <<>>) /\ UNCHANGED agreed
      /\ UNCHANGED <<conf, path, streams, sid, peer, chans, hindered>>

ReadAcceptance ==
  LET m == Head(wire["client"]) IN
  /\ Reads("client", "offered")
  /\ Exchange("client", <<>>)
  /\ IF /\ Acceptable("client", m, "SessionAccept")
        /\ ValidAcceptance(ApplicationOffer("client"), m.body.offer, m.body.agreement)
     THEN agreed' = [agreed EXCEPT !["client"] = m.body.agreement] /\ Goto("client", "channels")
     ELSE Fail("client") /\ UNCHANGED agreed
  /\ UNCHANGED <<conf, path, streams, sid, peer, chans, hindered>>

-----------------------------------------------------------------------------
(* application_channel_kinds.                                              *)
ChannelKinds(keyframes) ==
  <<"control", "input", "clipboard", "file", "diagnostics">> \o
  IF keyframes THEN <<"video">> ELSE <<>>

MutKinds(e) == ChannelKinds(conf[e].version >= 2)
Kinds(e) == ChannelKinds(agreed[e].keyframes)

(* ReliableChannel::open, for one kind after the other.                    *)
OpenChannel ==
  LET k == Kinds("client")[Cardinality(chans["client"]) + 1] IN
  /\ at["client"] = "channels" /\ conn = "open"
  /\ streams' = Append(streams, k)
  /\ chans' = [chans EXCEPT !["client"] = @ \cup {k}]
  /\ Goto("client", IF Cardinality(chans'["client"]) = Len(Kinds("client")) THEN "up" ELSE "channels")
  /\ UNCHANGED <<conf, path, wire, sid, out, last, peer, agreed, hindered>>

(* ReliableChannel::accept: the kind is that of the preface; as many are   *)
(* accepted as there are kinds, none may come twice, none may be missing.  *)
AcceptChannel ==
  LET k == Head(streams)
      got == chans["server"] \cup {k}
  IN  /\ at["server"] = "channels" /\ conn = "open" /\ streams # <<>>
      /\ streams' = Tail(streams)
      /\ chans' = [chans EXCEPT !["server"] = got]
      /\ IF k \in chans["server"] THEN Fail("server")
         ELSE IF Cardinality(got) < Len(Kinds("server")) THEN Goto("server", "channels")
         ELSE IF Listed(Kinds("server")) \subseteq got THEN Goto("server", "up") ELSE Fail("server")
      /\ UNCHANGED <<conf, path, wire, sid, out, last, peer, agreed, hindered>>

-----------------------------------------------------------------------------
(* The connection is lost; an end gives up (connect_timeout, the timeout   *)
(* of the authentication, CHANNEL_SETUP_TIMEOUT); an end finds the         *)
(* connection closed.                                                      *)
LoseConnection ==
  /\ conn = "open"
  /\ conn' = "closed" /\ hindered' = TRUE
  /\ UNCHANGED <<conf, path, at, wire, streams, sid, out, last, peer, agreed, chans>>

GiveUp(e) ==
  /\ at[e] \in {"start", "connected", "hello", "channels"} /\ conn # "closed"
  /\ Fail(e) /\ hindered' = TRUE
  /\ UNCHANGED <<conf, path, wire, streams, sid, out, last, peer, agreed, chans>>

FindClosed(e) ==
  /\ at[e] \notin {"up", "failed"} /\ conn = "closed"
  /\ Fail(e)
  /\ UNCHANGED <<conf, path, wire, streams, sid, out, last, peer, agreed, chans, hindered>>

Ended == \A e \in Ends : at[e] \in {"up", "failed"}

Done == Ended /\ UNCHANGED vars

Step ==
  \/ Connect \/ SendClientHello \/ AnswerClientHello \/ ReadServerHello
  \/ SendOffer \/ AnswerOffer \/ ReadAcceptance \/ OpenChannel \/ AcceptChannel
  \/ \E e \in Ends : HandshakeDone(e) \/ FindClosed(e)

Next == Step \/ LoseConnection \/ (\E e \in Ends : GiveUp(e)) \/ Done

(* An end that runs takes its next step.                                   *)
Fairness == WF_vars(Step)

Spec == Init /\ [][Next]_vars /\ Fairness

-----------------------------------------------------------------------------
(* The two ends of a session that both consider established agree on it:   *)
(* on the session id, on what was negotiated, which either end's offer     *)
(* allows, and on the set of channels; and each has verified the identity  *)
(* of the other.                                                           *)
EndsAgree ==
  (\A e \in Ends : at[e] = "up") =>
    /\ sid["client"] = sid["server"]
    /\ agreed["client"] = agreed["server"]
    /\ chans["client"] = chans["server"]
    /\ \A e \in Ends : AgreementForOffer(agreed[e], ApplicationOffer(e)) /\ peer[e] = Peer(e)

(* The ends expect each other.                                             *)
Expected ==
  /\ \A e \in Ends : Pinned(e) /\ conf[e].key \in {Any, Peer(e)}
  /\ conf["server"].session \in {Any, conf["client"].session}

(* The establishment ends at both ends; and two ends that expect each      *)
(* other, of whatever versions, get their session unless the connection is *)
(* lost or an end runs out of time: neither refuses what the other sends.  *)
SetupEnds == <>[](Ended /\ (Expected /\ ~hindered => \A e \in Ends : at[e] = "up"))
=============================================================================
