----------------------------- MODULE AddrMangle -----------------------------
(***************************************************************************)
(* The mangled form in which socket addresses travel in messages of the    *)
(* rendezvous protocol (lib.rs, AddrMangle), so that no device on the way  *)
(* rewrites them: an IPv4 address and its port are added to parts of the   *)
(* time of the call and packed into a number, whose highest zero bytes are *)
(* left out.  An IPv6 address is sent as it is, unless it stands for an    *)
(* IPv4 one.                                                               *)
(*                                                                         *)
(* A byte has Bits bits, 8 in the code; a port has 2 bytes, an IPv4        *)
(* address and the time 4 and an IPv6 address or the number 16, as there.  *)
(***************************************************************************)
EXTENDS Integers, Sequences, SequencesExt, Bitwise

CONSTANTS
  Bits,     \* of a byte
  Ips4,     \* IPv4 addresses, sequences of 4 bytes
  Ips6,     \* IPv6 addresses, sequences of 16 bytes
  Times     \* microseconds, as many bits of them as 4 bytes have

VARIABLES
  addr,     \* the address to send
  stage,    \* "given", "encoded" or "decoded"
  bytes,    \* what is sent
  back      \* what the receiver makes of it

vars == <<addr, stage, bytes, back>>

Byte == 2^Bits
U16 == Byte^2
U32 == Byte^4

Addr(v6, ip, port) == [v6 |-> v6, ip |-> ip, port |-> port]
Zeros(n) == [i \in 1..n |-> 0]

(* from_le_bytes and to_le_bytes.                                          *)
FromLe(s) == FoldRight(LAMBDA b, n : b + Byte * n, s, 0)
ToLe(n, len) == [i \in 1..len |-> (n \div Byte^(i - 1)) % Byte]

-----------------------------------------------------------------------------
(* Ipv6Addr::to_ipv4 has one for ::a.b.c.d and for ::ffff:a.b.c.d.         *)
IsLoopback(ip) == ip = Zeros(15) \o <<1>>
StandsForV4(ip) ==
  SubSeq(ip, 1, 10) = Zeros(10) /\ SubSeq(ip, 11, 12) \in {<<0, 0>>, <<Byte - 1, Byte - 1>>}

TryIntoV4(a) ==
  IF a.v6 /\ ~IsLoopback(a.ip) /\ StandsForV4(a.ip) THEN Addr(FALSE, SubSeq(a.ip, 13, 16), a.port) ELSE a

MutPacked(ip, port, tm) ==
  ((FromLe(ip) + tm) * Byte^6) | (tm * Byte^2) | (port + (tm % U16))

(* The fields of the number: the sum of port and time has a bit more than  *)
(* a port.                                                                 *)
Packed(ip, port, tm) ==
  ((FromLe(ip) + tm) * 2 * Byte^6) | (tm * 2 * Byte^2) | (port + (tm % U16))

Trimmed(s) == SubSeq(s, 1, Max({0} \cup {i \in 1..Len(s) : s[i] # 0}))

Encode(tm) ==
  LET a == TryIntoV4(addr) IN
  /\ stage = "given"
  /\ stage' = "encoded"
  /\ bytes' = IF a.v6 THEN a.ip \o ToLe(a.port, 2) ELSE Trimmed(ToLe(Packed(a.ip, a.port, tm), 16))
  /\ UNCHANGED <<addr, back>>

AnyListenAddr == Addr(TRUE, Zeros(16), 0)

Unpacked(n) ==
  LET tm == (n \div (2 * Byte^2)) % U32 IN
  Addr(FALSE, ToLe(((n \div (2 * Byte^6)) - tm) % U32, 4), ((n % Byte^3) - (tm % U16)) % U16)

Decode ==
  /\ stage = "encoded"
  /\ stage' = "decoded"
  /\ back' = IF Len(bytes) <= 16 THEN Unpacked(FromLe(bytes))
             ELSE IF Len(bytes) # 18 THEN AnyListenAddr
             ELSE Addr(TRUE, SubSeq(bytes, 1, 16), FromLe(SubSeq(bytes, 17, 18)))
  /\ UNCHANGED <<addr, bytes>>

Init ==
  /\ \E port \in 0..(U16 - 1) :
       addr \in {Addr(FALSE, ip, port) : ip \in Ips4} \cup {Addr(TRUE, ip, port) : ip \in Ips6}
  /\ stage = "given"
  /\ bytes = <<>>
  /\ back = AnyListenAddr

Next == (\E tm \in Times : Encode(tm)) \/ Decode

Spec == Init /\ [][Next]_vars

(* An address arrives as it was sent, or as the IPv4 address it stands     *)
(* for, whatever the time: no carry of the sums reaches another field,     *)
(* what was left out is found again, and no IPv4 address is taken for an   *)
(* IPv6 one.                                                               *)
AddressesArrive == stage = "decoded" => back = TryIntoV4(addr)
=============================================================================
