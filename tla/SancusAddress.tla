----------------------------- MODULE SancusAddress -----------------------------
(***************************************************************************)
(* Addresses in and out: init_ipv4(), init_ipv6() and init_local() of      *)
(* server.c fill a sockaddr from what the program asks for,                *)
(* sancus_socket_ntop() of socket.c writes one into a buffer.              *)
(*                                                                         *)
(* The memory that is written is modelled beyond its end. A string that    *)
(* names an address is a TLA+ string, NULL one of them; a path is its      *)
(* length.                                                                 *)
(***************************************************************************)
EXTENDS Integers, Sequences

CONSTANTS
  Ports,     (* what an unsigned port may be                               *)
  Sizes,     (* of the buffer, 0 among them                                *)
  SizeMod,   (* 2^w, w the width of a size_t                               *)
  Paths,     (* lengths of paths                                           *)
  PathSize   (* sizeof(sun->sun_path)                                      *)

ASSUME PortsAssumption == Ports \subseteq Nat
ASSUME SizesAssumption == SizeMod \in Nat \ {0} /\ Sizes \subseteq 0..SizeMod - 1
ASSUME PathsAssumption == Paths \subseteq Nat /\ PathSize \in Nat \ {0}

VARIABLES
  asked,  \* history: what the last init_*() was asked for
  sa,     \* the sockaddr, NoAddress
  mem,    \* what the last call wrote to, and how much of it it was given
  size,
  ret     \* what it returned

vars == <<asked, sa, mem, size, ret>>

NUL == "NUL"
Stale == "stale"
Room == 64
Untouched == [i \in 0..Room - 1 |-> Stale]

Put(m, at, s) ==
  [i \in DOMAIN m |-> IF i - at + 1 \in DOMAIN s THEN s[i - at + 1] ELSE m[i]]
Strlen(m, at) ==
  (CHOOSE n \in 0..Room : m[at + n] = NUL /\ \A k \in 0..n - 1 : m[at + k] # NUL)

Address(f, a, p) == [family |-> f, addr |-> a, port |-> p]
NoAddress == Address("none", "any", 0)

(* What inet_pton() accepts besides the addresses that mean any, and how   *)
(* inet_ntop() writes it.                                                  *)
Text ==
  [ipv4 |-> [any  |-> <<"0", ".", "0", ".", "0", ".", "0">>,
             host |-> <<"1", "0", ".", "0", ".", "0", ".", "4", "2">>],
   ipv6 |-> [any  |-> <<":", ":">>,
             host |-> <<"f", "e", "8", "0", ":", ":", "1">>]]
Names == {"NULL", "", "0", "*", "::", "host", "nonsense"}

(* snprintf(port, sizeof(port), ":%u", ...)                                *)
Digits[n \in Nat] ==
  IF n < 10 THEN <<n>> ELSE Append(Digits[n \div 10], n % 10)
DigitChar == <<"0", "1", "2", "3", "4", "5", "6", "7", "8", "9">>
PortText(p) ==
  LET d == Digits[p] IN <<":">> \o [i \in DOMAIN d |-> DigitChar[d[i] + 1]]

Init ==
  /\ asked = NoAddress /\ sa = NoAddress
  /\ mem = Untouched /\ size = 0 /\ ret = 0

(* What a uint16_t holds                                                   *)
PortMod == 65536

Htons(p) == p % PortMod

(* inet_pton() reads the name, unless it is one of those that mean any.    *)
InitInet(f, wild, name, p) ==
  /\ asked' = Address(f, name, p)
  /\ sa' = CASE name \in wild   -> Address(f, "any", Htons(p))
             [] name = "host"   -> Address(f, "host", Htons(p))
             [] OTHER           -> NoAddress
  /\ ret' = IF sa' = NoAddress THEN 0 ELSE 1
  /\ mem' = Untouched /\ size' = 0

InitIpv4(name, p) == InitInet("ipv4", {"NULL", "", "0", "*"}, name, p)
InitIpv6(name, p) == InitInet("ipv6", {"NULL", "", "*", "::"}, name, p)

(* A null pointer is the path of length 0.                                 *)
InitLocal(l) ==
  /\ asked' = Address("local", "host", 0)
  /\ sa' = IF l > PathSize - 1 THEN NoAddress ELSE asked'
  /\ ret' = IF l > PathSize - 1 THEN 0 ELSE 1
  /\ size' = PathSize
  /\ mem' = IF l > PathSize - 1 THEN Untouched
            ELSE Put(Untouched, 0, Append([i \in 1..l |-> "p"], NUL))

(* inet_ntop() into n bytes from at on                                     *)
Fits(n) == Len(Text[sa.family][sa.addr]) < n
InetNtop(at) == Put(Untouched, at, Append(Text[sa.family][sa.addr], NUL))

(* Slip: the NUL is not counted.                                           *)
AppendPortBrimful(m, l, n) ==
  LET port == PortText(sa.port) IN
  IF l + Len(port) <= n
  THEN mem' = Put(m, l, Append(port, NUL)) /\ ret' = l + Len(port)
  ELSE mem' = m /\ ret' = -1

(* The port goes behind the l characters there are, if it fits.            *)
AppendPort(m, l, n) ==
  LET port == PortText(sa.port) IN
  IF l + Len(port) < n
  THEN mem' = Put(m, l, Append(port, NUL)) /\ ret' = l + Len(port)
  ELSE mem' = m /\ ret' = -1

NtopIpv4(n) ==
  IF Fits(n) THEN AppendPort(InetNtop(0), Strlen(InetNtop(0), 0), n)
  ELSE mem' = Untouched /\ ret' = -1

(* Slips: inet_ntop() is told the size of the whole buffer; the bracket    *)
(* takes the place of the last character.                                  *)
NtopIpv6Whole(n) ==
  IF Fits(n)
  THEN LET m == InetNtop(1)
           l == Strlen(m, 1)
       IN AppendPort([m EXCEPT ![0] = "[", ![l + 1] = "]"], l + 2, n)
  ELSE mem' = Untouched /\ ret' = -1

NtopIpv6Eats(n) ==
  IF Fits((n - 1) % SizeMod)
  THEN LET m == InetNtop(1)
           l == Strlen(m, 1)
       IN AppendPort([m EXCEPT ![0] = "[", ![l] = "]"], l + 1, n)
  ELSE mem' = Untouched /\ ret' = -1

(* "[" in front, and "]" over the NUL, before it is known whether the port *)
(* fits: when it does not, the buffer is left without a NUL. What is left  *)
(* of a buffer of size 0 behind the bracket is SIZE_MAX (socket.c:106).    *)
NtopIpv6(n) ==
  IF Fits((n - 1) % SizeMod)
  THEN LET m == InetNtop(1)
           l == Strlen(m, 1)
       IN AppendPort([m EXCEPT ![0] = "[", ![l + 1] = "]"], l + 2, n)
  ELSE mem' = Untouched /\ ret' = -1

SancusSocketNtop(n) ==
  /\ sa # NoAddress
  /\ size' = n
  /\ CASE sa.family = "ipv4" -> NtopIpv4(n)
       [] sa.family = "ipv6" -> NtopIpv6(n)
       [] OTHER              -> mem' = Untouched /\ ret' = -1
  /\ UNCHANGED <<asked, sa>>

Next ==
  \/ \E name \in Names, p \in Ports : InitIpv4(name, p) \/ InitIpv6(name, p)
  \/ \E l \in Paths : InitLocal(l)
  \/ \E n \in Sizes : SancusSocketNtop(n)

Spec == Init /\ [][Next]_vars

-----------------------------------------------------------------------------
(* Properties.                                                             *)

TypeOK ==
  /\ asked.addr \in Names \cup {"any"}
  /\ sa \in [family : {"none", "ipv4", "ipv6", "local"},
             addr : {"any", "host"}, port : 0..PortMod - 1]
  /\ size \in Sizes \cup {0, PathSize}
  /\ ret \in {-1, 0, 1} \cup 0..size - 1

(* Nothing is written past the end, of sun_path or of the caller's buffer, *)
(* in calls that succeed as in calls that fail half way, with the one      *)
(* exception socket.c:106 leaves: an IPv6 address and a buffer of size 0.  *)
(* All the call writes is outside then, although it returns -1.            *)
WritesInside ==
  \A i \in DOMAIN mem :
    mem[i] # Stale => i < size \/ (size = 0 /\ sa.family = "ipv6")

Bracketed(s) == <<"[">> \o s \o <<"]">>

AskedText ==
  LET text == Text[asked.family][IF asked.addr = "host" THEN "host" ELSE "any"]
  IN (IF asked.family = "ipv4" THEN text ELSE Bracketed(text)) \o PortText(asked.port)

(* A port and an address that were accepted come out as they went in, as   *)
(* addr:port or [addr]:port (socket.c:87, :105), with a NUL behind, in     *)
(* every buffer that has room for them, and in no other.                   *)
TextAsAsked ==
  [][\A n \in Sizes :
       SancusSocketNtop(n) /\ sa.family # "local" /\ asked.port < PortMod =>
         IF Len(AskedText) < n
         THEN /\ ret' = Len(AskedText)
              /\ mem'[ret'] = NUL
              /\ \A i \in DOMAIN AskedText : mem'[i - 1] = AskedText[i]
         ELSE ret' = -1]_vars
=============================================================================
