------------------------------ MODULE SafeClient ------------------------------
(***************************************************************************)
(* SafeHTTPClient of internal/canary/safeclient.go: ValidateURL checks a   *)
(* target and the addresses its name has at that moment, the transport     *)
(* looks the name up again whenever it dials and checks again, connections *)
(* are kept and reused, and no redirect is followed.                       *)
(*                                                                         *)
(* A call of the client is one ValidateURL followed by one Do, as in       *)
(* validateRequest with send, and in fetchSpecDocument.                    *)
(*                                                                         *)
(* External: the resolver may answer anything at any time; net/http dials  *)
(* beside the calls that wait for a connection and gives them any that is  *)
(* open for the same scheme, host and port.                                *)
(***************************************************************************)
EXTENDS Naturals, Sequences, FiniteSets

CONSTANTS
  Calls,
  Names,                \* host names, which have no addresses of their own
  Addresses,            \* [width, units, zone]: <<192, 0, 2, 1>> in units of 8 bits, or
                        \* eight units of 16 bits, with or without a zone (fe80::1%eth0)
  URLs,                 \* what ValidateURL may be given
  LookUps,              \* what the resolver may answer: sequences of addresses
  AllowHTTP, AllowPrivateTargets,   \* TargetPolicy
  MaxConnections,       \* bound on the open connections
  None

Octets == 0 .. 255
Words == {n \in Nat : n < 65536}

AddressType ==
  [width : {8}, units : [1 .. 4 -> Octets], zone : {FALSE}]
  \cup [width : {16}, units : [1 .. 8 -> Words], zone : BOOLEAN]

Hosts == Names \cup Addresses
Ports == {"443", "80", "8443"}

URLType == [wellFormed : BOOLEAN, credentials : BOOLEAN, fragment : BOOLEAN,
            scheme : {"https", "http", "ftp"}, host : Hosts, port : Ports \cup {""}]

ASSUME ClientAssumption ==
  /\ URLs \subseteq URLType
  /\ LookUps \subseteq Seq(Addresses)
  /\ Addresses \subseteq AddressType
  /\ AllowHTTP \in BOOLEAN /\ AllowPrivateTargets \in BOOLEAN
  /\ MaxConnections \in Nat \ {0}
  /\ None \notin URLs

VARIABLES
  stage,      \* of each call: "idle", "sending", "sent", "answered", "failed",
              \* "invalid", or "prohibited" when an address was the reason
  target,     \* its URL, or None
  answer,     \* what the last look-up for it said
  used,       \* the connection its request went out on, or None
  open,       \* the connections of the transport
  attempted   \* the addresses its last dial tried to connect to

vars == <<stage, target, answer, used, open, attempted>>

Connections == [scheme : {"https", "http"}, host : Hosts, port : Ports, address : Addresses]

TypeOK ==
  /\ stage \in [Calls -> {"idle", "sending", "sent", "answered", "failed",
                          "invalid", "prohibited"}]
  /\ target \in [Calls -> URLs \cup {None}]
  /\ \A c \in Calls : stage[c] \in {"sending", "sent"} => target[c] # None
  /\ answer \in [Calls -> Seq(Addresses)]
  /\ used \in [Calls -> Connections \cup {None}]
  /\ open \subseteq Connections
  /\ attempted \in [Calls -> SUBSET Addresses]

Init ==
  /\ stage = [c \in Calls |-> "idle"]
  /\ target = [c \in Calls |-> None]
  /\ answer = [c \in Calls |-> << >>]
  /\ used = [c \in Calls |-> None]
  /\ open = {}
  /\ attempted = [c \in Calls |-> {}]

-----------------------------------------------------------------------------
(* Addresses *)

IPv4(a, b, c, d) == [width |-> 8, units |-> <<a, b, c, d>>, zone |-> FALSE]
IPv6(units) == [width |-> 16, units |-> units, zone |-> FALSE]
Zoned(ip) == [ip EXCEPT !.zone = TRUE]

\* Mutation: an IPv4 address in IPv6 form keeps its form.
KeepMapped(ip) == ip

\* ::ffff:a.b.c.d is the IPv4 address a.b.c.d, which has no zone.
Unmap(ip) ==
  IF ip.width = 16 /\ SubSeq(ip.units, 1, 6) = <<0, 0, 0, 0, 0, 65535>>
  THEN IPv4(ip.units[7] \div 256, ip.units[7] % 256, ip.units[8] \div 256, ip.units[8] % 256)
  ELSE ip

\* Mutation: a prefix is compared one bit short.
InRangeShort(prefix, ip) ==
  /\ ip.width = prefix.of.width
  /\ \A i \in 1 .. Len(ip.units) :
       LET before == (i - 1) * ip.width
           bits == IF prefix.bits <= before + 1 THEN 0
                   ELSE IF prefix.bits > before + ip.width THEN ip.width
                   ELSE prefix.bits - before - 1
           rest == 2 ^ (ip.width - bits)
       IN  ip.units[i] \div rest = prefix.of.units[i] \div rest

\* The families are distinct; the first bits must agree, unit by unit.
InRange(prefix, ip) ==
  /\ ip.width = prefix.of.width
  /\ \A i \in 1 .. Len(ip.units) :
       LET before == (i - 1) * ip.width
           bits == IF prefix.bits <= before THEN 0
                   ELSE IF prefix.bits >= before + ip.width THEN ip.width
                   ELSE prefix.bits - before
           rest == 2 ^ (ip.width - bits)
       IN  ip.units[i] \div rest = prefix.of.units[i] \div rest

\* Prefix.Contains is false for every address with a zone.
Contains(prefix, ip) == ~ip.zone /\ InRange(prefix, ip)

Prefix4(a, b, c, d, bits) == [of |-> IPv4(a, b, c, d), bits |-> bits]
Prefix6(a, b, c, bits) == [of |-> IPv6(<<a, b, c, 0, 0, 0, 0, 0>>), bits |-> bits]

Unspecified == IPv6(<<0, 0, 0, 0, 0, 0, 0, 0>>)

\* What IsGlobalUnicast, IsPrivate, IsLoopback and IsLinkLocalUnicast of net/netip exclude
\* by the bits of an address.  IsGlobalUnicast excludes :: too, by comparing for equality.
NotUnicast ==
  { Prefix4(0, 0, 0, 0, 32), Prefix4(255, 255, 255, 255, 32), Prefix4(224, 0, 0, 0, 4),
    Prefix4(10, 0, 0, 0, 8), Prefix4(172, 16, 0, 0, 12), Prefix4(192, 168, 0, 0, 16),
    Prefix4(127, 0, 0, 0, 8), Prefix4(169, 254, 0, 0, 16),
    [of |-> IPv6(<<0, 0, 0, 0, 0, 0, 0, 1>>), bits |-> 128],
    Prefix6(65280, 0, 0, 8), Prefix6(64512, 0, 0, 7), Prefix6(65152, 0, 0, 10) }

Prohibited ==
  { Prefix4(0, 0, 0, 0, 8), Prefix4(100, 64, 0, 0, 10), Prefix4(192, 0, 0, 0, 24),
    Prefix4(192, 0, 2, 0, 24), Prefix4(198, 18, 0, 0, 15), Prefix4(198, 51, 100, 0, 24),
    Prefix4(203, 0, 113, 0, 24),
    Prefix6(100, 65435, 0, 96), Prefix6(100, 65435, 1, 48), Prefix6(8193, 3512, 0, 32) }

\* Unmap leaves the zone of an address that is not an IPv4 address.
IsSafePublicIP(ip) ==
  /\ Unmap(ip) # Unspecified
  /\ \A prefix \in NotUnicast : ~InRange(prefix, Unmap(ip))
  /\ \A prefix \in Prohibited : ~Contains(prefix, Unmap(ip))

-----------------------------------------------------------------------------
(* Look-ups *)

\* A literal address stands for itself, with its zone.
Answers(host) == IF host \in Addresses THEN {<<host>>} ELSE LookUps

Normalized(ips) == [i \in 1 .. Len(ips) |-> Unmap(ips[i])]

\* Every address of the answer has to be safe.
AllAllowed(ips) ==
  AllowPrivateTargets \/ \A i \in 1 .. Len(ips) : IsSafePublicIP(Unmap(ips[i]))

-----------------------------------------------------------------------------
(* ValidateURL *)

\* Mutation: any port will do.
AnyPort(u) == TRUE

PortAllowed(u) ==
  \/ u.port = ""
  \/ u.scheme = "https" /\ u.port = "443"
  \/ u.scheme = "http" /\ (u.port = "80" \/ AllowPrivateTargets)

URLAllowed(u) ==
  /\ u.wellFormed
  /\ ~u.credentials
  /\ ~u.fragment
  /\ u.scheme = "https" \/ (AllowHTTP /\ u.scheme = "http")
  /\ PortAllowed(u)

\* Ask(c, u, s, ips): the call is about u now, its look-up said ips, it goes to s.
Ask(c, u, s, ips) ==
  /\ target' = [target EXCEPT ![c] = u]
  /\ stage' = [stage EXCEPT ![c] = s]
  /\ answer' = [answer EXCEPT ![c] = ips]
  /\ UNCHANGED <<used, open, attempted>>

Idle(c) == stage[c] = "idle"

\* The caller is through with the answer or the error, and has another target.
Again(c) ==
  /\ stage[c] \notin {"idle", "sending", "sent"}
  /\ stage' = [stage EXCEPT ![c] = "idle"]
  /\ target' = [target EXCEPT ![c] = None]
  /\ answer' = [answer EXCEPT ![c] = << >>]
  /\ used' = [used EXCEPT ![c] = None]
  /\ attempted' = [attempted EXCEPT ![c] = {}]
  /\ UNCHANGED open

RefuseURL(c, u) ==
  /\ Idle(c)
  /\ ~URLAllowed(u)
  /\ Ask(c, u, "invalid", << >>)

\* The look-up fails or finds no address.
FailLookUp(c, u) ==
  /\ Idle(c)
  /\ URLAllowed(u)
  /\ u.host \in Names
  /\ Ask(c, u, "invalid", << >>)

RefuseAddress(c, u) ==
  /\ Idle(c)
  /\ URLAllowed(u)
  /\ \E ips \in Answers(u.host) \ {<< >>} : ~AllAllowed(ips) /\ Ask(c, u, "prohibited", ips)

Validate(c, u) ==
  /\ Idle(c)
  /\ URLAllowed(u)
  /\ \E ips \in Answers(u.host) \ {<< >>} : AllAllowed(ips) /\ Ask(c, u, "sending", ips)

-----------------------------------------------------------------------------
(* Do *)

PortOf(u) ==
  IF u.port # "" THEN u.port ELSE IF u.scheme = "https" THEN "443" ELSE "80"

Connection(u, ip) ==
  [scheme |-> u.scheme, host |-> u.host, port |-> PortOf(u), address |-> ip]

\* Mutation: the dialler trusts what ValidateURL has seen, and dials by name.
DialByName(c) ==
  /\ stage[c] = "sending"
  /\ Cardinality(open) < MaxConnections
  /\ \E ips \in Answers(target[c].host) \ {<< >>} :
       /\ attempted' = [attempted EXCEPT ![c] = {Unmap(ips[1])}]
       /\ open' = open \cup {Connection(target[c], Unmap(ips[1]))}
  /\ UNCHANGED <<stage, target, answer, used>>

\* DialContext looks the name up again and checks that answer as a whole, then
\* tries its addresses in turn; all may fail, or the answer may be refused.
Dial(c) ==
  /\ stage[c] = "sending"
  /\ Cardinality(open) < MaxConnections
  /\ \E ips \in Answers(target[c].host) \ {<< >>} :
       /\ AllAllowed(ips)
       /\ \E i \in 1 .. Len(ips) :
            /\ attempted' = [attempted EXCEPT ![c] = {Normalized(ips)[j] : j \in 1 .. i}]
            /\ open' \in {open, open \cup {Connection(target[c], Normalized(ips)[i])}}
  /\ UNCHANGED <<stage, target, answer, used>>

\* The request, with its payment header if it has one, goes out on a connection
\* that is open for its scheme, host and port, whoever dialled it.
Send(c) ==
  /\ stage[c] = "sending"
  /\ \E k \in open :
       /\ k = Connection(target[c], k.address)
       /\ used' = [used EXCEPT ![c] = k]
  /\ stage' = [stage EXCEPT ![c] = "sent"]
  /\ UNCHANGED <<target, answer, open, attempted>>

\* The first answer is the last one, also if it is a redirect.
Receive(c) ==
  /\ stage[c] = "sent"
  /\ stage' = [stage EXCEPT ![c] = "answered"]
  /\ UNCHANGED <<target, answer, used, open, attempted>>

\* A connection that breaks takes its request along; net/http may send it again.
Resend(c) ==
  /\ stage[c] = "sent"
  /\ stage' = [stage EXCEPT ![c] = "sending"]
  /\ open' = open \ {used[c]}
  /\ UNCHANGED <<target, answer, used, attempted>>

\* A dial or a request fails, or the time for both is over.
Fail(c) ==
  /\ stage[c] \in {"sending", "sent"}
  /\ stage' = [stage EXCEPT ![c] = "failed"]
  /\ UNCHANGED <<target, answer, used, open, attempted>>

\* A connection is closed by the peer, or idle for too long, or one too many.
Close(k) ==
  /\ open' = open \ {k}
  /\ UNCHANGED <<stage, target, answer, used, attempted>>

CallStep(c) ==
  \/ \E u \in URLs : RefuseURL(c, u) \/ FailLookUp(c, u) \/ RefuseAddress(c, u) \/ Validate(c, u)
  \/ Dial(c) \/ Send(c) \/ Receive(c) \/ Resend(c) \/ Fail(c) \/ Again(c)

Next == (\E c \in Calls : CallStep(c)) \/ (\E k \in open : Close(k))

Spec == Init /\ [][Next]_vars

-----------------------------------------------------------------------------
(* Properties *)

\* The addresses to keep away from, unit by unit: this network, private, loopback,
\* multicast, shared, link-local, benchmarking, protocol and documentation addresses,
\* and the broadcast address.
Reserved4(u) ==
  \/ u[1] \in {0, 10, 127} \cup 224 .. 239
  \/ u[1] = 100 /\ u[2] \in 64 .. 127
  \/ u[1] = 172 /\ u[2] \in 16 .. 31
  \/ u[1] = 198 /\ u[2] \in 18 .. 19
  \/ <<u[1], u[2]>> \in {<<169, 254>>, <<192, 168>>}
  \/ <<u[1], u[2], u[3]>> \in {<<192, 0, 0>>, <<192, 0, 2>>, <<198, 51, 100>>, <<203, 0, 113>>}
  \/ \A i \in 1 .. 4 : u[i] = 255

\* Likewise in IPv6.
Local6(u) ==
  \/ u[1] \in 64512 .. 65023 \cup 65152 .. 65215 \cup 65280 .. 65535
  \/ (\A i \in 1 .. 7 : u[i] = 0) /\ u[8] = 1

\* Documentation and the prefixes of NAT64.
Listed6(u) ==
  \/ u[1] = 8193 /\ u[2] = 3512
  \/ u[1] = 100 /\ u[2] = 65435 /\ (u[3] = 1 \/ \A i \in 3 .. 6 : u[i] = 0)

\* ::ffff:a.b.c.d is what a.b.c.d is.
Mapped6(u) == (\A i \in 1 .. 5 : u[i] = 0) /\ u[6] = 65535
Inner(u) == <<u[7] \div 256, u[7] % 256, u[8] \div 256, u[8] % 256>>

Reserved(ip) ==
  IF ip.width = 8 THEN Reserved4(ip.units)
  ELSE \/ Local6(ip.units) \/ Listed6(ip.units) \/ ip.units = Unspecified.units
       \/ Mapped6(ip.units) /\ Reserved4(Inner(ip.units))

\* With a zone an address is in no prefix and is not ::, so the code lets it through.
LiftedByZone(ip) ==
  ip.width = 16 /\ ip.zone /\ (Listed6(ip.units) \/ ip.units = Unspecified.units)

\* The addresses that are tried, and those that a connection is open or used to.
Reached ==
  (UNION {attempted[c] : c \in Calls})
  \cup {k.address : k \in (open \cup {used[c] : c \in Calls}) \ {None}}

\* Whatever a name resolves to and whenever it changes, nothing is reached that is
\* reserved, but for what a zone lifts, unless the policy says so
\* (safeclient.go:32-50, 102-126, 151).
ReachesOnlyAllowed ==
  AllowPrivateTargets \/ \A ip \in Reached : Reserved(ip) => LiftedByZone(ip)

\* README.md:215: "documentation, carrier-grade NAT, IPv4-mapped IPv6, and standard NAT64
\* translation ranges are blocked."  Those of IPv6 are not where an address has a zone
\* (safeclient.go:144-151).
RangesAreBlocked ==
  AllowPrivateTargets \/ \A ip \in Reached : ~(ip.width = 16 /\ Listed6(ip.units))

\* A target is refused for its address only if it has one that is reserved: the
\* ranges reach no further than they should, in either family (safeclient.go:128-156).
RefusesOnlyProhibited ==
  \A c \in Calls : stage[c] = "prohibited" =>
    \E i \in 1 .. Len(answer[c]) : Reserved(answer[c][i])

\* The port is the one of the scheme, but for http to a private target
\* (safeclient.go:89-95).
StandardPorts ==
  \A k \in open :
    \/ k.scheme = "https" /\ k.port = "443"
    \/ k.scheme = "http" /\ AllowHTTP /\ (k.port = "80" \/ AllowPrivateTargets)

=============================================================================
