----------------------------- MODULE MCSafeClient -----------------------------
(* SafeClient for TLC: two calls, two names that change between public and     *)
(* private addresses, and URLs of every kind; and every address at the end of  *)
(* a range and next to it.                                                     *)
EXTENDS SafeClient

CONSTANTS c1, c2, name, other

TwoCalls == {c1, c2}
BothNames == {name, other}

\* The last address before each range and the first one after it, where that is
\* not in another range.
Neighbours ==
  { IPv4(1, 0, 0, 0), IPv4(9, 255, 255, 255), IPv4(11, 0, 0, 0),
    IPv4(100, 63, 255, 255), IPv4(100, 128, 0, 0), IPv4(126, 255, 255, 255),
    IPv4(128, 0, 0, 0), IPv4(169, 253, 255, 255), IPv4(169, 255, 0, 0),
    IPv4(172, 15, 255, 255), IPv4(172, 32, 0, 0), IPv4(191, 255, 255, 255),
    IPv4(192, 0, 1, 0), IPv4(192, 0, 1, 255), IPv4(192, 0, 3, 0),
    IPv4(192, 167, 255, 255), IPv4(192, 169, 0, 0), IPv4(198, 17, 255, 255),
    IPv4(198, 20, 0, 0), IPv4(198, 51, 99, 255), IPv4(198, 51, 101, 0),
    IPv4(203, 0, 112, 255), IPv4(203, 0, 114, 0), IPv4(223, 255, 255, 255) }

Neighbours6 ==
  { IPv6(<<0, 0, 0, 0, 0, 0, 0, 2>>), IPv6(<<100, 65434, 65535, 65535, 65535, 65535, 65535, 65535>>),
    IPv6(<<100, 65435, 0, 0, 0, 1, 0, 0>>), IPv6(<<100, 65435, 2, 0, 0, 0, 0, 0>>),
    IPv6(<<8193, 3511, 65535, 65535, 65535, 65535, 65535, 65535>>),
    IPv6(<<8193, 3513, 0, 0, 0, 0, 0, 0>>),
    IPv6(<<64511, 65535, 65535, 65535, 65535, 65535, 65535, 65535>>),
    IPv6(<<65024, 0, 0, 0, 0, 0, 0, 0>>),
    IPv6(<<65151, 65535, 65535, 65535, 65535, 65535, 65535, 65535>>),
    IPv6(<<65216, 0, 0, 0, 0, 0, 0, 0>>),
    IPv6(<<65279, 65535, 65535, 65535, 65535, 65535, 65535, 65535>>) }

\* The first and the last address of each range.
Edges ==
  { IPv4(0, 0, 0, 0), IPv4(0, 255, 255, 255), IPv4(10, 0, 0, 0), IPv4(10, 255, 255, 255),
    IPv4(100, 64, 0, 0), IPv4(100, 127, 255, 255), IPv4(127, 0, 0, 0),
    IPv4(127, 255, 255, 255), IPv4(169, 254, 0, 0), IPv4(169, 254, 255, 255),
    IPv4(172, 16, 0, 0), IPv4(172, 31, 255, 255), IPv4(192, 0, 0, 0), IPv4(192, 0, 0, 255),
    IPv4(192, 0, 2, 0), IPv4(192, 0, 2, 255), IPv4(192, 168, 0, 0), IPv4(192, 168, 255, 255),
    IPv4(198, 18, 0, 0), IPv4(198, 19, 255, 255), IPv4(198, 51, 100, 0),
    IPv4(198, 51, 100, 255), IPv4(203, 0, 113, 0), IPv4(203, 0, 113, 255),
    IPv4(224, 0, 0, 0), IPv4(239, 255, 255, 255), IPv4(255, 255, 255, 255) }

Edges6 ==
  { IPv6(<<0, 0, 0, 0, 0, 0, 0, 0>>), IPv6(<<0, 0, 0, 0, 0, 0, 0, 1>>),
    IPv6(<<100, 65435, 0, 0, 0, 0, 0, 0>>), IPv6(<<100, 65435, 0, 0, 0, 0, 65535, 65535>>),
    IPv6(<<100, 65435, 1, 0, 0, 0, 0, 0>>),
    IPv6(<<100, 65435, 1, 65535, 65535, 65535, 65535, 65535>>),
    IPv6(<<8193, 3512, 0, 0, 0, 0, 0, 0>>),
    IPv6(<<8193, 3512, 65535, 65535, 65535, 65535, 65535, 65535>>),
    IPv6(<<64512, 0, 0, 0, 0, 0, 0, 0>>),
    IPv6(<<65023, 65535, 65535, 65535, 65535, 65535, 65535, 65535>>),
    IPv6(<<65152, 0, 0, 0, 0, 0, 0, 0>>),
    IPv6(<<65215, 65535, 65535, 65535, 65535, 65535, 65535, 65535>>),
    IPv6(<<65280, 0, 0, 0, 0, 0, 0, 0>>),
    IPv6(<<65535, 65535, 65535, 65535, 65535, 65535, 65535, 65535>>) }

Mapped(ip) ==
  IPv6(<<0, 0, 0, 0, 0, 65535, ip.units[1] * 256 + ip.units[2], ip.units[3] * 256 + ip.units[4]>>)

\* Every form of those: IPv4 in IPv6, and IPv6 with a zone.
Forms(four, six) ==
  LET long == six \cup {Mapped(ip) : ip \in four} IN
  four \cup long \cup {Zoned(ip) : ip \in long}

Ranged == Forms(Edges \cup Neighbours, Edges6 \cup Neighbours6)

\* What is reserved, told by the edges of the ranges.
ASSUME EdgesAssumption ==
  /\ \A ip \in Forms(Edges, Edges6) : Reserved(ip)
  /\ \A ip \in Forms(Neighbours, Neighbours6) : ~Reserved(ip)

Plain == [wellFormed |-> TRUE, credentials |-> FALSE, fragment |-> FALSE,
          scheme |-> "https", host |-> name, port |-> ""]

RangeURLs == {[Plain EXCEPT !.host = ip] : ip \in Ranged}

\* A public and a private address and the private one in IPv6 form, in every order.
Shop == IPv4(8, 8, 8, 8)
Metadata == IPv4(169, 254, 169, 254)
FewAddresses == {Shop, Metadata, Mapped(Metadata)}
FewLookUps == {<<a>> : a \in FewAddresses} \cup {<<a, b>> : a, b \in FewAddresses} \cup {<< >>}

FewURLs ==
  { Plain, [Plain EXCEPT !.host = other], [Plain EXCEPT !.host = Mapped(Metadata)],
    [Plain EXCEPT !.port = "8443"], [Plain EXCEPT !.scheme = "http"],
    [Plain EXCEPT !.scheme = "http", !.port = "8443"],
    [Plain EXCEPT !.credentials = TRUE], [Plain EXCEPT !.scheme = "ftp"] }

MCAddresses == FewAddresses \cup Ranged
MCURLs == FewURLs \cup RangeURLs

\* A literal address of a range is asked for alone: it shares nothing with the rest.
RangesAlone ==
  \/ /\ \A c \in Calls : target[c] \notin RangeURLs
     /\ \A k \in open : k.host \in Names
  \/ /\ target[c1] \in RangeURLs /\ target[c2] = None
     /\ \A k \in open : k.host = target[c1].host

MCSpec == Init /\ [][Next /\ RangesAlone']_vars

=============================================================================
