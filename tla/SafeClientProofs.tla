--------------------------- MODULE SafeClientProofs ---------------------------
(***************************************************************************)
(* The ranges of IsSafePublicIP, prefix by prefix, are the ones Reserved   *)
(* names unit by unit, but for what a zone lifts, for every address; and   *)
(* what SafeClient connects to, for any calls, URLs and answers of a       *)
(* resolver.                                                               *)
(***************************************************************************)
EXTENDS SafeClient, SequenceTheorems, TLAPS

-----------------------------------------------------------------------------
(* Prefixes *)

\* The unit at i agrees with the one of a prefix, in the bits the prefix fixes.
Agree(unit, of, width, bits, i) ==
  LET before == (i - 1) * width
      fixed == IF bits <= before THEN 0
               ELSE IF bits >= before + width THEN width
               ELSE bits - before
      rest == 2 ^ (width - fixed)
  IN  unit \div rest = of \div rest

Address4(u) == [width |-> 8, units |-> u, zone |-> FALSE]
Address6(u, z) == [width |-> 16, units |-> u, zone |-> z]

\* InRange, unit by unit, for an IPv4 prefix.
LEMMA InRange4 ==
  ASSUME NEW u \in [1 .. 4 -> Octets], NEW p1, NEW p2, NEW p3, NEW p4, NEW bits
  PROVE  InRange(Prefix4(p1, p2, p3, p4, bits), Address4(u)) <=>
           /\ Agree(u[1], p1, 8, bits, 1) /\ Agree(u[2], p2, 8, bits, 2)
           /\ Agree(u[3], p3, 8, bits, 3) /\ Agree(u[4], p4, 8, bits, 4)
<1>. DEFINE prefix == Prefix4(p1, p2, p3, p4, bits)
<1>1. prefix.of.units = <<p1, p2, p3, p4>> /\ prefix.of.width = 8 /\ prefix.bits = bits
  BY DEF Prefix4, IPv4
<1>2. Len(u) = 4
  OBVIOUS
<1>. HIDE DEF prefix
<1>3. InRange(prefix, Address4(u)) <=>
        /\ prefix.of.width = 8
        /\ \A i \in 1 .. 4 : Agree(u[i], prefix.of.units[i], 8, prefix.bits, i)
  BY <1>2 DEF InRange, Agree, Address4
<1>. QED  BY <1>1, <1>3 DEF prefix

\* Likewise for an IPv6 prefix; those in use fix the first three units, or all.
LEMMA InRange6 ==
  ASSUME NEW u \in [1 .. 8 -> Words], NEW z, NEW a, NEW b, NEW c, NEW d, NEW bits
  PROVE  InRange([of |-> IPv6(<<a, b, c, 0, 0, 0, 0, d>>), bits |-> bits], Address6(u, z)) <=>
           /\ Agree(u[1], a, 16, bits, 1) /\ Agree(u[2], b, 16, bits, 2)
           /\ Agree(u[3], c, 16, bits, 3) /\ Agree(u[4], 0, 16, bits, 4)
           /\ Agree(u[5], 0, 16, bits, 5) /\ Agree(u[6], 0, 16, bits, 6)
           /\ Agree(u[7], 0, 16, bits, 7) /\ Agree(u[8], d, 16, bits, 8)
<1>. DEFINE prefix == [of |-> IPv6(<<a, b, c, 0, 0, 0, 0, d>>), bits |-> bits]
<1>1. /\ prefix.of.units = <<a, b, c, 0, 0, 0, 0, d>>
      /\ prefix.of.width = 16 /\ prefix.bits = bits
  BY DEF IPv6
<1>2. Len(u) = 8
  OBVIOUS
<1>. HIDE DEF prefix
<1>3. InRange(prefix, Address6(u, z)) <=>
        /\ prefix.of.width = 16
        /\ \A i \in 1 .. 8 : Agree(u[i], prefix.of.units[i], 16, prefix.bits, i)
  BY <1>2 DEF InRange, Agree, Address6
<1>. QED  BY <1>1, <1>3 DEF prefix

\* No address is in a prefix of the other family.
LEMMA FamiliesAreApart ==
  ASSUME NEW u, NEW z, NEW a, NEW b, NEW c, NEW d, NEW bits
  PROVE  /\ ~InRange([of |-> IPv6(<<a, b, c, 0, 0, 0, 0, d>>), bits |-> bits], Address4(u))
         /\ ~InRange(Prefix4(a, b, c, d, bits), Address6(u, z))
  BY DEF InRange, Prefix4, IPv4, IPv6, Address4, Address6

\* The IPv4 prefixes that end inside a unit.
LEMMA Parts4 ==
  ASSUME NEW x \in Nat, x < 256
  PROVE  /\ Agree(x, 224, 8, 4, 1) <=> x \in 224 .. 239
         /\ Agree(x, 16, 8, 12, 2) <=> x \in 16 .. 31
         /\ Agree(x, 64, 8, 10, 2) <=> x \in 64 .. 127
         /\ Agree(x, 18, 8, 15, 2) <=> x \in 18 .. 19
  BY DEF Agree

\* The IPv6 prefixes that end inside a unit.
LEMMA Parts6 ==
  ASSUME NEW x \in Nat, x < 65536
  PROVE  /\ Agree(x, 65280, 16, 8, 1) <=> x \in 65280 .. 65535
         /\ Agree(x, 64512, 16, 7, 1) <=> x \in 64512 .. 65023
         /\ Agree(x, 65152, 16, 10, 1) <=> x \in 65152 .. 65215
  BY DEF Agree

\* The IPv4 ranges are exact (safeclient.go:128-156).
LEMMA Ranges4 ==
  ASSUME NEW u \in [1 .. 4 -> Octets]
  PROVE  (\E prefix \in NotUnicast \cup Prohibited : InRange(prefix, Address4(u)))
           <=> Reserved4(u)
<1>. DEFINE In(a, b, c, d, bits) == InRange(Prefix4(a, b, c, d, bits), Address4(u))
            In6(a, b, c, d, bits) ==
              InRange([of |-> IPv6(<<a, b, c, 0, 0, 0, 0, d>>), bits |-> bits], Address4(u))
<1>0. (\E prefix \in NotUnicast \cup Prohibited : InRange(prefix, Address4(u))) <=>
        \/ In(0, 0, 0, 0, 32) \/ In(255, 255, 255, 255, 32) \/ In(224, 0, 0, 0, 4)
        \/ In(10, 0, 0, 0, 8) \/ In(172, 16, 0, 0, 12) \/ In(192, 168, 0, 0, 16)
        \/ In(127, 0, 0, 0, 8) \/ In(169, 254, 0, 0, 16) \/ In(0, 0, 0, 0, 8)
        \/ In(100, 64, 0, 0, 10) \/ In(192, 0, 0, 0, 24) \/ In(192, 0, 2, 0, 24)
        \/ In(198, 18, 0, 0, 15) \/ In(198, 51, 100, 0, 24) \/ In(203, 0, 113, 0, 24)
        \/ In6(0, 0, 0, 1, 128) \/ In6(65280, 0, 0, 0, 8)
        \/ In6(64512, 0, 0, 0, 7) \/ In6(65152, 0, 0, 0, 10) \/ In6(100, 65435, 0, 0, 96)
        \/ In6(100, 65435, 1, 0, 48) \/ In6(8193, 3512, 0, 0, 32)
  BY DEF NotUnicast, Prohibited, Prefix6
<1>1. u[1] \in 0 .. 255 /\ u[2] \in 0 .. 255 /\ u[3] \in 0 .. 255 /\ u[4] \in 0 .. 255
  BY DEF Octets
<1>2. \A a, b, c, d, bits : In(a, b, c, d, bits) <=>
        /\ Agree(u[1], a, 8, bits, 1) /\ Agree(u[2], b, 8, bits, 2)
        /\ Agree(u[3], c, 8, bits, 3) /\ Agree(u[4], d, 8, bits, 4)
  BY InRange4
<1>3. \A a, b, c, d, bits : ~In6(a, b, c, d, bits)
  BY FamiliesAreApart
<1>. HIDE DEF In, In6
<1>4. In(0, 0, 0, 0, 32) <=> u[1] = 0 /\ u[2] = 0 /\ u[3] = 0 /\ u[4] = 0
  BY <1>1, <1>2 DEF Agree
<1>5. In(255, 255, 255, 255, 32) <=> u[1] = 255 /\ u[2] = 255 /\ u[3] = 255 /\ u[4] = 255
  BY <1>1, <1>2 DEF Agree
<1>6. In(224, 0, 0, 0, 4) <=> u[1] \in 224 .. 239
  <2>1. Agree(u[2], 0, 8, 4, 2) /\ Agree(u[3], 0, 8, 4, 3) /\ Agree(u[4], 0, 8, 4, 4)
    BY <1>1 DEF Agree
  <2>. QED  BY <1>1, <1>2, <2>1, Parts4
<1>7. In(10, 0, 0, 0, 8) <=> u[1] = 10
  BY <1>1, <1>2 DEF Agree
<1>8. In(172, 16, 0, 0, 12) <=> u[1] = 172 /\ u[2] \in 16 .. 31
  <2>1. (Agree(u[1], 172, 8, 12, 1) <=> u[1] = 172) /\ Agree(u[3], 0, 8, 12, 3) /\ Agree(u[4], 0, 8, 12, 4)
    BY <1>1 DEF Agree
  <2>. QED  BY <1>1, <1>2, <2>1, Parts4
<1>9. In(192, 168, 0, 0, 16) <=> u[1] = 192 /\ u[2] = 168
  BY <1>1, <1>2 DEF Agree
<1>10. In(127, 0, 0, 0, 8) <=> u[1] = 127
  BY <1>1, <1>2 DEF Agree
<1>11. In(169, 254, 0, 0, 16) <=> u[1] = 169 /\ u[2] = 254
  BY <1>1, <1>2 DEF Agree
<1>12. In(0, 0, 0, 0, 8) <=> u[1] = 0
  BY <1>1, <1>2 DEF Agree
<1>13. In(100, 64, 0, 0, 10) <=> u[1] = 100 /\ u[2] \in 64 .. 127
  <2>1. (Agree(u[1], 100, 8, 10, 1) <=> u[1] = 100) /\ Agree(u[3], 0, 8, 10, 3) /\ Agree(u[4], 0, 8, 10, 4)
    BY <1>1 DEF Agree
  <2>. QED  BY <1>1, <1>2, <2>1, Parts4
<1>14. In(192, 0, 0, 0, 24) <=> u[1] = 192 /\ u[2] = 0 /\ u[3] = 0
  BY <1>1, <1>2 DEF Agree
<1>15. In(192, 0, 2, 0, 24) <=> u[1] = 192 /\ u[2] = 0 /\ u[3] = 2
  BY <1>1, <1>2 DEF Agree
<1>16. In(198, 18, 0, 0, 15) <=> u[1] = 198 /\ u[2] \in 18 .. 19
  <2>1. (Agree(u[1], 198, 8, 15, 1) <=> u[1] = 198) /\ Agree(u[3], 0, 8, 15, 3) /\ Agree(u[4], 0, 8, 15, 4)
    BY <1>1 DEF Agree
  <2>. QED  BY <1>1, <1>2, <2>1, Parts4
<1>17. In(198, 51, 100, 0, 24) <=> u[1] = 198 /\ u[2] = 51 /\ u[3] = 100
  BY <1>1, <1>2 DEF Agree
<1>18. In(203, 0, 113, 0, 24) <=> u[1] = 203 /\ u[2] = 0 /\ u[3] = 113
  BY <1>1, <1>2 DEF Agree
<1>. QED  BY <1>0, <1>1, <1>3, <1>4, <1>5, <1>6, <1>7, <1>8, <1>9, <1>10, <1>11, <1>12, <1>13, <1>14, <1>15, <1>16, <1>17, <1>18
          DEF Reserved4

\* The IPv6 ranges are exact, those of net/netip and those of the list
\* (safeclient.go:128-156).
LEMMA Ranges6 ==
  ASSUME NEW u \in [1 .. 8 -> Words], NEW z
  PROVE  /\ (\E prefix \in NotUnicast : InRange(prefix, Address6(u, z))) <=> Local6(u)
         /\ (\E prefix \in Prohibited : InRange(prefix, Address6(u, z))) <=> Listed6(u)
<1>. DEFINE In4(a, b, c, d, bits) == InRange(Prefix4(a, b, c, d, bits), Address6(u, z))
            In(a, b, c, d, bits) ==
              InRange([of |-> IPv6(<<a, b, c, 0, 0, 0, 0, d>>), bits |-> bits], Address6(u, z))
<1>01. (\E prefix \in NotUnicast : InRange(prefix, Address6(u, z))) <=>
        \/ In4(0, 0, 0, 0, 32) \/ In4(255, 255, 255, 255, 32) \/ In4(224, 0, 0, 0, 4)
        \/ In4(10, 0, 0, 0, 8) \/ In4(172, 16, 0, 0, 12) \/ In4(192, 168, 0, 0, 16)
        \/ In4(127, 0, 0, 0, 8) \/ In4(169, 254, 0, 0, 16)
        \/ In(0, 0, 0, 1, 128) \/ In(65280, 0, 0, 0, 8)
        \/ In(64512, 0, 0, 0, 7) \/ In(65152, 0, 0, 0, 10)
  BY DEF NotUnicast, Prefix6
<1>02. (\E prefix \in Prohibited : InRange(prefix, Address6(u, z))) <=>
        \/ In4(0, 0, 0, 0, 8) \/ In4(100, 64, 0, 0, 10) \/ In4(192, 0, 0, 0, 24)
        \/ In4(192, 0, 2, 0, 24) \/ In4(198, 18, 0, 0, 15) \/ In4(198, 51, 100, 0, 24)
        \/ In4(203, 0, 113, 0, 24)
        \/ In(100, 65435, 0, 0, 96) \/ In(100, 65435, 1, 0, 48) \/ In(8193, 3512, 0, 0, 32)
  BY DEF Prohibited, Prefix6
<1>1. \A i \in 1 .. 8 : u[i] \in Nat /\ u[i] < 65536
  BY DEF Words
<1>2. \A a, b, c, d, bits : In(a, b, c, d, bits) <=>
        /\ Agree(u[1], a, 16, bits, 1) /\ Agree(u[2], b, 16, bits, 2)
        /\ Agree(u[3], c, 16, bits, 3) /\ Agree(u[4], 0, 16, bits, 4)
        /\ Agree(u[5], 0, 16, bits, 5) /\ Agree(u[6], 0, 16, bits, 6)
        /\ Agree(u[7], 0, 16, bits, 7) /\ Agree(u[8], d, 16, bits, 8)
  BY InRange6
<1>3. \A a, b, c, d, bits : ~In4(a, b, c, d, bits)
  BY FamiliesAreApart
<1>. HIDE DEF In, In4
<1>5. In(0, 0, 0, 1, 128) <=> u[1] = 0 /\ u[2] = 0 /\ u[3] = 0 /\ u[4] = 0 /\ u[5] = 0 /\ u[6] = 0 /\ u[7] = 0 /\ u[8] = 1
  BY <1>1, <1>2 DEF Agree
<1>6. In(65280, 0, 0, 0, 8) <=> u[1] \in 65280 .. 65535
  <2>1. /\ Agree(u[2], 0, 16, 8, 2) /\ Agree(u[3], 0, 16, 8, 3) /\ Agree(u[4], 0, 16, 8, 4)
        /\ Agree(u[5], 0, 16, 8, 5) /\ Agree(u[6], 0, 16, 8, 6) /\ Agree(u[7], 0, 16, 8, 7)
        /\ Agree(u[8], 0, 16, 8, 8)
    BY <1>1 DEF Agree
  <2>2. In(65280, 0, 0, 0, 8) <=> Agree(u[1], 65280, 16, 8, 1)
    BY <1>2, <2>1
  <2>3. u[1] \in Nat /\ u[1] < 65536
    BY <1>1
  <2>. QED  BY <2>2, <2>3, Parts6
<1>7. In(64512, 0, 0, 0, 7) <=> u[1] \in 64512 .. 65023
  <2>1. /\ Agree(u[2], 0, 16, 7, 2) /\ Agree(u[3], 0, 16, 7, 3) /\ Agree(u[4], 0, 16, 7, 4)
        /\ Agree(u[5], 0, 16, 7, 5) /\ Agree(u[6], 0, 16, 7, 6) /\ Agree(u[7], 0, 16, 7, 7)
        /\ Agree(u[8], 0, 16, 7, 8)
    BY <1>1 DEF Agree
  <2>2. In(64512, 0, 0, 0, 7) <=> Agree(u[1], 64512, 16, 7, 1)
    BY <1>2, <2>1
  <2>3. u[1] \in Nat /\ u[1] < 65536
    BY <1>1
  <2>. QED  BY <2>2, <2>3, Parts6
<1>8. In(65152, 0, 0, 0, 10) <=> u[1] \in 65152 .. 65215
  <2>1. /\ Agree(u[2], 0, 16, 10, 2) /\ Agree(u[3], 0, 16, 10, 3) /\ Agree(u[4], 0, 16, 10, 4)
        /\ Agree(u[5], 0, 16, 10, 5) /\ Agree(u[6], 0, 16, 10, 6) /\ Agree(u[7], 0, 16, 10, 7)
        /\ Agree(u[8], 0, 16, 10, 8)
    BY <1>1 DEF Agree
  <2>2. In(65152, 0, 0, 0, 10) <=> Agree(u[1], 65152, 16, 10, 1)
    BY <1>2, <2>1
  <2>3. u[1] \in Nat /\ u[1] < 65536
    BY <1>1
  <2>. QED  BY <2>2, <2>3, Parts6
<1>9. In(100, 65435, 0, 0, 96) <=> u[1] = 100 /\ u[2] = 65435 /\ u[3] = 0 /\ u[4] = 0 /\ u[5] = 0 /\ u[6] = 0
  BY <1>1, <1>2 DEF Agree
<1>10. In(100, 65435, 1, 0, 48) <=> u[1] = 100 /\ u[2] = 65435 /\ u[3] = 1
  BY <1>1, <1>2 DEF Agree
<1>11. In(8193, 3512, 0, 0, 32) <=> u[1] = 8193 /\ u[2] = 3512
  BY <1>1, <1>2 DEF Agree
<1>12. (\E prefix \in NotUnicast : InRange(prefix, Address6(u, z))) <=> Local6(u)
  BY <1>01, <1>1, <1>3, <1>5, <1>6, <1>7, <1>8 DEF Local6
<1>13. (\E prefix \in Prohibited : InRange(prefix, Address6(u, z))) <=> Listed6(u)
  BY <1>02, <1>1, <1>3, <1>9, <1>10, <1>11 DEF Listed6
<1>. QED  BY <1>12, <1>13

\* Unmap takes the IPv4 address out of its IPv6 form, without the zone, and leaves any
\* other as it is.
LEMMA UnmapCases ==
  /\ \A u \in [1 .. 4 -> Octets] : Unmap(Address4(u)) = Address4(u)
  /\ \A u \in [1 .. 8 -> Words], z \in BOOLEAN :
       /\ Mapped6(u) => Unmap(Address6(u, z)) = Address4(Inner(u))
       /\ ~Mapped6(u) => Unmap(Address6(u, z)) = Address6(u, z)
       /\ Inner(u) \in [1 .. 4 -> Octets]
<1>1. ASSUME NEW u \in [1 .. 4 -> Octets] PROVE Unmap(Address4(u)) = Address4(u)
  BY DEF Unmap, Address4
<1>2. ASSUME NEW u \in [1 .. 8 -> Words], NEW z \in BOOLEAN
      PROVE  /\ Mapped6(u) => Unmap(Address6(u, z)) = Address4(Inner(u))
             /\ ~Mapped6(u) => Unmap(Address6(u, z)) = Address6(u, z)
             /\ Inner(u) \in [1 .. 4 -> Octets]
  <2>1. u \in Seq(Words) /\ Len(u) = 8
    <3>1. Len(u) = 8
      OBVIOUS
    <3>2. u \in UNION {[1 .. n -> Words] : n \in Nat}
      OBVIOUS
    <3>. QED  BY <3>1, <3>2, SeqDef
  <2>2. SubSeq(u, 1, 6) = <<0, 0, 0, 0, 0, 65535>> <=> Mapped6(u)
    <3>1. /\ SubSeq(u, 1, 6) \in Seq(Words) /\ Len(SubSeq(u, 1, 6)) = 6
          /\ \A i \in 1 .. 6 : SubSeq(u, 1, 6)[i] = u[i]
      BY <2>1
    <3>. DEFINE first == SubSeq(u, 1, 6)
    <3>. HIDE DEF first
    <3>2. first \in Seq(Words) /\ Len(first) = 6 /\ \A i \in 1 .. 6 : first[i] = u[i]
      BY <3>1 DEF first
    <3>3. first = <<first[1], first[2], first[3], first[4], first[5], first[6]>>
      BY <3>2
    <3>4. first = <<0, 0, 0, 0, 0, 65535>> <=>
            /\ first[1] = 0 /\ first[2] = 0 /\ first[3] = 0
            /\ first[4] = 0 /\ first[5] = 0 /\ first[6] = 65535
      BY <3>3
    <3>5. Mapped6(u) <=>
            u[1] = 0 /\ u[2] = 0 /\ u[3] = 0 /\ u[4] = 0 /\ u[5] = 0 /\ u[6] = 65535
      BY DEF Mapped6
    <3>. QED  BY <3>2, <3>4, <3>5 DEF first
  <2>3. Inner(u) \in [1 .. 4 -> Octets]
    <3>1. u[7] \in Nat /\ u[7] < 65536 /\ u[8] \in Nat /\ u[8] < 65536
      BY DEF Words
    <3>2. \A n \in Nat : n < 65536 => n \div 256 \in 0 .. 255 /\ n % 256 \in 0 .. 255
      OBVIOUS
    <3>. QED  BY <3>1, <3>2 DEF Inner, Octets
  <2>. QED  BY <2>2, <2>3 DEF Unmap, Address6, Address4, IPv4, Inner
<1>. QED  BY <1>1, <1>2

\* Every address has one of the two forms.
LEMMA AddressForms ==
  ASSUME NEW ip \in AddressType
  PROVE  \/ \E u \in [1 .. 4 -> Octets] : ip = Address4(u)
         \/ \E u \in [1 .. 8 -> Words], z \in BOOLEAN : ip = Address6(u, z)
  BY DEF AddressType, Address4, Address6

\* What the names of the ranges say of the two forms.
LEMMA NamesOfRanges ==
  /\ \A u \in [1 .. 4 -> Octets] :
       (Reserved(Address4(u)) <=> Reserved4(u)) /\ ~LiftedByZone(Address4(u))
  /\ \A u \in [1 .. 8 -> Words], z \in BOOLEAN :
       /\ Reserved(Address6(u, z)) <=>
            \/ Local6(u) \/ Listed6(u) \/ u = Unspecified.units
            \/ Mapped6(u) /\ Reserved4(Inner(u))
       /\ LiftedByZone(Address6(u, z)) <=> z /\ (Listed6(u) \/ u = Unspecified.units)
       /\ Mapped6(u) => ~Local6(u) /\ ~Listed6(u) /\ u # Unspecified.units
       /\ Local6(u) => ~Listed6(u) /\ u # Unspecified.units
<1>1. ASSUME NEW u \in [1 .. 4 -> Octets]
      PROVE  (Reserved(Address4(u)) <=> Reserved4(u)) /\ ~LiftedByZone(Address4(u))
  BY DEF Reserved, LiftedByZone, Address4
<1>2. ASSUME NEW u \in [1 .. 8 -> Words], NEW z \in BOOLEAN
      PROVE  /\ Reserved(Address6(u, z)) <=>
                  \/ Local6(u) \/ Listed6(u) \/ u = Unspecified.units
                  \/ Mapped6(u) /\ Reserved4(Inner(u))
             /\ LiftedByZone(Address6(u, z)) <=> z /\ (Listed6(u) \/ u = Unspecified.units)
             /\ Mapped6(u) => ~Local6(u) /\ ~Listed6(u) /\ u # Unspecified.units
             /\ Local6(u) => ~Listed6(u) /\ u # Unspecified.units
  <2>1. Unspecified.units = <<0, 0, 0, 0, 0, 0, 0, 0>>
    BY DEF Unspecified, IPv6
  <2>2. u = Unspecified.units => u[1] = 0 /\ u[6] = 0 /\ u[8] = 0
    BY <2>1
  <2>3. /\ Mapped6(u) => ~Local6(u) /\ ~Listed6(u) /\ u # Unspecified.units
        /\ Local6(u) => ~Listed6(u) /\ u # Unspecified.units
    BY <2>2 DEF Mapped6, Local6, Listed6, Words
  <2>. QED  BY <2>3 DEF Reserved, LiftedByZone, Address6
<1>. QED  BY <1>1, <1>2

\* The form does not matter for being reserved: ::ffff:a.b.c.d is what a.b.c.d is.
LEMMA UnmapKeeps ==
  ASSUME NEW ip \in AddressType
  PROVE  /\ Unmap(ip) \in AddressType
         /\ Reserved(Unmap(ip)) <=> Reserved(ip)
         /\ LiftedByZone(Unmap(ip)) <=> LiftedByZone(ip)
<1>1. CASE \E u \in [1 .. 4 -> Octets] : ip = Address4(u)
  BY <1>1, UnmapCases
<1>2. CASE \E u \in [1 .. 8 -> Words], z \in BOOLEAN : ip = Address6(u, z)
  <2>1. PICK u \in [1 .. 8 -> Words], z \in BOOLEAN : ip = Address6(u, z)
    BY <1>2
  <2>2. CASE ~Mapped6(u)
    BY <2>1, <2>2, UnmapCases
  <2>3. CASE Mapped6(u)
    <3>1. Unmap(ip) = Address4(Inner(u)) /\ Inner(u) \in [1 .. 4 -> Octets]
      BY <2>1, <2>3, UnmapCases
    <3>2. Unmap(ip) \in AddressType
      BY <3>1 DEF AddressType, Address4
    <3>3. (Reserved(Unmap(ip)) <=> Reserved4(Inner(u))) /\ ~LiftedByZone(Unmap(ip))
      BY <3>1, NamesOfRanges
    <3>4. (Reserved(ip) <=> Reserved4(Inner(u))) /\ ~LiftedByZone(ip)
      BY <2>1, <2>3, NamesOfRanges
    <3>. QED  BY <3>2, <3>3, <3>4
  <2>. QED  BY <2>2, <2>3
<1>. QED  BY <1>1, <1>2, AddressForms

\* The address rules let through every address that is not reserved, and of those that
\* are the ones with a zone to which they are not applied (safeclient.go:128-156).
THEOREM RangesExact ==
  \A ip \in AddressType : IsSafePublicIP(ip) <=> (~Reserved(ip) \/ LiftedByZone(ip))
<1>. SUFFICES ASSUME NEW ip \in AddressType
              PROVE  IsSafePublicIP(ip) <=> (~Reserved(ip) \/ LiftedByZone(ip))
  OBVIOUS
<1>1. ASSUME NEW u \in [1 .. 4 -> Octets], Unmap(ip) = Address4(u)
      PROVE  IsSafePublicIP(ip) <=> (~Reserved(ip) \/ LiftedByZone(ip))
  <2>1. Address4(u) # Unspecified /\ ~Address4(u).zone
    BY DEF Address4, Unspecified, IPv6
  <2>2. IsSafePublicIP(ip) <=> \A prefix \in NotUnicast \cup Prohibited : ~InRange(prefix, Address4(u))
    BY <1>1, <2>1 DEF IsSafePublicIP, Contains
  <2>3. IsSafePublicIP(ip) <=> ~Reserved4(u)
    BY <2>2, Ranges4
  <2>4. (Reserved(ip) <=> Reserved4(u)) /\ ~LiftedByZone(ip)
    BY <1>1, UnmapKeeps, NamesOfRanges
  <2>. QED  BY <2>3, <2>4
<1>2. ASSUME NEW u \in [1 .. 8 -> Words], NEW z \in BOOLEAN, ip = Address6(u, z), ~Mapped6(u)
      PROVE  IsSafePublicIP(ip) <=> (~Reserved(ip) \/ LiftedByZone(ip))
  <2>1. Unmap(ip) = Address6(u, z)
    BY <1>2, UnmapCases
  <2>2. Address6(u, z) = Unspecified <=> u = Unspecified.units /\ ~z
    BY DEF Address6, Unspecified, IPv6
  <2>3. Address6(u, z).zone = z
    BY DEF Address6
  <2>4. IsSafePublicIP(ip) <=>
          /\ Address6(u, z) # Unspecified
          /\ ~\E prefix \in NotUnicast : InRange(prefix, Address6(u, z))
          /\ z \/ ~\E prefix \in Prohibited : InRange(prefix, Address6(u, z))
    BY <2>1, <2>3 DEF IsSafePublicIP, Contains
  <2>5. IsSafePublicIP(ip) <=>
          ~(u = Unspecified.units /\ ~z) /\ ~Local6(u) /\ (z \/ ~Listed6(u))
    BY <2>2, <2>4, Ranges6
  <2>. QED  BY <1>2, <2>5, NamesOfRanges
<1>. QED  BY <1>1, <1>2, AddressForms, UnmapCases

-----------------------------------------------------------------------------
(* Connections *)

Allowed(ip) ==
  AllowPrivateTargets \/ \E a \in Addresses : ip = Unmap(a) /\ IsSafePublicIP(ip)

\* Whatever is tried, open or used was dialled safely.
ClientInv ==
  /\ stage = [c \in Calls |-> stage[c]]
  /\ target = [c \in Calls |-> target[c]]
  /\ used = [c \in Calls |-> used[c]]
  /\ attempted = [c \in Calls |-> attempted[c]]
  /\ \A c \in Calls : stage[c] \in {"sending", "sent"} => target[c] \in URLs
  /\ \A c \in Calls : \A ip \in attempted[c] : Allowed(ip)
  /\ \A k \in open : Allowed(k.address)
  /\ \A c \in Calls : used[c] # None => Allowed(used[c].address)

\* It holds at first, with nothing open and nothing sent.
LEMMA InitClientInv == Init => ClientInv
<1>. QED  BY DEF Init, ClientInv

\* Nothing but allowed addresses is in an answer that is allowed as a whole.
LEMMA AllowedAnswer ==
  ASSUME NEW host \in Hosts, NEW ips \in Answers(host), AllAllowed(ips),
         NEW i \in 1 .. Len(ips)
  PROVE  Allowed(Normalized(ips)[i])
<1>1. Normalized(ips)[i] = Unmap(ips[i])
  BY DEF Normalized
<1>2. CASE host \in Addresses
  <2>1. ips = <<host>>
    BY <1>2 DEF Answers
  <2>2. Len(ips) = 1 /\ ips[1] = host
    BY <2>1
  <2>3. ips[i] = host
    BY <2>2
  <2>. QED  BY <1>1, <1>2, <2>3 DEF AllAllowed, Allowed
<1>3. CASE host \notin Addresses
  <2>1. ips \in Seq(Addresses)
    BY <1>3, ClientAssumption DEF Answers
  <2>2. ips[i] \in Addresses
    BY <2>1
  <2>. QED  BY <1>1, <1>3, <2>2 DEF AllAllowed, Allowed
<1>. QED  BY <1>2, <1>3

\* A dial connects to what its second look-up said, after that answer was checked.
LEMMA DialClientInv ==
  ASSUME ClientInv, NEW c \in Calls, Dial(c)
  PROVE  ClientInv'
<1>. DEFINE host == target[c].host
<1>1. PICK ips \in Answers(host) \ {<< >>} :
        /\ AllAllowed(ips)
        /\ \E i \in 1 .. Len(ips) :
             /\ attempted' = [attempted EXCEPT ![c] = {Normalized(ips)[j] : j \in 1 .. i}]
             /\ open' \in {open, open \cup {Connection(target[c], Normalized(ips)[i])}}
  BY DEF Dial
<1>2. PICK i \in 1 .. Len(ips) :
        /\ attempted' = [attempted EXCEPT ![c] = {Normalized(ips)[j] : j \in 1 .. i}]
        /\ open' \in {open, open \cup {Connection(target[c], Normalized(ips)[i])}}
  BY <1>1
<1>3. stage[c] = "sending" /\ UNCHANGED <<stage, target, used>>
  BY DEF Dial
<1>4. host \in Hosts
  BY <1>3, ClientAssumption DEF ClientInv, URLType
<1>5. \A j \in 1 .. Len(ips) : Allowed(Normalized(ips)[j])
  BY <1>1, <1>4, AllowedAnswer
<1>6. \A k \in open' : Allowed(k.address)
  BY <1>2, <1>5 DEF ClientInv, Connection
<1>7. attempted' = [d \in Calls |-> attempted'[d]]
      /\ \A d \in Calls : \A ip \in attempted'[d] : Allowed(ip)
  <2>1. Len(ips) \in Nat
    BY <1>1, ClientAssumption DEF Answers
  <2>2. \A ip \in {Normalized(ips)[j] : j \in 1 .. i} : Allowed(ip)
    BY <1>5, <2>1
  <2>. QED  BY <1>2, <2>2 DEF ClientInv
<1>. QED  BY <1>3, <1>6, <1>7 DEF ClientInv

\* A request takes a connection that is open.
LEMMA SendClientInv ==
  ASSUME ClientInv, NEW c \in Calls, Send(c)
  PROVE  ClientInv'
<1>1. PICK k \in open : used' = [used EXCEPT ![c] = k]
  BY DEF Send
<1>2. /\ stage[c] = "sending" /\ stage' = [stage EXCEPT ![c] = "sent"]
      /\ UNCHANGED <<target, open, attempted>>
  BY DEF Send
<1>. QED  BY <1>1, <1>2 DEF ClientInv

\* The calls of ValidateURL, and the call's return to its caller.
LEMMA AskClientInv ==
  ASSUME ClientInv, NEW c \in Calls, NEW u \in URLs,
         RefuseURL(c, u) \/ FailLookUp(c, u) \/ RefuseAddress(c, u) \/ Validate(c, u)
  PROVE  ClientInv'
<1>1. /\ stage[c] = "idle"
      /\ target' = [target EXCEPT ![c] = u]
      /\ UNCHANGED <<used, open, attempted>>
      /\ \E s \in {"invalid", "prohibited", "sending"} : stage' = [stage EXCEPT ![c] = s]
  BY DEF RefuseURL, FailLookUp, RefuseAddress, Validate, Ask, Idle
<1>. QED  BY <1>1 DEF ClientInv

\* What happens to a request that is on its way, and the way back to an idle call.
LEMMA OtherClientInv ==
  ASSUME ClientInv, NEW c \in Calls, Receive(c) \/ Resend(c) \/ Fail(c) \/ Again(c)
  PROVE  ClientInv'
<1>1. CASE Receive(c) \/ Fail(c)
  BY <1>1 DEF Receive, Fail, ClientInv
<1>2. CASE Again(c)
  BY <1>2 DEF Again, ClientInv
<1>3. CASE Resend(c)
  BY <1>3 DEF Resend, ClientInv
<1>. QED  BY <1>1, <1>2, <1>3

\* Every step of the client keeps the invariant.
LEMMA NextClientInv == ClientInv /\ [Next]_vars => ClientInv'
<1>. SUFFICES ASSUME ClientInv, [Next]_vars PROVE ClientInv'
  OBVIOUS
<1>1. ASSUME NEW k \in open, Close(k) PROVE ClientInv'
  BY <1>1 DEF Close, ClientInv
<1>2. CASE UNCHANGED vars
  BY <1>2 DEF vars, ClientInv
<1>. QED  BY <1>1, <1>2, DialClientInv, SendClientInv, AskClientInv, OtherClientInv
          DEF Next, CallStep

\* What may be dialled is not reserved, or has a zone that lifts its range.
LEMMA AllowedRanges ==
  ASSUME NEW ip, Allowed(ip), ~AllowPrivateTargets
  PROVE  Reserved(ip) => LiftedByZone(ip)
<1>1. PICK a \in Addresses : ip = Unmap(a) /\ IsSafePublicIP(ip)
  BY DEF Allowed
<1>2. ip \in AddressType
  BY <1>1, UnmapKeeps, ClientAssumption
<1>. QED  BY <1>1, <1>2, RangesExact

\* No connection is tried, open or used to an address that is reserved, but for what a
\* zone lifts, unless the policy says so (safeclient.go:32-50, 102-126, 151).
THEOREM ReachesOnlyAllowedAlways == Spec => []ReachesOnlyAllowed
<1>1. ClientInv => ReachesOnlyAllowed
  <2>1. ASSUME ClientInv, NEW ip \in Reached PROVE Allowed(ip)
    <3>1. CASE \E c \in Calls : ip \in attempted[c]
      BY <2>1, <3>1 DEF ClientInv
    <3>2. CASE \E k \in open : ip = k.address
      BY <2>1, <3>2 DEF ClientInv
    <3>3. CASE \E c \in Calls : used[c] # None /\ ip = used[c].address
      BY <2>1, <3>3 DEF ClientInv
    <3>. QED  BY <2>1, <3>1, <3>2, <3>3 DEF Reached
  <2>. QED  BY <2>1, AllowedRanges DEF ReachesOnlyAllowed
<1>. QED  BY <1>1, InitClientInv, NextClientInv, PTL DEF Spec

-----------------------------------------------------------------------------
(* Targets *)

\* A call that dials or has sent has a URL that was allowed, every connection is on
\* a port that was, and a call that was refused for an address has the answer that
\* was not allowed.
TargetInv ==
  /\ answer = [c \in Calls |-> answer[c]]
  /\ \A c \in Calls : stage[c] \in {"sending", "sent"} => URLAllowed(target[c])
  /\ \A c \in Calls : stage[c] = "prohibited" =>
       answer[c] \in Seq(Addresses) /\ ~AllAllowed(answer[c])
  /\ StandardPorts

\* Nothing is open and nothing refused at first.
LEMMA InitTargetInv == Init => TargetInv
  BY DEF Init, TargetInv, StandardPorts

\* The resolver answers with addresses, and a literal address is one.
LEMMA AnswersAreAddresses ==
  ASSUME NEW u \in URLs, NEW ips \in Answers(u.host)
  PROVE  ips \in Seq(Addresses)
<1>1. CASE u.host \in Addresses
  <2>1. ips = <<u.host>>
    BY <1>1 DEF Answers
  <2>2. <<u.host>> \in Seq(Addresses)
    BY <1>1
  <2>. QED  BY <2>1, <2>2
<1>2. CASE u.host \notin Addresses
  BY <1>2, ClientAssumption DEF Answers
<1>. QED  BY <1>1, <1>2

\* ValidateURL checks the URL before it looks the host up, and the answer before it
\* lets the call go on (safeclient.go:66-126).
LEMMA AskTargetInv ==
  ASSUME ClientInv, TargetInv, NEW c \in Calls, NEW u \in URLs,
         RefuseURL(c, u) \/ FailLookUp(c, u) \/ RefuseAddress(c, u) \/ Validate(c, u)
  PROVE  TargetInv'
<1>1. ASSUME NEW s, NEW ips, Ask(c, u, s, ips),
             s \in {"sending", "sent"} => URLAllowed(u),
             s = "prohibited" => ips \in Seq(Addresses) /\ ~AllAllowed(ips)
      PROVE  TargetInv'
  <2>1. /\ target' = [target EXCEPT ![c] = u]
        /\ stage' = [stage EXCEPT ![c] = s]
        /\ answer' = [answer EXCEPT ![c] = ips]
        /\ UNCHANGED open
    BY <1>1 DEF Ask
  <2>2. \A d \in Calls \ {c} :
          stage'[d] = stage[d] /\ target'[d] = target[d] /\ answer'[d] = answer[d]
    BY <2>1 DEF ClientInv, TargetInv
  <2>3. stage'[c] = s /\ target'[c] = u /\ answer'[c] = ips
    BY <2>1 DEF ClientInv, TargetInv
  <2>4. answer' = [d \in Calls |-> answer'[d]]
    BY <2>1 DEF TargetInv
  <2>5. StandardPorts'
    BY <2>1 DEF TargetInv, StandardPorts
  <2>6. \A d \in Calls : stage'[d] \in {"sending", "sent"} => URLAllowed(target'[d])
    BY <1>1, <2>2, <2>3 DEF TargetInv
  <2>7. \A d \in Calls : stage'[d] = "prohibited" =>
          answer'[d] \in Seq(Addresses) /\ ~AllAllowed(answer'[d])
    BY <1>1, <2>2, <2>3 DEF TargetInv
  <2>. QED  BY <2>4, <2>5, <2>6, <2>7 DEF TargetInv
<1>2. CASE RefuseURL(c, u)
  BY <1>1, <1>2 DEF RefuseURL
<1>3. CASE FailLookUp(c, u)
  BY <1>1, <1>3 DEF FailLookUp
<1>4. CASE RefuseAddress(c, u)
  <2>1. PICK ips \in Answers(u.host) : ~AllAllowed(ips) /\ Ask(c, u, "prohibited", ips)
    BY <1>4 DEF RefuseAddress
  <2>. QED  BY <1>1, <2>1, AnswersAreAddresses
<1>5. CASE Validate(c, u)
  BY <1>1, <1>5 DEF Validate
<1>. QED  BY <1>2, <1>3, <1>4, <1>5

\* A connection has the scheme of its URL, and the port of that scheme.
LEMMA DialTargetInv ==
  ASSUME ClientInv, TargetInv, NEW c \in Calls, Dial(c)
  PROVE  TargetInv'
<1>1. stage[c] = "sending" /\ UNCHANGED <<stage, target, answer>>
  BY DEF Dial
<1>2. PICK ip : open' \in {open, open \cup {Connection(target[c], ip)}}
  BY DEF Dial
<1>3. URLAllowed(target[c]) /\ target[c] \in URLType
  BY <1>1, ClientAssumption DEF TargetInv, ClientInv
<1>4. DEFINE k == Connection(target[c], ip)
<1>5. \/ k.scheme = "https" /\ k.port = "443"
      \/ k.scheme = "http" /\ AllowHTTP /\ (k.port = "80" \/ AllowPrivateTargets)
  BY <1>3 DEF URLAllowed, PortAllowed, PortOf, Connection, URLType
<1>6. StandardPorts'
  BY <1>2, <1>5 DEF TargetInv, StandardPorts
<1>. QED  BY <1>1, <1>6 DEF TargetInv

\* Every other step only closes connections and moves a call along.
LEMMA OtherTargetInv ==
  ASSUME ClientInv, TargetInv, NEW c \in Calls,
         Send(c) \/ Receive(c) \/ Resend(c) \/ Fail(c) \/ Again(c)
  PROVE  TargetInv'
<1>1. CASE Send(c)
  BY <1>1 DEF Send, ClientInv, TargetInv, StandardPorts
<1>2. CASE Receive(c) \/ Fail(c)
  BY <1>2 DEF Receive, Fail, ClientInv, TargetInv, StandardPorts
<1>3. CASE Resend(c)
  BY <1>3 DEF Resend, ClientInv, TargetInv, StandardPorts
<1>4. CASE Again(c)
  BY <1>4 DEF Again, ClientInv, TargetInv, StandardPorts
<1>. QED  BY <1>1, <1>2, <1>3, <1>4

\* Every step of the client keeps the invariant.
LEMMA NextTargetInv == ClientInv /\ TargetInv /\ [Next]_vars => TargetInv'
<1>. SUFFICES ASSUME ClientInv, TargetInv, [Next]_vars PROVE TargetInv'
  OBVIOUS
<1>1. ASSUME NEW k \in open, Close(k) PROVE TargetInv'
  BY <1>1 DEF Close, TargetInv, StandardPorts
<1>2. CASE UNCHANGED vars
  BY <1>2 DEF vars, TargetInv, StandardPorts
<1>. QED  BY <1>1, <1>2, AskTargetInv, DialTargetInv, OtherTargetInv DEF Next, CallStep

\* No connection is on another port than the one of its scheme, but for http to a
\* private target (safeclient.go:89-95).
THEOREM StandardPortsAlways == Spec => []StandardPorts
<1>1. TargetInv => StandardPorts
  BY DEF TargetInv
<1>. QED  BY <1>1, InitClientInv, NextClientInv, InitTargetInv, NextTargetInv, PTL DEF Spec

\* A target is refused for its addresses only if one of them is reserved
\* (safeclient.go:102-156).
THEOREM RefusesOnlyProhibitedAlways == Spec => []RefusesOnlyProhibited
<1>1. TargetInv => RefusesOnlyProhibited
  <2>. SUFFICES ASSUME TargetInv, NEW c \in Calls, stage[c] = "prohibited"
                PROVE  \E i \in 1 .. Len(answer[c]) : Reserved(answer[c][i])
    BY DEF RefusesOnlyProhibited
  <2>1. answer[c] \in Seq(Addresses) /\ ~AllAllowed(answer[c])
    BY DEF TargetInv
  <2>2. PICK i \in 1 .. Len(answer[c]) : ~IsSafePublicIP(Unmap(answer[c][i]))
    BY <2>1 DEF AllAllowed
  <2>3. answer[c][i] \in AddressType
    BY <2>1, ClientAssumption
  <2>4. Reserved(answer[c][i])
    BY <2>2, <2>3, UnmapKeeps, RangesExact
  <2>. QED  BY <2>4
<1>. QED  BY <1>1, InitClientInv, NextClientInv, InitTargetInv, NextTargetInv, PTL DEF Spec

=============================================================================
