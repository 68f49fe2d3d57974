--------------------------- MODULE XdpFilterProofs ---------------------------
(* Proofs about XdpFilter, for any addresses, subnet, rules and packets: the *)
(* filter decides by the rules as they are written.                           *)
EXTENDS XdpFilter, TLAPS

Byte   == 0 .. 255
Number == {n \in Int : 0 <= n /\ n < 65536}
Lo(n)  == n % 256
Hi(n)  == n \div 256

\* What the theorem asks of host and rules: a little-endian host, ports and
\* protocols that fit their fields, and one text for one address.
WellWritten ==
    /\ LittleEndianHost
    /\ Ports \subseteq Number
    /\ Protos \subseteq Byte
    /\ \A a, b \in AddrTexts :
          (a.form # "v6" /\ b.form # "v6" /\ a.bytes = b.bytes) => a = b

\* Two bytes are what they are read from.
LEMMA Bytes ==
    ASSUME NEW b \in Addr
    PROVE  b[1] \in Byte /\ b[2] \in Byte /\ b = <<b[1], b[2]>>
BY DEF Addr, Byte

LEMMA Pairs == \A a, b, c, d : <<a, b>> = <<c, d>> => a = c /\ b = d
OBVIOUS

LEMMA BytesOfNumber ==
    ASSUME NEW n \in Number
    PROVE  Lo(n) \in Byte /\ Hi(n) \in Byte /\ n = Lo(n) + 256 * Hi(n)
BY DEF Lo, Hi, Byte, Number

LEMMA NumberOfBytes ==
    ASSUME NEW a \in Byte, NEW b \in Byte
    PROVE  /\ a + 256 * b \in Number
           /\ Lo(a + 256 * b) = a /\ Hi(a + 256 * b) = b
<1>1. a + 256 * b \in Number
  BY DEF Byte, Number
<1>2. Lo(a + 256 * b) = a
  BY DEF Byte, Lo
<1>3. Hi(a + 256 * b) = b
  BY DEF Byte, Hi
<1> QED
  BY <1>1, <1>2, <1>3

LEMMA MemoryIs ==
    ASSUME NEW n
    PROVE  Memory(n) = IF LittleEndianHost THEN <<Lo(n), Hi(n)>> ELSE <<Hi(n), Lo(n)>>
BY DEF Memory, Lo, Hi

LEMMA ReadNumber ==
    ASSUME NEW b \in Addr
    PROVE  LittleEndian(b) \in Number
BY Bytes, NumberOfBytes DEF LittleEndian

\* The fields of a key that are addresses have the bytes of the address.
LEMMA MemoryOfAddress ==
    ASSUME LittleEndianHost, NEW b \in Addr
    PROVE  Memory(LittleEndian(b)) = b
<1>1. Lo(LittleEndian(b)) = b[1] /\ Hi(LittleEndian(b)) = b[2]
  BY Bytes, NumberOfBytes DEF LittleEndian
<1>2. Memory(LittleEndian(b)) = <<Lo(LittleEndian(b)), Hi(LittleEndian(b))>>
  BY MemoryIs
<1> QED
  BY <1>1, <1>2, Bytes

\* The bytes of a 16-bit number are bytes, and tell the number.
LEMMA MemoryOfNumber ==
    ASSUME NEW m \in Number, NEW n \in Number
    PROVE  /\ Memory(m) \in [1 .. 2 -> Byte]
           /\ Memory(m) = Memory(n) <=> m = n
<1>1. Memory(m) = Memory(n) => (Lo(m) = Lo(n) /\ Hi(m) = Hi(n))
  BY MemoryIs, Pairs
<1>2. (Lo(m) = Lo(n) /\ Hi(m) = Hi(n)) => m = n
  BY BytesOfNumber
<1>3. Memory(m) \in [1 .. 2 -> Byte]
  BY BytesOfNumber, MemoryIs
<1> QED
  BY <1>1, <1>2, <1>3

\* What a rule says modulo the width of its field.
Mod16(n) == n % 65536
Mod8(n)  == n % 256

LEMMA Widths ==
    ASSUME NEW n \in Int
    PROVE  /\ Mod16(n) \in Number /\ Mod8(n) \in Byte
           /\ n \in Number => Mod16(n) = n
           /\ n \in Byte => Mod8(n) = n
<1>1. /\ Mod16(n) \in Number
      /\ n \in Number => Mod16(n) = n
  <2>1. Mod16(n) \in Number
    BY DEF Number, Mod16
  <2>2. n \in Number => Mod16(n) = n
    BY DEF Number, Mod16
  <2> QED
    BY <2>1, <2>2
<1>2. Mod8(n) \in Byte /\ (n \in Byte => Mod8(n) = n)
  BY DEF Byte, Mod8
<1> QED
  BY <1>1, <1>2

LEMMA RuleTypes ==
    ASSUME NEW r \in Rule
    PROVE  /\ r.src \in AddrTexts /\ r.src.bytes \in Addr
           /\ r.dst \in AddrTexts /\ r.dst.bytes \in Addr
           /\ r.port \in Int /\ r.proto \in Int
BY TextAssumption DEF Rule, AddrText

\* The key of a rule, if it has one.
HasKey(r) == r.src.form # "v6" /\ r.dst.form # "v6"

LEMMA KeyIs ==
    ASSUME NEW r
    PROVE  /\ HasKey(r) => getRuleKey(r) = [src_ip |-> Memory(LittleEndian(r.src.bytes)),
                                            dst_ip |-> Memory(LittleEndian(r.dst.bytes)),
                                            port   |-> Memory(Mod16(r.port)),
                                            proto  |-> Mod8(r.proto)]
           /\ HasKey(r) <=> getRuleKey(r) # NoKey
BY DEF getRuleKey, HasKey, NoKey, Mod16, Mod8

LEMMA KeyTyped ==
    ASSUME NEW r \in Rule, getRuleKey(r) # NoKey
    PROVE  getRuleKey(r) \in MapKey
<1>1. Mod16(r.port) \in Number /\ Mod8(r.proto) \in Byte
  BY RuleTypes, Widths
<1>2. /\ Memory(LittleEndian(r.src.bytes)) \in [1 .. 2 -> Byte]
      /\ Memory(LittleEndian(r.dst.bytes)) \in [1 .. 2 -> Byte]
      /\ Memory(Mod16(r.port)) \in [1 .. 2 -> Byte]
  BY <1>1, RuleTypes, ReadNumber, MemoryOfNumber
<1>3. MapKey = [src_ip : [1 .. 2 -> Byte], dst_ip : [1 .. 2 -> Byte],
                port : [1 .. 2 -> Byte], proto : Byte]
  BY DEF MapKey, Byte
<1> QED
  BY <1>1, <1>2, <1>3, KeyIs

\* The keys in the map are well formed, whatever integers a rule has as its
\* port and protocol, and one without an address of four bytes has none.
THEOREM FilterTyped == Spec => []TypeOK
<1>1. Init => TypeOK
  BY DEF Init, TypeOK
<1>2. TypeOK /\ [Next]_vars => TypeOK'
  <2> SUFFICES ASSUME TypeOK, [Next]_vars PROVE TypeOK'
    OBVIOUS
  <2>1. ASSUME NEW r \in Rule, CreateRule(r) PROVE TypeOK'
    BY <2>1, KeyTyped DEF CreateRule, TypeOK
  <2>2. ASSUME NEW r \in stored, DeleteRule(r) PROVE TypeOK'
    BY <2>2 DEF DeleteRule, TypeOK
  <2>3. CASE Restart
    BY <2>3, KeyTyped DEF Restart, TypeOK
  <2>4. CASE UNCHANGED vars
    BY <2>4 DEF vars, TypeOK
  <2> QED
    BY <2>1, <2>2, <2>3, <2>4 DEF Next
<1> QED
  BY <1>1, <1>2, PTL DEF Spec

-----------------------------------------------------------------------------
(* Keys and packets.                                                         *)

\* The key of a rule says what the rule says, in the bytes of the packet.
LEMMA KeyWritten ==
    ASSUME WellWritten, NEW r \in Rule, HasKey(r)
    PROVE  getRuleKey(r) = [src_ip |-> r.src.bytes, dst_ip |-> r.dst.bytes,
                            port   |-> Memory(r.port), proto |-> r.proto]
<1>1. /\ Memory(LittleEndian(r.src.bytes)) = r.src.bytes
      /\ Memory(LittleEndian(r.dst.bytes)) = r.dst.bytes
  BY RuleTypes, MemoryOfAddress DEF WellWritten
<1>2. r.port \in Number /\ r.proto \in Byte
  BY DEF WellWritten, Rule
<1>3. Mod16(r.port) = r.port /\ Mod8(r.proto) = r.proto
  BY <1>2, RuleTypes, Widths
<1> QED
  BY <1>1, <1>3, KeyIs

\* Two rules as stored never share a key.
LEMMA KeyTellsTheRule ==
    ASSUME WellWritten, NEW r \in Rule, NEW s \in Rule,
           getRuleKey(r) # NoKey, getRuleKey(r) = getRuleKey(s)
    PROVE  r = s
<1>1. HasKey(r) /\ HasKey(s)
  BY KeyIs
<1>2. /\ r.src.bytes = s.src.bytes /\ r.dst.bytes = s.dst.bytes
      /\ Memory(r.port) = Memory(s.port) /\ r.proto = s.proto
  BY <1>1, KeyWritten
<1>3. r.src = s.src /\ r.dst = s.dst
  BY <1>1, <1>2, RuleTypes DEF WellWritten, HasKey
<1>4. r.port = s.port
  <2>1. r.port \in Number /\ s.port \in Number
    BY DEF WellWritten, Rule
  <2> QED
    BY <2>1, <1>2, MemoryOfNumber
<1> QED
  BY <1>2, <1>3, <1>4 DEF Rule

LEMMA PacketTypes ==
    ASSUME NEW pkt \in Packet
    PROVE  pkt.dest \in Number /\ pkt.saddr \in Addr /\ pkt.daddr \in Addr
<1>1. pkt.dest \in DestPorts /\ pkt.saddr \in Addrs /\ pkt.daddr \in Addrs
  BY DEF Packet
<1>2. Addrs \subseteq Addr
  BY PacketAssumption
<1>3. DestPorts \subseteq Number
  BY PacketAssumption DEF Number
<1> QED
  BY <1>1, <1>2, <1>3

\* A packet has the key of a rule exactly when the rule names it.
LEMMA KeyOfPacket ==
    ASSUME WellWritten, NEW r \in Rule, NEW pkt \in Packet
    PROVE  packetKey(pkt) = getRuleKey(r) <=> Names(r, pkt)
<1>1. packetKey(pkt) # NoKey
  BY DEF packetKey, NoKey
<1>2. CASE ~ HasKey(r)
  BY <1>1, <1>2, KeyIs DEF Names, Means, HasKey
<1>3. CASE HasKey(r)
  <2>1. packetKey(pkt) = getRuleKey(r) <=>
            /\ pkt.saddr = r.src.bytes /\ pkt.daddr = r.dst.bytes
            /\ Memory(pkt.dest) = Memory(r.port) /\ pkt.protocol = r.proto
    BY <1>3, KeyWritten DEF packetKey
  <2>2. r.port \in Number /\ pkt.dest \in Number
    BY PacketTypes DEF WellWritten, Rule
  <2>3. Memory(pkt.dest) = Memory(r.port) <=> pkt.dest = r.port
    BY <2>2, MemoryOfNumber
  <2> QED
    BY <1>3, <2>1, <2>3 DEF Names, Means, HasKey
<1> QED
  BY <1>2, <1>3

-----------------------------------------------------------------------------
(* The subnet.                                                               *)

MaskBytes == {0, 128, 192, 224, 240, 248, 252, 254, 255}

\* Clearing the host bits of x gives y exactly when both have y's network.
LEMMA MaskedByte ==
    ASSUME NEW x \in Byte, NEW y \in Byte, NEW k \in MaskBytes, y % (256 - k) = 0
    PROVE  x - (x % (256 - k)) = y <=> x \div (256 - k) = y \div (256 - k)
<1>1. CASE k = 0
  BY <1>1 DEF Byte
<1>2. CASE k = 128
  BY <1>2 DEF Byte
<1>3. CASE k = 192
  BY <1>3 DEF Byte
<1>4. CASE k = 224
  BY <1>4 DEF Byte
<1>5. CASE k = 240
  BY <1>5 DEF Byte
<1>6. CASE k = 248
  BY <1>6 DEF Byte
<1>7. CASE k = 252
  BY <1>7 DEF Byte
<1>8. CASE k = 254
  BY <1>8 DEF Byte
<1>9. CASE k = 255
  BY <1>9 DEF Byte
<1> QED
  BY <1>1, <1>2, <1>3, <1>4, <1>5, <1>6, <1>7, <1>8, <1>9 DEF MaskBytes

\* The two variables of the program have the bytes of subnet and mask.
LEMMA SubnetInMemory ==
    ASSUME LittleEndianHost
    PROVE  filter_mask = SubnetMask /\ filter_net = SubnetIP
<1>1. SubnetMask \in Addr
  BY HostAssumption DEF Addr
<1> QED
  BY <1>1, HostAssumption, MemoryOfAddress DEF filter_mask, filter_net

\* The program's test of the source address is membership of the subnet.
LEMMA ForeignIsOutside ==
    ASSUME LittleEndianHost, NEW pkt \in Packet
    PROVE  Foreign(pkt) <=> ~ InSubnet(pkt.saddr)
<1> DEFINE x == pkt.saddr
<1>1. x \in Addr /\ SubnetIP \in Addr
  BY PacketTypes, HostAssumption
<1>2. \A i \in 1 .. 2 : x[i] \in Byte /\ SubnetIP[i] \in Byte
  BY <1>1 DEF Addr, Byte
<1>3. \A i \in 1 .. 2 : SubnetMask[i] \in MaskBytes /\ SubnetIP[i] % (256 - SubnetMask[i]) = 0
  BY HostAssumption DEF MaskBytes
<1>4. \A i \in 1 .. 2 : x[i] - (x[i] % (256 - SubnetMask[i])) = SubnetIP[i]
                        <=> x[i] \div (256 - SubnetMask[i]) = SubnetIP[i] \div (256 - SubnetMask[i])
  BY <1>2, <1>3, MaskedByte
<1>5. And(x, SubnetMask) = SubnetIP
      <=> \A i \in 1 .. 2 : x[i] - (x[i] % (256 - SubnetMask[i])) = SubnetIP[i]
  BY <1>1 DEF And, Addr
<1>6. And(x, SubnetMask) = SubnetIP <=> InSubnet(x)
  BY <1>4, <1>5 DEF InSubnet
<1>7. SubnetMask = <<0, 0>> => InSubnet(x)
  <2> SUFFICES ASSUME SubnetMask = <<0, 0>>, NEW i \in 1 .. 2
               PROVE  x[i] \div (256 - SubnetMask[i]) = SubnetIP[i] \div (256 - SubnetMask[i])
    BY DEF InSubnet
  <2>1. SubnetMask[i] = 0
    OBVIOUS
  <2> QED
    BY <2>1, <1>2 DEF Byte
<1> QED
  BY <1>6, <1>7, SubnetInMemory DEF Foreign

-----------------------------------------------------------------------------
(* The filter.                                                               *)

KeysMirror == peerRules = {getRuleKey(r) : r \in stored} \ {NoKey}

\* The map has the keys of the stored rules, and no others, whatever is
\* created, deleted and restored.
THEOREM FilterKeys == WellWritten /\ Spec => []KeysMirror
<1> SUFFICES ASSUME WellWritten PROVE Spec => []KeysMirror
  OBVIOUS
<1>1. Init => KeysMirror
  BY DEF Init, KeysMirror
<1>2. TypeOK /\ KeysMirror /\ [Next]_vars => KeysMirror'
  <2> SUFFICES ASSUME TypeOK, KeysMirror, [Next]_vars PROVE KeysMirror'
    OBVIOUS
  <2>1. ASSUME NEW r \in Rule, CreateRule(r) PROVE KeysMirror'
    BY <2>1 DEF CreateRule, KeysMirror
  <2>2. ASSUME NEW r \in stored, DeleteRule(r) PROVE KeysMirror'
    <3>1. \A s \in stored : getRuleKey(s) = getRuleKey(r) => s = r
      BY <2>2, KeyTellsTheRule DEF DeleteRule, TypeOK
    <3> QED
      BY <2>2, <3>1 DEF DeleteRule, KeysMirror
  <2>3. CASE Restart
    BY <2>3 DEF Restart, KeysMirror
  <2>4. CASE UNCHANGED vars
    BY <2>4 DEF vars, KeysMirror
  <2> QED
    BY <2>1, <2>2, <2>3, <2>4 DEF Next
<1> QED
  BY <1>1, <1>2, FilterTyped, PTL DEF Spec

\* The rules as written decide which packets pass: the program of
\* firewall/c/program.c agrees with the keys that getRuleKey writes.
THEOREM FilterDecidesByRules == WellWritten /\ Spec => []FilterMatchesRules
<1> SUFFICES ASSUME WellWritten PROVE Spec => []FilterMatchesRules
  OBVIOUS
<1>1. TypeOK /\ KeysMirror => FilterMatchesRules
  <2> SUFFICES ASSUME TypeOK, KeysMirror, NEW pkt \in Packet
               PROVE  filter(pkt) = "XDP_PASS" <=>
                        /\ pkt.size >= 20 /\ pkt.ihl >= 5
                        /\ (InSubnet(pkt.saddr) /\ pkt.protocol \in {TCP, UDP}) =>
                               /\ pkt.size >= 4 * pkt.ihl + 8
                               /\ \E r \in stored : Names(r, pkt)
    BY DEF FilterMatchesRules
  <2>1. packetKey(pkt) \in peerRules <=> \E r \in stored : Names(r, pkt)
    <3>1. packetKey(pkt) # NoKey
      BY DEF packetKey, NoKey
    <3>2. packetKey(pkt) \in peerRules <=> \E r \in stored : packetKey(pkt) = getRuleKey(r)
      BY <3>1 DEF KeysMirror
    <3> QED
      BY <3>2, KeyOfPacket DEF TypeOK
  <2>2. Foreign(pkt) <=> ~ InSubnet(pkt.saddr)
    BY ForeignIsOutside DEF WellWritten
  <2>3. WellFormed(pkt) <=> pkt.size >= 20 /\ pkt.ihl >= 5
    BY DEF WellFormed
  <2>4. pkt.size \in Int /\ pkt.ihl \in Int
    <3>1. pkt.size \in Sizes /\ pkt.ihl \in IHLs
      BY DEF Packet
    <3>2. Sizes \subseteq Int
      BY PacketAssumption
    <3>3. IHLs \subseteq Int
      BY PacketAssumption
    <3> QED
      BY <3>1, <3>2, <3>3
  <2>5. pkt.size < 4 * pkt.ihl + 8 <=> ~ (pkt.size >= 4 * pkt.ihl + 8)
    BY <2>4
  <2>6. "XDP_PASS" # "XDP_DROP"
    OBVIOUS
  <2> QED
    BY <2>1, <2>2, <2>3, <2>5, <2>6 DEF filter
<1> QED
  BY <1>1, FilterTyped, FilterKeys, PTL

=============================================================================
