----------------------------- MODULE XdpFilter -----------------------------
(***************************************************************************)
(* What the XDP program lets through, against the firewall rules as they   *)
(* are stored: how getRuleKey turns the text of a rule into a key of the    *)
(* peer_rules map, and how the program turns a packet into one.  The        *)
(* requests that change table and map are single steps here; module         *)
(* Overlay has their interleavings and the capacity of the map.             *)
(***************************************************************************)
EXTENDS Integers, FiniteSets, Sequences

CONSTANTS
    AddrTexts,    \* IP addresses as users write them
    Ports,        \* ports and protocols as users write them: any integers,
    Protos,       \*   but 0, which is refused and replaced by TCP
    Addrs,        \* addresses of packets, as their bytes on the wire
    DestPorts, PacketProtos, IHLs, Sizes,   \* other fields of packets
    SubnetIP, SubnetMask,                   \* of wg_subnet, as their bytes
    LittleEndianHost,                       \* byte order of the host
    MaxStored     \* bound: rules in the table

TCP == 6
UDP == 17

\* Bound: addresses have two bytes instead of four.
Addr == [1 .. 2 -> 0 .. 255]

\* The text is an IPv4 address, one mapped into IPv6 (::ffff:a.b.c.d), or
\* any other IPv6 address.
AddrText == [form : {"v4", "mapped", "v6"}, bytes : Addr]

ASSUME TextAssumption ==
    /\ AddrTexts \subseteq AddrText
    /\ Ports \subseteq Int \ {0}
    /\ Protos \subseteq Int \ {0}

ASSUME PacketAssumption ==
    /\ Addrs \subseteq Addr
    /\ DestPorts \subseteq {n \in Nat : n < 65536}
    /\ PacketProtos \subseteq 0 .. 255
    /\ IHLs \subseteq 0 .. 15
    /\ Sizes \subseteq Nat

\* ParseCIDR masks the address; a mask byte is a run of ones and then zeros.
ASSUME HostAssumption ==
    /\ SubnetIP \in Addr
    /\ SubnetMask \in [1 .. 2 -> {0, 128, 192, 224, 240, 248, 252, 254, 255}]
    /\ \A i \in 1 .. 2 : SubnetIP[i] % (256 - SubnetMask[i]) = 0
    /\ LittleEndianHost \in BOOLEAN
    /\ MaxStored \in Nat

Rule   == [src : AddrTexts, dst : AddrTexts, port : Ports, proto : Protos]
Packet == [size : Sizes, ihl : IHLs, saddr : Addrs, daddr : Addrs,
           protocol : PacketProtos, dest : DestPorts]

VARIABLES
    stored,     \* the firewall_rules table
    peerRules   \* the keys in the peer_rules map, as their bytes in memory

vars == <<stored, peerRules>>

-----------------------------------------------------------------------------
(* Keys.                                                                   *)

LittleEndian(bytes) == bytes[1] + 256 * bytes[2]

\* A 16-bit number (32 bits for a real address) in the memory of the host.
Memory(n) ==
    IF LittleEndianHost THEN <<n % 256, n \div 256>> ELSE <<n \div 256, n % 256>>

NoKey == <<>>

\* NoKey when an address has no To4.  uint16(port), uint8(proto).
getRuleKey(r) ==
    IF r.src.form = "v6" \/ r.dst.form = "v6" THEN NoKey
    ELSE [src_ip |-> Memory(LittleEndian(r.src.bytes)),
          dst_ip |-> Memory(LittleEndian(r.dst.bytes)),
          port   |-> Memory(r.port % 65536),
          proto  |-> r.proto % 256]

-----------------------------------------------------------------------------
(* The program.                                                            *)

\* Byte by byte.
And(bytes, mask) == [i \in 1 .. 2 |-> bytes[i] - (bytes[i] % (256 - mask[i]))]

filter_net  == Memory(LittleEndian(SubnetIP))
filter_mask == Memory(LittleEndian(SubnetMask))

\* The address and the mask are compared as the packet and the variables
\* have them in memory; the port goes through bpf_ntohs.
packetKeyNetworkOrder(pkt) ==
    [src_ip |-> pkt.saddr, dst_ip |-> pkt.daddr,
     port |-> <<pkt.dest \div 256, pkt.dest % 256>>, proto |-> pkt.protocol]

packetKey(pkt) ==
    [src_ip |-> pkt.saddr, dst_ip |-> pkt.daddr,
     port |-> Memory(pkt.dest), proto |-> pkt.protocol]

Foreign(pkt) ==
    /\ filter_mask # <<0, 0>>
    /\ And(pkt.saddr, filter_mask) # filter_net

\* The whole IP header is there, and says so.
WellFormed(pkt) == pkt.size >= 20 /\ pkt.ihl >= 5

filter(pkt) ==
    IF ~ WellFormed(pkt) THEN "XDP_DROP"
    ELSE IF Foreign(pkt) THEN "XDP_PASS"
    ELSE IF pkt.protocol \notin {TCP, UDP} THEN "XDP_PASS"
    ELSE IF pkt.size < 4 * pkt.ihl + 8 THEN "XDP_DROP"
    ELSE IF packetKey(pkt) \in peerRules THEN "XDP_PASS"
    ELSE "XDP_DROP"

-----------------------------------------------------------------------------
Init ==
    /\ stored = {}
    /\ peerRules = {}

CreateRuleAnyKey(r) ==
    /\ r \notin stored
    /\ Cardinality(stored) < MaxStored
    /\ stored' = stored \cup {r}
    /\ peerRules' = peerRules \cup {getRuleKey(r)}

\* The row is stored also when it has no key.
CreateRule(r) ==
    /\ r \notin stored
    /\ Cardinality(stored) < MaxStored
    /\ stored' = stored \cup {r}
    /\ peerRules' = peerRules \cup ({getRuleKey(r)} \ {NoKey})

\* 500 for a rule without a key.
DeleteRule(r) ==
    /\ r \in stored
    /\ getRuleKey(r) # NoKey
    /\ stored' = stored \ {r}
    /\ peerRules' = peerRules \ {getRuleKey(r)}

Restart ==
    /\ peerRules' = {getRuleKey(r) : r \in stored} \ {NoKey}
    /\ UNCHANGED stored

Next ==
    \/ \E r \in Rule : CreateRule(r)
    \/ \E r \in stored : DeleteRule(r)
    \/ Restart

Spec == Init /\ [][Next]_vars

-----------------------------------------------------------------------------
MapKey == [src_ip : [1 .. 2 -> 0 .. 255], dst_ip : [1 .. 2 -> 0 .. 255],
           port : [1 .. 2 -> 0 .. 255], proto : 0 .. 255]

TypeOK ==
    /\ stored \subseteq Rule
    /\ peerRules \subseteq MapKey

\* The address that a text means is that of the packet.
Means(text, addr) == text.form # "v6" /\ text.bytes = addr

Names(r, pkt) ==
    /\ Means(r.src, pkt.saddr) /\ Means(r.dst, pkt.daddr)
    /\ r.port = pkt.dest /\ r.proto = pkt.protocol

InSubnet(addr) ==
    \A i \in 1 .. 2 : addr[i] \div (256 - SubnetMask[i]) =
                      SubnetIP[i] \div (256 - SubnetMask[i])

\* The rules as written decide: of the TCP and UDP packets whose source is in
\* the subnet, those pass that a stored rule names, and no others; other
\* well-formed packets pass, and malformed ones are dropped.
FilterMatchesRules ==
    \A pkt \in Packet :
        filter(pkt) = "XDP_PASS" <=>
            /\ pkt.size >= 20 /\ pkt.ihl >= 5
            /\ (InSubnet(pkt.saddr) /\ pkt.protocol \in {TCP, UDP}) =>
                   /\ pkt.size >= 4 * pkt.ihl + 8
                   /\ \E r \in stored : Names(r, pkt)
=============================================================================
