---------------------------- MODULE MCXdpFilter ----------------------------
(* XdpFilter with a few addresses: A and B are in the subnet 10.0/13, C is *)
(* A with its bytes reversed, and D is the first address after the subnet. *)
EXTENDS XdpFilter

A == <<10, 2>>
B == <<10, 7>>
C == <<2, 10>>
D == <<10, 8>>

V4(a)     == [form |-> "v4", bytes |-> a]
Mapped(a) == [form |-> "mapped", bytes |-> a]

\* No two of them are the same address.
Texts == {V4(A), Mapped(B), [form |-> "v6", bytes |-> A]}

PacketAddrs == {A, B, C, D}

Net  == <<10, 0>>
Mask == <<255, 248>>
=============================================================================
