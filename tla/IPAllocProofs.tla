--------------------------- MODULE IPAllocProofs ---------------------------
(* Proofs about IPAlloc, for address spaces and subnets of any size. *)
EXTENDS IPAlloc, TLAPS

\* An address below the top of the address space is not changed by its width.
LEMMA NoWrap == ASSUME NEW a \in 0 .. Top - 1 PROVE a % Top = a
BY AddressAssumption, Z3

\* The search is at a usable address or at the first one after those, and
\* everything usable below it is in use.
Searched ==
    /\ base \in 0 .. Top - size
    /\ size < 4 => base + 4 <= Top
    /\ pc = "loop" =>
           /\ candidate >= base + 2
           /\ candidate <= broadcast \/ candidate = base + 2
           /\ \A ip \in Usable : ip < candidate => ip \in used

IndInv == TypeOK /\ Searched /\ LowestFree

LEMMA InitIndInv == Init => IndInv
<1>1. SUFFICES ASSUME Init PROVE IndInv
  OBVIOUS
<1>2. TypeOK
  BY <1>1, AddressAssumption DEF Init, TypeOK, Address, SubnetOf
<1>3. Searched /\ LowestFree
  BY <1>1 DEF Init, Searched, LowestFree, SubnetOf
<1> QED
  BY <1>2, <1>3 DEF IndInv

LEMMA NextIndInv == IndInv /\ [Next]_vars => IndInv'
<1>s. SUFFICES ASSUME IndInv, [Next]_vars PROVE IndInv'
  OBVIOUS
<1>t. /\ base \in Nat /\ size \in Nat \ {0} /\ candidate \in Nat /\ Top \in Nat
      /\ base + size <= Top /\ base + 2 < Top
      /\ base \in Address /\ size \in Sizes
  BY <1>s, AddressAssumption DEF IndInv, TypeOK, Searched, Address
<1>1. CASE First
  <2>1. candidate' = base + 2
    BY <1>1, <1>t, NoWrap DEF First
  <2>2. TypeOK'
    BY <1>1, <1>s, <1>t, <2>1 DEF First, IndInv, TypeOK, Address
  <2>3. Searched'
    BY <1>1, <1>s, <1>t, <2>1 DEF First, IndInv, Searched, broadcast, Usable
  <2>4. LowestFree'
    BY <1>1 DEF First, LowestFree
  <2> QED
    BY <2>2, <2>3, <2>4 DEF IndInv
<1>2. CASE Probe
  <2>1. /\ pc = "loop" /\ candidate < base + size - 1 /\ candidate >= base + 2
        /\ \A ip \in Usable : ip < candidate => ip \in used
        /\ candidate \in Usable
    BY <1>2, <1>s, <1>t DEF Probe, More, broadcast, IndInv, Searched, Usable
  <2>2. CASE candidate \notin used
    <3>1. TypeOK' /\ Searched'
      BY <1>2, <1>s, <2>2 DEF Probe, IndInv, TypeOK, Searched
    <3>2. LowestFree'
      BY <1>2, <1>t, <2>1, <2>2 DEF Probe, LowestFree, Usable
    <3> QED
      BY <3>1, <3>2 DEF IndInv
  <2>3. CASE candidate \in used
    <3>1. candidate' = candidate + 1
      BY <1>2, <1>t, <2>1, <2>3, NoWrap DEF Probe
    <3>2. TypeOK'
      BY <1>2, <1>s, <1>t, <2>1, <2>3, <3>1 DEF Probe, IndInv, TypeOK, Address
    <3>3. \A ip \in Usable' : ip < candidate' => ip \in used'
      BY <1>2, <1>t, <2>1, <2>3, <3>1 DEF Probe, Usable
    <3>4. Searched'
      BY <1>2, <1>s, <1>t, <2>1, <3>1, <3>3 DEF Probe, IndInv, Searched, broadcast
    <3>5. LowestFree'
      BY <1>2, <2>1, <2>3 DEF Probe, LowestFree
    <3> QED
      BY <3>2, <3>4, <3>5 DEF IndInv
  <2> QED
    BY <2>2, <2>3
<1>3. CASE NoneLeft
  <2>1. TypeOK' /\ Searched'
    BY <1>3, <1>s DEF NoneLeft, IndInv, TypeOK, Searched
  <2>2. LowestFree'
    BY <1>3, <1>s, <1>t DEF NoneLeft, More, broadcast, IndInv, Searched, LowestFree, Usable
  <2> QED
    BY <2>1, <2>2 DEF IndInv
<1>4. CASE UNCHANGED vars
  BY <1>4, <1>s DEF vars, IndInv, TypeOK, Searched, LowestFree, Usable, broadcast
<1> QED
  BY <1>s, <1>1, <1>2, <1>3, <1>4 DEF Next

\* The address assigned to a peer is inside the subnet, is neither network,
\* server nor broadcast, is nobody's, and is the lowest such; a join is refused
\* for want of an address only when there is none.
THEOREM Allocation == Spec => []LowestFree
<1>1. IndInv => LowestFree
  BY DEF IndInv
<1> QED
  BY <1>1, InitIndInv, NextIndInv, PTL DEF Spec
=============================================================================
