------------------------------ MODULE IPAlloc ------------------------------
(***************************************************************************)
(* NextAvailableIP: the search for the lowest free address of the subnet,  *)
(* with the 32-bit arithmetic of the code on addresses of W bits.  The      *)
(* addresses in use are those the query returned; what other requests do   *)
(* to the table meanwhile is in module Overlay.                            *)
(***************************************************************************)
EXTENDS Integers

CONSTANTS
    Top,       \* 2^W, the number of addresses
    Sizes,     \* the sizes 2^(W - prefix length) of the subnets
    NoIP

\* Subnets are aligned.  A /31 or /32 keeps clear of the last four addresses of
\* the space: nobody configures 255.255.255.254/31, and network + 2 would wrap
\* around there.
SubnetOf(base, size) ==
    /\ base \in 0 .. Top - size
    /\ base % size = 0
    /\ size < 4 => base + 4 <= Top

ASSUME AddressAssumption ==
    /\ Top \in Nat \ {0}
    /\ Sizes \subseteq 1 .. Top
    /\ NoIP \notin Nat

VARIABLES
    base, size,   \* the subnet
    used,         \* assignedIP of the peers
    candidate,
    pc,           \* "start", "loop", "found" or "full"
    result

vars == <<base, size, used, candidate, pc, result>>

Address == 0 .. Top - 1

\* ipInt | ^maskInt
broadcast == base + size - 1

Init ==
    /\ size \in Sizes
    /\ base \in {b \in Address : SubnetOf(b, size)}
    /\ used \in SUBSET Address
    /\ candidate = 0
    /\ pc = "start"
    /\ result = NoIP

\* Skip network and server.
First ==
    /\ pc = "start"
    /\ candidate' = (base + 2) % Top
    /\ pc' = "loop"
    /\ UNCHANGED <<base, size, used, result>>

MoreToBroadcast == candidate <= broadcast
More == candidate < broadcast

ProbeSame ==
    /\ pc = "loop"
    /\ More
    /\ candidate \notin used
    /\ result' = candidate
    /\ pc' = "found"
    /\ UNCHANGED <<base, size, used, candidate>>

Probe ==
    /\ pc = "loop"
    /\ More
    /\ IF candidate \notin used
       THEN /\ result' = candidate
            /\ pc' = "found"
            /\ UNCHANGED candidate
       ELSE /\ candidate' = (candidate + 1) % Top
            /\ UNCHANGED <<pc, result>>
    /\ UNCHANGED <<base, size, used>>

NoneLeft ==
    /\ pc = "loop"
    /\ ~ More
    /\ pc' = "full"
    /\ UNCHANGED <<base, size, used, candidate, result>>

Next == First \/ Probe \/ NoneLeft

Spec == Init /\ [][Next]_vars /\ WF_vars(Next)

-----------------------------------------------------------------------------
\* Proved, and used by the proofs.
TypeOK ==
    /\ base \in Address /\ size \in Sizes
    /\ used \subseteq Address
    /\ candidate \in Address
    /\ pc \in {"start", "loop", "found", "full"}
    /\ result \in Address \cup {NoIP}

\* The addresses a peer may have: those of the subnet but network, server
\* and broadcast.
Usable == (base + 2) .. (base + size - 2)

\* The address assigned is usable, free, and the lowest such; and the search
\* fails only when there is none.
LowestFree ==
    /\ pc = "found" =>
           /\ result \in Usable \ used
           /\ \A ip \in Usable \ used : result <= ip
    /\ pc = "full" => Usable \subseteq used

\* The search comes to an end: the candidate reaches a free address or the
\* broadcast address.
Terminates == <>(pc \in {"found", "full"})
=============================================================================
