----------------------------- MODULE MCOverlay -----------------------------
(* Overlay with small sets: addresses are numbers, and the rules r12, r12b *)
(* and r21 run from 1 to 2, on another port from 1 to 2, and from 2 to 1.   *)
EXTENDS Overlay, TLC

CONSTANTS r12, r12b, r21, n1, n2

TwoIPs == 1 .. 2
OneIP  == {1}

\* "peer-<ip>" of the first address is n1, of the second n2.
Auto   == (1 :> n1) @@ (2 :> n2)
AutoOne == 1 :> n1

Src == [t \in RuleTexts |-> IF t = r21 THEN 2 ELSE 1]
Dst == [t \in RuleTexts |-> IF t = r21 THEN 1 ELSE 2]

\* One map key for every rule; no map key for r12 (IPv6 addresses).
OwnKey   == [t \in RuleTexts |-> t]
NoKeyR12 == [t \in RuleTexts |-> IF t = r12 THEN NoMapKey ELSE t]

\* Every rule and peer is on the one address.
SrcOne == [t \in RuleTexts |-> 1]

Symmetry == Permutations(Handlers) \cup Permutations(ValidKeys)
HandlerSymmetry == Permutations(Handlers)
=============================================================================
