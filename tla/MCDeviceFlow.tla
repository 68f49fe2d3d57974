---------------------------- MODULE MCDeviceFlow ----------------------------
(* DeviceFlow with model values, and the symmetry of their sets. *)
EXTENDS DeviceFlow, TLC

Symmetry == Permutations(Clients) \cup Permutations(Admins)
                \cup Permutations(Codes) \cup Permutations(Tokens)
                \cup Permutations(JoinReqs)
=============================================================================
