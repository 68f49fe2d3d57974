---------------------------- MODULE DeviceGrant ----------------------------
(***************************************************************************)
(* What the device authorization flow promises, without clocks, polling,   *)
(* tokens or handlers: a device code is requested once, decided at most    *)
(* once, and an approval is redeemed by at most one join request; whatever *)
(* is not redeemed may lapse.  Nothing leaves "denied", "redeemed" or      *)
(* "lapsed" for any of the other outcomes.                                 *)
(***************************************************************************)
CONSTANTS
    Codes,      \* device codes, one per authorization request
    JoinReqs    \* POST /join requests

VARIABLES
    status,     \* status[d]: where code d is in its life
    redeemedBy  \* redeemedBy[d]: the join requests admitted on account of d

vars == <<status, redeemedBy>>

Undecided == {"pending"}
Open      == {"pending", "approved", "denied"}
Status    == {"none", "redeemed", "lapsed"} \cup Open

TypeOK ==
    /\ status \in [Codes -> Status]
    /\ redeemedBy \in [Codes -> SUBSET JoinReqs]

Init ==
    /\ status = [d \in Codes |-> "none"]
    /\ redeemedBy = [d \in Codes |-> {}]

Request(d) ==
    /\ status[d] = "none"
    /\ status' = [status EXCEPT ![d] = "pending"]
    /\ UNCHANGED redeemedBy

Decide(d) ==
    /\ status[d] \in Undecided
    /\ \E verdict \in {"approved", "denied"} :
           status' = [status EXCEPT ![d] = verdict]
    /\ UNCHANGED redeemedBy

Redeem(d, j) ==
    /\ status[d] = "approved"
    /\ status' = [status EXCEPT ![d] = "redeemed"]
    /\ redeemedBy' = [redeemedBy EXCEPT ![d] = {j}]

\* One clean-up drops any number of codes at once.
Lapse(S) ==
    /\ \A d \in S : status[d] \in Open
    /\ status' = [d \in Codes |-> IF d \in S THEN "lapsed" ELSE status[d]]
    /\ UNCHANGED redeemedBy

Next ==
    \/ \E d \in Codes : Request(d) \/ Decide(d)
    \/ \E d \in Codes, j \in JoinReqs : Redeem(d, j)
    \/ \E S \in SUBSET Codes : Lapse(S)

Spec == Init /\ [][Next]_vars
=============================================================================
