----------------------------- MODULE RuleLedger -----------------------------
(***************************************************************************)
(* What the server promises of each firewall rule, apart from how handlers  *)
(* go about it: the table lists it and the filter enforces it, or neither,  *)
(* except while a request of its own is at work on it.  Requests for one    *)
(* rule that overlap, and one that fails, leave it in doubt, alone and only *)
(* until a restart finds room for it.                                       *)
(***************************************************************************)
CONSTANT RuleTexts

VARIABLES
    work,      \* work[t]: what requests do with rule t
    listed,    \* listed[t]: whether firewall_rules has it
    enforced   \* enforced[t]: whether peer_rules has its key

Work == {"idle", "creating", "deleting", "doubtful"}

Init ==
    /\ work = [t \in RuleTexts |-> "idle"]
    /\ listed = [t \in RuleTexts |-> FALSE]
    /\ enforced = [t \in RuleTexts |-> FALSE]

Same(t) ==
    /\ work'[t] = work[t]
    /\ listed'[t] = listed[t]
    /\ enforced'[t] = enforced[t]

Create(t) ==
    /\ work[t] = "idle" /\ work'[t] = "creating"
    /\ ~ listed[t] /\ listed'[t]
    /\ enforced'[t] = enforced[t]

Enforce(t) ==
    /\ work[t] = "creating" /\ work'[t] = "idle"
    /\ listed'[t] = listed[t]
    /\ enforced'[t]

Withdraw(t) ==
    /\ work[t] = "idle" /\ work'[t] = "deleting"
    /\ listed'[t] = listed[t]
    /\ enforced'[t] = enforced[t]

\* The row and the key go in either order, and the request ends with both or
\* with none gone.
Retract(t) ==
    /\ work[t] = "deleting" /\ work'[t] \in {"deleting", "idle"}
    /\ listed'[t] => listed[t]
    /\ enforced'[t] => enforced[t]
    /\ work'[t] = "idle" => listed'[t] = enforced'[t]

\* A second request, or the failure of the first.
Doubt(t) ==
    /\ work[t] \in {"creating", "deleting", "doubtful"}
    /\ work'[t] = "doubtful"

Restart(t) ==
    /\ listed'[t] = listed[t]
    /\ enforced'[t] => listed[t]
    /\ work'[t] = IF listed[t] = enforced'[t] THEN "idle" ELSE "doubtful"

Request(t) == Create(t) \/ Enforce(t) \/ Withdraw(t) \/ Retract(t) \/ Doubt(t)

Next ==
    \/ \A t \in RuleTexts : Request(t) \/ Same(t)
    \/ \A t \in RuleTexts : Restart(t)

Spec == Init /\ [][Next]_<<work, listed, enforced>>
=============================================================================
