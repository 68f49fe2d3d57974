---------------------------- MODULE OverlayProofs ----------------------------
(* Proofs about Overlay: types, and the firewall rules, for any number of   *)
(* handlers, peers, rules, failures and restarts.                           *)
EXTENDS Overlay, TLAPS

-----------------------------------------------------------------------------
(* Typing. *)

Typed == TypeOK /\ LocalInv

\* LocalInv for one handler.
LocalOK(x) ==
    /\ x.pc \in {"insert", "configure", "unconfigure", "select", "purge", "unfilter"}
          => x.name \in Names /\ x.key \in Keys /\ x.ip \in IPs
    /\ x.pc \in {"filter", "unmap", "unlist"} => x.text \in RuleTexts
    /\ x.todo # {} => x.pc \in {"purge", "unfilter"}
    /\ \A t \in x.todo : SrcIP[t] = x.ip

LEMMA Locals ==
    ASSUME h \in [Handlers -> Handler]
    PROVE  LocalInv <=> \A p \in Handlers : LocalOK(h[p])
<1>1. \A p \in Handlers : /\ h[p].name \in Names \cup {NoName}
                          /\ h[p].key \in Keys \cup {NoKey}
                          /\ h[p].ip \in IPs \cup {NoIP}
                          /\ h[p].text \in RuleTexts \cup {NoText}
  BY DEF Handler
<1>2. \A p \in Handlers : OnRow(p) <=>
         h[p].pc \in {"insert", "configure", "unconfigure", "select", "purge", "unfilter"}
  BY DEF OnRow, Joining, Deleting
<1>3. ASSUME NEW p \in Handlers
      PROVE  /\ (h[p].name # NoName) <=> (h[p].name \in Names)
             /\ (h[p].key # NoKey) <=> (h[p].key \in Keys)
             /\ (h[p].ip # NoIP) <=> (h[p].ip \in IPs)
             /\ (h[p].text # NoText) <=> (h[p].text \in RuleTexts)
  BY <1>1, OverlayAssumption
<1> QED
  BY <1>2, <1>3 DEF LocalInv, LocalOK, OnRule

\* What a step that gives handler p the state x has to show.
LEMMA Becomes ==
    ASSUME Typed, NEW p \in Handlers, NEW x \in Handler, LocalOK(x),
           h' = [h EXCEPT ![p] = x]
    PROVE  /\ h' \in [Handlers -> Handler]
           /\ LocalInv'
           /\ h'[p] = x
           /\ \A q \in Handlers \ {p} : h'[q] = h[q]
<1>1. h \in [Handlers -> Handler] /\ \A q \in Handlers : LocalOK(h[q])
  BY Locals DEF Typed, TypeOK
<1>2. h' \in [Handlers -> Handler] /\ h'[p] = x /\ \A q \in Handlers \ {p} : h'[q] = h[q]
  BY <1>1
<1>3. \A q \in Handlers : LocalOK(h'[q])
  BY <1>1, <1>2
<1>4. ASSUME NEW q \in Handlers
      PROVE  /\ OnRow(q)' <=> h'[q].pc \in {"insert", "configure", "unconfigure", "select",
                                            "purge", "unfilter"}
             /\ OnRule(q)' <=> h'[q].pc \in {"filter", "unmap", "unlist"}
  BY DEF OnRow, OnRule, Joining, Deleting
<1>5. LocalInv'
  BY <1>3, <1>4, OverlayAssumption DEF LocalInv, LocalOK
<1> QED
  BY <1>2, <1>5

\* The handler at rest, and one that went on to its next step, have their types.
LEMMA IdleTyped == Idle \in Handler /\ LocalOK(Idle)
BY OverlayAssumption DEF Idle, Handler, Pc, LocalOK

LEMMA FinishTyped ==
    ASSUME Typed, NEW p \in Handlers, Finish(p)
    PROVE  /\ h' \in [Handlers -> Handler]
           /\ LocalInv'
BY IdleTyped, Becomes DEF Finish

\* The row of a handler at work on one is a row.
LEMMA RowTyped ==
    ASSUME Typed, NEW p \in Handlers, OnRow(p)
    PROVE  Row(p) \in Peer
BY OverlayAssumption DEF Typed, TypeOK, LocalInv, Row, Peer, Handler

LEMMA StartTyped == Init => Typed
<1> SUFFICES ASSUME Init PROVE Typed
  OBVIOUS
<1> USE OverlayAssumption, IdleTyped
<1>1. TypeOK
  BY DEF Init, TypeOK
<1>2. LocalInv
  BY DEF Init, LocalInv, Idle, OnRow, OnRule, Joining, Deleting
<1> QED
  BY <1>1, <1>2 DEF Typed

LEMMA JoinTyped ==
    ASSUME Typed, NEW p \in Handlers, AddPeer(p) \/ DeviceAddPeer(p)
    PROVE  Typed'
<1> USE OverlayAssumption DEF Typed
<1>1. CASE AddPeer(p)
  <2>1. h[p].pc = "insert" /\ Row(p) \in Peer
    BY <1>1, RowTyped DEF AddPeer, OnRow
  <2>2. h' \in [Handlers -> Handler] /\ LocalInv'
    <3>1. CASE Finish(p)
      BY <3>1, FinishTyped
    <3>2. CASE h' = [h EXCEPT ![p].pc = "configure"]
      <4> DEFINE x == [h[p] EXCEPT !.pc = "configure"]
      <4>1. h' = [h EXCEPT ![p] = x]
        BY <3>2
      <4>2. LocalOK(h[p]) /\ h[p] \in Handler
        BY Locals DEF TypeOK
      <4>3. x \in Handler /\ LocalOK(x)
        BY <2>1, <4>2 DEF Handler, LocalOK, Pc
      <4> QED
        BY <4>1, <4>3, Becomes
    <3> QED
      BY <1>1, <3>1, <3>2 DEF AddPeer
  <2>3. suspectKeys' \subseteq Keys
    <3>1. \A q \in OnPeer(Row(p)) : h[q].key \in Keys
      BY RowTyped DEF OnPeer, OnRow, Row, Peer
    <3>2. Row(p).key \in Keys
      BY <2>1 DEF Peer
    <3> QED
      BY <1>1, <3>1, <3>2 DEF AddPeer, SuspectKeysWith, TypeOK
  <2> QED
    BY <1>1, <2>1, <2>2, <2>3 DEF AddPeer, TypeOK
<1>2. CASE DeviceAddPeer(p)
  <2>1. h[p].pc = "configure" /\ Row(p) \in Peer /\ Finish(p)
    BY <1>2, RowTyped DEF DeviceAddPeer, OnRow, Joining
  <2>2. h[p].key \in Keys /\ h[p].ip \in IPs
    BY <2>1 DEF Row, Peer
  <2>3. wg' \in [Keys -> IPs \cup {NoIP, NoPeer}] /\ link' \in BOOLEAN
    BY <1>2, <2>2 DEF DeviceAddPeer, Apply, ApplyFails, NoClient, Configured, TypeOK
  <2>4. faults' \in 0 .. MaxFaults
    BY <1>2 DEF DeviceAddPeer, Apply, ApplyFails, NoClient, TypeOK
  <2>5. joined' \subseteq Peer /\ suspectKeys' \subseteq Keys
    BY <1>2, <2>1, <2>2 DEF DeviceAddPeer, TypeOK
  <2>6. h' \in [Handlers -> Handler] /\ LocalInv'
    BY <2>1, FinishTyped
  <2> QED
    BY <1>2, <2>3, <2>4, <2>5, <2>6 DEF DeviceAddPeer, TypeOK
<1> QED
  BY <1>1, <1>2

LEMMA DeletionTyped ==
    ASSUME Typed, NEW p \in Handlers,
           \/ DeviceRemovePeer(p) \/ SelectRules(p) \/ DeleteRules(p)
           \/ \E t \in RuleTexts : RemoveFilter(p, t)
           \/ RemovePeer(p)
    PROVE  Typed'
<1> USE OverlayAssumption DEF Typed
<1>1. LocalOK(h[p]) /\ h[p] \in Handler
  BY Locals DEF TypeOK
<1>2. CASE DeviceRemovePeer(p)
  <2>1. h' \in [Handlers -> Handler] /\ LocalInv'
    <3>1. CASE Finish(p)
      BY <3>1, FinishTyped
    <3>2. CASE h' = [h EXCEPT ![p].pc = "select"]
      <4> DEFINE x == [h[p] EXCEPT !.pc = "select"]
      <4>1. x \in Handler /\ LocalOK(x)
        BY <1>1, <1>2 DEF Handler, LocalOK, Pc, DeviceRemovePeer
      <4> QED
        BY <3>2, <4>1, Becomes
    <3> QED
      BY <1>2, <3>1, <3>2 DEF DeviceRemovePeer
  <2>2. wg' \in [Keys -> IPs \cup {NoIP, NoPeer}] /\ link' \in BOOLEAN
    BY <1>2 DEF DeviceRemovePeer, Apply, ApplyFails, NoClient, TypeOK
  <2>3. faults' \in 0 .. MaxFaults
    BY <1>2 DEF DeviceRemovePeer, Apply, ApplyFails, NoClient, TypeOK
  <2> QED
    BY <1>2, <2>1, <2>2, <2>3 DEF DeviceRemovePeer, TypeOK
<1>3. CASE SelectRules(p)
  <2> DEFINE S == {t \in RuleTexts : Stored(t) /\ SrcIP[t] = h[p].ip}
             x == [h[p] EXCEPT !.pc = "purge", !.todo = S]
  <2>1. x \in Handler /\ LocalOK(x)
    BY <1>1, <1>3 DEF Handler, LocalOK, Pc, SelectRules
  <2>2. h' = [h EXCEPT ![p] = x]
    BY <1>3 DEF SelectRules
  <2> HIDE DEF x
  <2>3. h' \in [Handlers -> Handler] /\ LocalInv'
    BY <2>1, <2>2, Becomes
  <2> QED
    BY <1>3, <2>3 DEF SelectRules, TypeOK
<1>4. CASE DeleteRules(p)
  <2> DEFINE x == [h[p] EXCEPT !.pc = "unfilter"]
  <2>1. x \in Handler /\ LocalOK(x)
    BY <1>1, <1>4 DEF Handler, LocalOK, Pc, DeleteRules
  <2>2. h' \in [Handlers -> Handler] /\ LocalInv'
    BY <1>4, <2>1, Becomes DEF DeleteRules
  <2> QED
    BY <1>4, <2>2 DEF DeleteRules, TypeOK
<1>5. ASSUME NEW t \in RuleTexts, RemoveFilter(p, t)
      PROVE  Typed'
  <2> DEFINE x == [h[p] EXCEPT !.todo = @ \ {t}]
  <2>1. x \in Handler /\ LocalOK(x)
    BY <1>1, <1>5 DEF Handler, LocalOK, RemoveFilter
  <2>2. h' \in [Handlers -> Handler] /\ LocalInv'
    BY <1>5, <2>1, Becomes DEF RemoveFilter
  <2> QED
    BY <1>5, <2>2 DEF RemoveFilter, TypeOK
<1>6. CASE RemovePeer(p)
  <2>1. Row(p) \in Peer /\ h' \in [Handlers -> Handler] /\ LocalInv'
    BY <1>6, RowTyped, FinishTyped DEF RemovePeer, OnRow, Deleting
  <2> QED
    BY <1>6, <2>1 DEF RemovePeer, TypeOK
<1> QED
  BY <1>2, <1>3, <1>4, <1>5, <1>6

LEMMA RuleTyped ==
    ASSUME Typed, NEW p \in Handlers,
           \/ \E t \in RuleTexts : AddRule(p, t)
           \/ \E r \in rules : GetRuleByID(p, r)
           \/ AddPeerRule(p) \/ RemovePeerRule(p) \/ RemoveRule(p)
    PROVE  Typed'
<1> USE OverlayAssumption DEF Typed
<1>1. LocalOK(h[p]) /\ h[p] \in Handler
  BY Locals DEF TypeOK
<1>2. ASSUME NEW t \in RuleTexts, AddRule(p, t)
      PROVE  Typed'
  <2> DEFINE x == [Idle EXCEPT !.pc = "filter", !.text = t]
  <2>1. x \in Handler /\ LocalOK(x)
    BY IdleTyped DEF Idle, Handler, LocalOK, Pc
  <2>2. h' \in [Handlers -> Handler] /\ LocalInv'
    BY <1>2, <2>1, Becomes DEF AddRule
  <2>3. nextId \in 1 .. MaxId /\ [id |-> nextId, text |-> t] \in Rule
    <3>1. nextId \in 1 .. MaxId + 1 /\ nextId <= MaxId /\ MaxId \in Nat
      BY <1>2 DEF AddRule, TypeOK
    <3> QED
      BY <3>1 DEF Rule
  <2>4. rules' \subseteq Rule /\ nextId' \in 1 .. MaxId + 1
    <3>1. rules' = rules \cup {[id |-> nextId, text |-> t]} /\ nextId' = nextId + 1
      BY <1>2 DEF AddRule
    <3>2. rules \subseteq Rule /\ MaxId \in Nat
      BY DEF TypeOK
    <3> QED
      BY <2>3, <3>1, <3>2
  <2> QED
    BY <1>2, <2>2, <2>4 DEF AddRule, TypeOK
<1>3. ASSUME NEW r \in rules, GetRuleByID(p, r)
      PROVE  Typed'
  <2> DEFINE x == [Idle EXCEPT !.pc = "unmap", !.text = r.text, !.id = r.id]
  <2>1. r.text \in RuleTexts /\ r.id \in 0 .. MaxId
    BY DEF TypeOK, Rule
  <2>2. x \in Handler /\ LocalOK(x)
    BY <2>1, IdleTyped DEF Idle, Handler, LocalOK, Pc
  <2>3. h' \in [Handlers -> Handler] /\ LocalInv'
    BY <1>3, <2>2, Becomes DEF GetRuleByID
  <2> QED
    BY <1>3, <2>1, <2>3 DEF GetRuleByID, TypeOK
<1>4. CASE AddPeerRule(p)
  <2>1. h' \in [Handlers -> Handler] /\ LocalInv'
    BY <1>4, FinishTyped DEF AddPeerRule
  <2>2. h[p].text \in RuleTexts
    BY <1>1, <1>4 DEF LocalOK, AddPeerRule
  <2> QED
    BY <1>4, <2>1, <2>2 DEF AddPeerRule, TypeOK, MapKeys
<1>5. CASE RemovePeerRule(p)
  <2>1. h' \in [Handlers -> Handler] /\ LocalInv'
    <3> DEFINE x == [h[p] EXCEPT !.pc = "unlist"]
    <3>1. x \in Handler /\ LocalOK(x)
      BY <1>1, <1>5 DEF Handler, LocalOK, Pc, RemovePeerRule
    <3> QED
      BY <1>5, <3>1, Becomes, FinishTyped DEF RemovePeerRule
  <2> QED
    BY <1>5, <2>1 DEF RemovePeerRule, TypeOK
<1>6. CASE RemoveRule(p)
  <2>1. h' \in [Handlers -> Handler] /\ LocalInv'
    BY <1>6, FinishTyped DEF RemoveRule
  <2> QED
    BY <1>6, <2>1 DEF RemoveRule, TypeOK
<1> QED
  BY <1>2, <1>3, <1>4, <1>5, <1>6

LEMMA RequestTyped ==
    ASSUME Typed, NEW p \in Handlers,
           \/ \E key \in Keys, asked \in JoinNames : NextAvailableIP(p, key, asked)
           \/ \E row \in peers : GetPeerByName(p, row)
    PROVE  Typed'
<1> USE OverlayAssumption DEF Typed
<1>1. ASSUME NEW key \in Keys, NEW asked \in JoinNames, NextAvailableIP(p, key, asked)
      PROVE  Typed'
  <2> DEFINE x(ip) == [Idle EXCEPT !.pc = "insert", !.key = key, !.ip = ip,
                                   !.name = IF asked = NoName THEN AutoName[ip] ELSE asked]
  <2>1. PICK ip \in IPs : h' = [h EXCEPT ![p] = x(ip)]
    BY <1>1 DEF NextAvailableIP
  <2>2. x(ip) \in Handler /\ LocalOK(x(ip))
    BY IdleTyped DEF Idle, Handler, LocalOK, Pc
  <2> HIDE DEF x
  <2>3. h' \in [Handlers -> Handler] /\ LocalInv'
    BY <2>1, <2>2, Becomes
  <2>4. joins' \in 0 .. MaxJoins
    <3>1. joins < MaxJoins /\ joins' = joins + 1
      BY <1>1 DEF NextAvailableIP
    <3>2. joins \in 0 .. MaxJoins /\ MaxJoins \in Nat
      BY DEF TypeOK
    <3> QED
      BY <3>1, <3>2
  <2> QED
    BY <1>1, <2>3, <2>4 DEF NextAvailableIP, TypeOK
<1>2. ASSUME NEW row \in peers, GetPeerByName(p, row)
      PROVE  Typed'
  <2> DEFINE x == [Idle EXCEPT !.pc = "unconfigure", !.name = row.name,
                               !.key = row.key, !.ip = row.ip]
  <2>1. row.name \in Names /\ row.key \in Keys /\ row.ip \in IPs
    BY DEF TypeOK, Peer
  <2>2. x \in Handler /\ LocalOK(x)
    BY <2>1, IdleTyped DEF Idle, Handler, LocalOK, Pc
  <2> HIDE DEF x
  <2>3. h' \in [Handlers -> Handler] /\ LocalInv'
    BY <1>2, <2>2, Becomes DEF GetPeerByName, x
  <2>4. \A q \in OnPeer(row) : h[q].key \in Keys
    BY RowTyped DEF OnPeer, OnRow, Row, Peer
  <2>5. suspectKeys' \subseteq Keys /\ suspectRules' \subseteq RuleTexts
    <3>1. RulesInHand \subseteq RuleTexts
      BY DEF RulesInHand, RulesOf, TypeOK, LocalInv, Handler
    <3>2. SuspectKeysWith(row) \subseteq Keys
      BY <2>1, <2>4 DEF SuspectKeysWith, TypeOK
    <3> QED
      BY <1>2, <3>1, <3>2 DEF GetPeerByName, TypeOK
  <2> QED
    BY <1>2, <2>3, <2>5 DEF GetPeerByName, TypeOK
<1> QED
  BY <1>1, <1>2

LEMMA FailureTyped ==
    ASSUME Typed, NEW p \in Handlers, StatementFails(p) \/ MapFails(p)
    PROVE  Typed'
<1> USE OverlayAssumption DEF Typed
<1>1. LocalOK(h[p]) /\ h[p] \in Handler
  BY Locals DEF TypeOK
<1>2. CASE StatementFails(p)
  <2>1. h' \in [Handlers -> Handler] /\ LocalInv'
    BY <1>2, FinishTyped DEF StatementFails
  <2>2. suspectKeys' \subseteq Keys
    BY <1>2, RowTyped DEF StatementFails, TypeOK, KeyInHand, OnRow, Row, Peer
  <2>3. suspectRules' \subseteq RuleTexts
    BY <1>1, <1>2 DEF StatementFails, TypeOK, LocalOK
  <2> QED
    BY <1>2, <2>1, <2>2, <2>3 DEF StatementFails, TypeOK
<1>3. CASE MapFails(p)
  <2>1. faults' \in 0 .. MaxFaults
    BY <1>3 DEF MapFails, TypeOK
  <2>2. CASE h[p].pc \in {"filter", "unmap"}
    <3>1. Finish(p) /\ suspectRules' \subseteq suspectRules \cup {h[p].text}
      BY <1>3, <2>2 DEF MapFails
    <3>2. h' \in [Handlers -> Handler] /\ LocalInv'
      BY <3>1, FinishTyped
    <3>3. suspectRules' \subseteq RuleTexts
      BY <1>1, <2>2, <3>1 DEF LocalOK, TypeOK
    <3> QED
      BY <1>3, <2>1, <3>2, <3>3 DEF MapFails, TypeOK
  <2>3. CASE h[p].pc = "unfilter"
    <3>1. PICK t \in h[p].todo : /\ h' = [h EXCEPT ![p].todo = @ \ {t}]
                                 /\ suspectRules' = suspectRules \cup {t}
      BY <1>3, <2>3 DEF MapFails
    <3> DEFINE x == [h[p] EXCEPT !.todo = @ \ {t}]
    <3>2. x \in Handler /\ LocalOK(x) /\ t \in RuleTexts
      BY <1>1, <2>3 DEF Handler, LocalOK
    <3>3. h' \in [Handlers -> Handler] /\ LocalInv'
      BY <3>1, <3>2, Becomes
    <3> QED
      BY <1>3, <2>1, <3>1, <3>2, <3>3 DEF MapFails, TypeOK
  <2> QED
    BY <1>3, <2>2, <2>3 DEF MapFails
<1> QED
  BY <1>2, <1>3

LEMMA RestartTyped ==
    ASSUME Typed, Shutdown \/ Restart
    PROVE  Typed'
<1> USE OverlayAssumption DEF Typed
<1>1. CASE Shutdown
  BY <1>1 DEF Shutdown, TypeOK, LocalInv, OnRow, OnRule, Joining, Deleting
<1>2. CASE Restart
  <2>1. h' \in [Handlers -> Handler]
    BY <1>2, IdleTyped DEF Restart
  <2>2. LocalInv'
    BY <1>2 DEF Restart, LocalInv, Idle, OnRow, OnRule, Joining, Deleting
  <2>3. wg' \in [Keys -> IPs \cup {NoIP, NoPeer}] /\ faults' \in 0 .. MaxFaults
    BY <1>2 DEF Restart, RestoredPeers, TypeOK
  <2>4. xdp' \subseteq MapKeys /\ suspectRules' \subseteq RuleTexts
    BY <1>2 DEF Restart, RestoredRules, StoredKeys, MapKeys, TypeOK, Rule
  <2>5. suspectKeys' \subseteq Keys
    BY <1>2 DEF Restart, TypeOK, Peer
  <2> QED
    BY <1>2, <2>1, <2>2, <2>3, <2>4, <2>5 DEF Restart, TypeOK
<1> QED
  BY <1>1, <1>2

LEMMA StepTyped == Typed /\ [Next]_vars => Typed'
<1> SUFFICES ASSUME Typed, [Next]_vars PROVE Typed'
  OBVIOUS
<1>1. ASSUME NEW p \in Handlers, Request(p) PROVE Typed'
  BY <1>1, RequestTyped, RuleTyped DEF Request
<1>2. ASSUME NEW p \in Handlers, Step(p) PROVE Typed'
  BY <1>2, JoinTyped, DeletionTyped, RuleTyped, FailureTyped DEF Step
<1>3. CASE UNCHANGED vars
  BY <1>3 DEF vars, Typed, TypeOK, LocalInv, OnRow, OnRule, Joining, Deleting
<1> QED
  BY <1>1, <1>2, <1>3, RestartTyped DEF Next

\* The tables, the interface, the map and the handlers keep their types.
THEOREM OverlayTyped == Spec => []TypeOK
<1>1. Spec => []Typed
  BY StartTyped, StepTyped, PTL DEF Spec
<1> QED
  BY <1>1, PTL DEF Typed

-----------------------------------------------------------------------------
(* The rules.  Two rules may not share a key of the filter's map: where     *)
(* they do, withdrawing one switches the other off.                         *)

DistinctKeys ==
    \A t, u \in RuleTexts : (MapKey[t] = MapKey[u] /\ MapKey[t] # NoMapKey) => t = u

\* A key in the map is that of one rule.
LEMMA KeyOfOne ==
    ASSUME DistinctKeys, TypeOK, NEW t \in RuleTexts, NEW u \in RuleTexts,
           Enforced(t), MapKey[t] = MapKey[u]
    PROVE  t = u
BY DEF DistinctKeys, TypeOK, MapKeys, Enforced

\* A step of handler p that rule t is not concerned by.
Elsewhere(p, t) ==
    /\ t \notin RulesOf(p) /\ t \notin RulesOf(p)'
    /\ \A r \in Rule : r.text = t => (r \in rules <=> r \in rules')
    /\ Stored(t)' <=> Stored(t)
    /\ Enforced(t)' <=> Enforced(t)

\* What becomes of rule t in a step of the one handler at work on it.
Move(p, t) ==
    \/ /\ t \notin RulesOf(p) /\ t \in RulesOf(p)' /\ h'[p].pc = "filter"
       /\ ~ Stored(t) /\ Stored(t)' /\ (Enforced(t)' <=> Enforced(t))
    \/ /\ t \notin RulesOf(p) /\ t \in RulesOf(p)' /\ h'[p].pc # "filter"
       /\ (Stored(t)' <=> Stored(t)) /\ (Enforced(t)' <=> Enforced(t))
    \/ /\ t \in RulesOf(p) /\ t \notin RulesOf(p)' /\ h[p].pc = "filter"
       /\ (Stored(t)' <=> Stored(t)) /\ Enforced(t)'
    \/ /\ t \in RulesOf(p) /\ h[p].pc # "filter"
       /\ t \in RulesOf(p)' => h'[p].pc # "filter"
       /\ Stored(t)' => Stored(t)
       /\ Enforced(t)' => Enforced(t)

Here(p, t) ==
    /\ \A q \in Handlers \ {p} : t \notin RulesOf(q)
    /\ t \in RulesOf(p)' => RuleProgress(p, t)'
    /\ t \notin RulesOf(p)' => (Stored(t)' <=> Enforced(t)')
    /\ Move(p, t)

\* Handler p moves, and no rule outside suspectRules is harmed.
OthersRest(p) ==
    /\ suspectRules \subseteq suspectRules'
    /\ suspectRules' \subseteq suspectRules \cup RulesInHand
    /\ \A q \in Handlers \ {p} : h'[q] = h[q]

RuleStep(p) ==
    /\ OthersRest(p)
    /\ \A t \in RuleTexts \ suspectRules' : Elsewhere(p, t) \/ Here(p, t)

\* What a handler is at work on depends on its own locals alone.
LEMMA SameRules ==
    ASSUME NEW q \in Handlers, h'[q] = h[q]
    PROVE  RulesOf(q)' = RulesOf(q)
BY DEF RulesOf, OnRule, Deleting

LEMMA KeptElsewhere ==
    ASSUME TypeOK, NEW p \in Handlers, NEW t \in RuleTexts, RuleKept(t),
           OthersRest(p), Elsewhere(p, t)
    PROVE  RuleKept(t)'
<1>1. \A q \in Handlers : t \in RulesOf(q)' <=> t \in RulesOf(q)
  BY SameRules DEF OthersRest, Elsewhere
<1>2. (t \in RulesInHand)' <=> t \in RulesInHand
  BY <1>1 DEF RulesInHand
<1>3. ASSUME NEW q \in Handlers, t \in RulesOf(q)
      PROVE  RuleProgress(q, t)'
  <2>1. q # p /\ h'[q] = h[q] /\ RuleProgress(q, t)
    BY <1>3 DEF OthersRest, Elsewhere, RuleKept
  <2>2. [id |-> h[q].id, text |-> t] \in rules
           => [id |-> h[q].id, text |-> t] \in rules'
    BY DEF Elsewhere, TypeOK
  <2> QED
    BY <2>1, <2>2 DEF RuleProgress, Elsewhere
<1> QED
  BY <1>1, <1>2, <1>3 DEF RuleKept, Elsewhere

LEMMA KeptHere ==
    ASSUME NEW p \in Handlers, NEW t \in RuleTexts, OthersRest(p), Here(p, t)
    PROVE  RuleKept(t)'
<1>1. \A q \in Handlers \ {p} : t \notin RulesOf(q)'
  BY SameRules DEF OthersRest, Here
<1>2. (t \in RulesInHand)' <=> t \in RulesOf(p)'
  BY <1>1 DEF RulesInHand
<1> QED
  BY <1>1, <1>2 DEF RuleKept, Here

LEMMA RuleStepKeeps ==
    ASSUME RuleInv, NEW p \in Handlers, RuleStep(p)
    PROVE  \A t \in RuleTexts \ suspectRules' : RuleKept(t)'
BY KeptElsewhere, KeptHere DEF RuleInv, RuleStep, OthersRest

\* Steps that leave the rules and the map alone, and p without a new rule.
LEMMA NoRuleTouched ==
    ASSUME NEW p \in Handlers, OthersRest(p), UNCHANGED <<rules, xdp>>,
           NEW t \in RuleTexts, t \notin RulesOf(p), t \notin RulesOf(p)'
    PROVE  Elsewhere(p, t)
BY DEF Elsewhere, Stored, Enforced

LEMMA JoinRuleStep ==
    ASSUME RuleInv, NEW p \in Handlers,
           \/ \E key \in Keys, asked \in JoinNames : NextAvailableIP(p, key, asked)
           \/ AddPeer(p) \/ DeviceAddPeer(p)
    PROVE  RuleStep(p)
<1>1. UNCHANGED <<rules, xdp, suspectRules>>
  BY DEF NextAvailableIP, AddPeer, DeviceAddPeer
<1>2. /\ \A q \in Handlers \ {p} : h'[q] = h[q]
      /\ h[p].pc \in {"idle", "insert", "configure"}
      /\ h'[p].pc \in {"idle", "insert", "configure"}
  <2> USE DEF RuleInv, TypeOK, Handler, Finish, Idle
  <2>1. CASE \E key \in Keys, asked \in JoinNames : NextAvailableIP(p, key, asked)
    <3>1. h[p].pc = "idle" /\ \E y \in Handler : y.pc = "insert" /\ h' = [h EXCEPT ![p] = y]
      <4>1. PICK key \in Keys, asked \in JoinNames, ip \in IPs :
               /\ h[p].pc = "idle"
               /\ h' = [h EXCEPT ![p] =
                           [Idle EXCEPT !.pc = "insert", !.key = key, !.ip = ip,
                                        !.name = IF asked = NoName THEN AutoName[ip]
                                                 ELSE asked]]
        BY <2>1 DEF NextAvailableIP
      <4>2. (IF asked = NoName THEN AutoName[ip] ELSE asked) \in Names
        BY OverlayAssumption
      <4> QED
        BY <4>1, <4>2, IdleTyped DEF Idle, Handler, Pc
    <3> QED
      BY <3>1
  <2>2. CASE AddPeer(p)
    BY <2>2 DEF AddPeer
  <2>3. CASE DeviceAddPeer(p)
    BY <2>3 DEF DeviceAddPeer
  <2> QED
    BY <2>1, <2>2, <2>3
<1>3. RulesOf(p) = {} /\ RulesOf(p)' = {}
  BY <1>2 DEF RulesOf, OnRule, Deleting
<1>4. OthersRest(p)
  BY <1>1, <1>2 DEF OthersRest
<1> QED
  BY <1>1, <1>3, <1>4, NoRuleTouched DEF RuleStep

\* A handler at work on a rule outside suspectRules is alone, and has come so
\* far as RuleProgress says; without one the table and the filter agree.
LEMMA AloneOnRule ==
    ASSUME RuleInv, NEW t \in RuleTexts \ suspectRules
    PROVE  /\ \A p \in Handlers : t \in RulesOf(p) =>
                 /\ \A q \in Handlers \ {p} : t \notin RulesOf(q)
                 /\ RuleProgress(p, t)
           /\ t \notin RulesInHand =>
                 /\ \A q \in Handlers : t \notin RulesOf(q)
                 /\ Stored(t) <=> Enforced(t)
BY DEF RuleInv, RuleKept, RulesInHand

LEMMA LookUpRuleStep ==
    ASSUME RuleInv, NEW p \in Handlers, NEW row \in peers, GetPeerByName(p, row)
    PROVE  RuleStep(p)
<1>1. /\ UNCHANGED <<rules, xdp>>
      /\ suspectRules' = suspectRules \cup {t \in RulesInHand : SrcIP[t] = row.ip}
      /\ h[p].pc = "idle" /\ h'[p].pc = "unconfigure" /\ h'[p].ip = row.ip
      /\ \A q \in Handlers \ {p} : h'[q] = h[q]
  BY DEF GetPeerByName, RuleInv, TypeOK, Handler, Idle
<1>2. RulesOf(p) = {} /\ RulesOf(p)' = {t \in RuleTexts : SrcIP[t] = row.ip}
  BY <1>1 DEF RulesOf, OnRule, Deleting
<1>3. OthersRest(p)
  BY <1>1 DEF OthersRest
<1>4. ASSUME NEW t \in RuleTexts \ suspectRules', SrcIP[t] = row.ip
      PROVE  Here(p, t)
  <2>1. t \notin suspectRules /\ t \notin RulesInHand
    BY <1>1, <1>4
  <2>2. /\ \A q \in Handlers : t \notin RulesOf(q)
        /\ Stored(t) <=> Enforced(t)
    BY <2>1, AloneOnRule
  <2>3. (Stored(t)' <=> Stored(t)) /\ (Enforced(t)' <=> Enforced(t))
    BY <1>1 DEF Stored, Enforced
  <2>4. RuleProgress(p, t)'
    BY <1>1, <2>2, <2>3 DEF RuleProgress
  <2>5. Move(p, t)
    BY <1>1, <1>2, <1>4, <2>3 DEF Move
  <2> QED
    BY <1>2, <1>4, <2>2, <2>4, <2>5 DEF Here
<1>5. ASSUME NEW t \in RuleTexts, SrcIP[t] # row.ip
      PROVE  Elsewhere(p, t)
  BY <1>1, <1>2, <1>3, <1>5, NoRuleTouched
<1> QED
  BY <1>3, <1>4, <1>5 DEF RuleStep

LEMMA DeviceRemoveRuleStep ==
    ASSUME RuleInv, NEW p \in Handlers, DeviceRemovePeer(p)
    PROVE  RuleStep(p)
<1>1. /\ UNCHANGED <<rules, xdp, suspectRules>>
      /\ h[p].pc = "unconfigure"
      /\ h'[p].pc \in {"select", "idle"}
      /\ h'[p].pc = "select" => h'[p].ip = h[p].ip
      /\ \A q \in Handlers \ {p} : h'[q] = h[q]
  BY DEF DeviceRemovePeer, RuleInv, TypeOK, Handler, Idle, Finish
<1>2. /\ RulesOf(p) = {t \in RuleTexts : SrcIP[t] = h[p].ip}
      /\ RulesOf(p)' \in {RulesOf(p), {}}
  BY <1>1 DEF RulesOf, OnRule, Deleting
<1>3. OthersRest(p)
  BY <1>1 DEF OthersRest
<1>4. ASSUME NEW t \in RuleTexts \ suspectRules', t \in RulesOf(p)
      PROVE  Here(p, t)
  <2>1. /\ \A q \in Handlers \ {p} : t \notin RulesOf(q)
        /\ Stored(t) <=> Enforced(t)
    BY <1>1, <1>4, AloneOnRule DEF RuleProgress
  <2>2. (Stored(t)' <=> Stored(t)) /\ (Enforced(t)' <=> Enforced(t))
    BY <1>1 DEF Stored, Enforced
  <2>3. RuleProgress(p, t)'
    BY <1>1, <2>1, <2>2 DEF RuleProgress
  <2>4. Move(p, t)
    BY <1>1, <1>4, <2>2 DEF Move
  <2> QED
    BY <2>1, <2>2, <2>3, <2>4 DEF Here
<1>5. ASSUME NEW t \in RuleTexts, t \notin RulesOf(p)
      PROVE  Elsewhere(p, t)
  BY <1>1, <1>2, <1>3, <1>5, NoRuleTouched
<1> QED
  BY <1>3, <1>4, <1>5 DEF RuleStep

LEMMA SelectRuleStep ==
    ASSUME RuleInv, NEW p \in Handlers, SelectRules(p)
    PROVE  RuleStep(p)
<1>1. /\ UNCHANGED <<rules, xdp, suspectRules>>
      /\ h[p].pc = "select" /\ h'[p].pc = "purge" /\ h'[p].ip = h[p].ip
      /\ h'[p].todo = {t \in RuleTexts : Stored(t) /\ SrcIP[t] = h[p].ip}
      /\ \A q \in Handlers \ {p} : h'[q] = h[q]
  BY DEF SelectRules, RuleInv, TypeOK, Handler
<1>2. /\ RulesOf(p) = {t \in RuleTexts : SrcIP[t] = h[p].ip}
      /\ RulesOf(p)' = RulesOf(p)
  BY <1>1 DEF RulesOf, OnRule, Deleting
<1>3. OthersRest(p)
  BY <1>1 DEF OthersRest
<1>4. ASSUME NEW t \in RuleTexts \ suspectRules', t \in RulesOf(p)
      PROVE  Here(p, t)
  <2>1. /\ \A q \in Handlers \ {p} : t \notin RulesOf(q)
        /\ Stored(t) <=> Enforced(t)
    BY <1>1, <1>4, AloneOnRule DEF RuleProgress
  <2>2. (Stored(t)' <=> Stored(t)) /\ (Enforced(t)' <=> Enforced(t))
    BY <1>1 DEF Stored, Enforced
  <2>3. RuleProgress(p, t)'
    BY <1>1, <1>2, <1>4, <2>1, <2>2 DEF RuleProgress
  <2>4. Move(p, t)
    BY <1>1, <1>4, <2>2 DEF Move
  <2> QED
    BY <1>2, <1>4, <2>1, <2>3, <2>4 DEF Here
<1>5. ASSUME NEW t \in RuleTexts, t \notin RulesOf(p)
      PROVE  Elsewhere(p, t)
  BY <1>1, <1>2, <1>3, <1>5, NoRuleTouched
<1> QED
  BY <1>3, <1>4, <1>5 DEF RuleStep

LEMMA DeleteRulesRuleStep ==
    ASSUME RuleInv, NEW p \in Handlers, DeleteRules(p)
    PROVE  RuleStep(p)
<1>1. /\ UNCHANGED <<xdp, suspectRules>>
      /\ rules' = {r \in rules : SrcIP[r.text] # h[p].ip}
      /\ h[p].pc = "purge" /\ h'[p].pc = "unfilter" /\ h'[p].ip = h[p].ip
      /\ h'[p].todo = h[p].todo
      /\ \A q \in Handlers \ {p} : h'[q] = h[q]
  BY DEF DeleteRules, RuleInv, TypeOK, Handler
<1>2. /\ RulesOf(p) = {t \in RuleTexts : SrcIP[t] = h[p].ip}
      /\ RulesOf(p)' = RulesOf(p)
  BY <1>1 DEF RulesOf, OnRule, Deleting
<1>3. OthersRest(p)
  BY <1>1 DEF OthersRest
<1>4. ASSUME NEW t \in RuleTexts \ suspectRules', t \in RulesOf(p)
      PROVE  Here(p, t)
  <2>1. /\ \A q \in Handlers \ {p} : t \notin RulesOf(q)
        /\ Stored(t) <=> Enforced(t)
        /\ t \in h[p].todo <=> Stored(t)
    BY <1>1, <1>4, AloneOnRule DEF RuleProgress
  <2>2. ~ Stored(t)' /\ (Enforced(t)' <=> Enforced(t))
    BY <1>1, <1>2, <1>4 DEF Stored, Enforced
  <2>3. RuleProgress(p, t)'
    BY <1>1, <1>2, <1>4, <2>1, <2>2 DEF RuleProgress
  <2>4. Move(p, t)
    BY <1>1, <1>4, <2>2 DEF Move
  <2> QED
    BY <1>2, <1>4, <2>1, <2>3, <2>4 DEF Here
<1>5. ASSUME NEW t \in RuleTexts, t \notin RulesOf(p)
      PROVE  Elsewhere(p, t)
  BY <1>1, <1>2, <1>5 DEF Elsewhere, Stored, Enforced
<1> QED
  BY <1>3, <1>4, <1>5 DEF RuleStep

LEMMA RemoveFilterRuleStep ==
    ASSUME DistinctKeys, RuleInv, NEW p \in Handlers, NEW u \in RuleTexts, RemoveFilter(p, u)
    PROVE  RuleStep(p)
<1>1. /\ UNCHANGED <<rules, suspectRules>>
      /\ xdp' = xdp \ {MapKey[u]}
      /\ h[p].pc = "unfilter" /\ h'[p].pc = "unfilter" /\ h'[p].ip = h[p].ip
      /\ u \in h[p].todo
      /\ h'[p].todo = h[p].todo \ {u}
      /\ \A q \in Handlers \ {p} : h'[q] = h[q]
  BY DEF RemoveFilter, RuleInv, TypeOK, Handler
<1>2. /\ RulesOf(p) = {t \in RuleTexts : SrcIP[t] = h[p].ip}
      /\ RulesOf(p)' = RulesOf(p)
      /\ u \in RulesOf(p)
  BY <1>1 DEF RulesOf, OnRule, Deleting, RuleInv, LocalInv
<1>3. OthersRest(p)
  BY <1>1 DEF OthersRest
<1>4. \A t \in RuleTexts \ {u} : Enforced(t)' <=> Enforced(t)
  BY <1>1, KeyOfOne DEF RuleInv, Enforced
<1>5. ASSUME NEW t \in RuleTexts \ suspectRules', t \in RulesOf(p)
      PROVE  Here(p, t)
  <2>1. /\ \A q \in Handlers \ {p} : t \notin RulesOf(q)
        /\ ~ Stored(t) /\ (t \in h[p].todo <=> Enforced(t))
    BY <1>1, <1>5, AloneOnRule DEF RuleProgress
  <2>2. Stored(t)' <=> Stored(t)
    BY <1>1 DEF Stored
  <2>3. Enforced(t)' <=> (Enforced(t) /\ t # u)
    BY <1>1, <1>4 DEF Enforced
  <2>4. RuleProgress(p, t)'
    BY <1>1, <2>1, <2>2, <2>3 DEF RuleProgress
  <2>5. Move(p, t)
    BY <1>1, <1>5, <2>2, <2>3 DEF Move
  <2> QED
    BY <1>2, <1>5, <2>1, <2>4, <2>5 DEF Here
<1>6. ASSUME NEW t \in RuleTexts, t \notin RulesOf(p)
      PROVE  Elsewhere(p, t)
  BY <1>1, <1>2, <1>4, <1>6 DEF Elsewhere, Stored
<1> QED
  BY <1>3, <1>5, <1>6 DEF RuleStep

LEMMA RemovePeerRuleStep ==
    ASSUME RuleInv, NEW p \in Handlers, RemovePeer(p)
    PROVE  RuleStep(p)
<1>1. /\ UNCHANGED <<rules, xdp, suspectRules>>
      /\ h[p].pc = "unfilter" /\ h[p].todo = {} /\ h'[p] = Idle
      /\ \A q \in Handlers \ {p} : h'[q] = h[q]
  BY DEF RemovePeer, Finish, RuleInv, TypeOK
<1>2. RulesOf(p)' = {}
  BY <1>1 DEF RulesOf, OnRule, Deleting, Idle
<1>3. OthersRest(p)
  BY <1>1 DEF OthersRest
<1>4. ASSUME NEW t \in RuleTexts \ suspectRules', t \in RulesOf(p)
      PROVE  Here(p, t)
  <2>1. /\ \A q \in Handlers \ {p} : t \notin RulesOf(q)
        /\ ~ Stored(t) /\ ~ Enforced(t)
    BY <1>1, <1>4, AloneOnRule DEF RuleProgress
  <2>2. (Stored(t)' <=> Stored(t)) /\ (Enforced(t)' <=> Enforced(t))
    BY <1>1 DEF Stored, Enforced
  <2> QED
    BY <1>1, <1>2, <1>4, <2>1, <2>2 DEF Here, Move
<1>5. ASSUME NEW t \in RuleTexts, t \notin RulesOf(p)
      PROVE  Elsewhere(p, t)
  BY <1>1, <1>2, <1>3, <1>5, NoRuleTouched
<1> QED
  BY <1>3, <1>4, <1>5 DEF RuleStep

LEMMA AddRuleStep ==
    ASSUME RuleInv, NEW p \in Handlers, NEW u \in RuleTexts, AddRule(p, u)
    PROVE  RuleStep(p)
<1>1. /\ UNCHANGED xdp
      /\ ~ Stored(u) /\ rules' = rules \cup {[id |-> nextId, text |-> u]}
      /\ suspectRules' = suspectRules \cup ({u} \cap RulesInHand)
      /\ h[p].pc = "idle" /\ h'[p].pc = "filter" /\ h'[p].text = u
      /\ \A q \in Handlers \ {p} : h'[q] = h[q]
  BY DEF AddRule, RuleInv, TypeOK, Idle
<1>2. RulesOf(p) = {} /\ RulesOf(p)' = {u}
  BY <1>1 DEF RulesOf, OnRule, Deleting
<1>3. OthersRest(p)
  BY <1>1 DEF OthersRest
<1>4. ASSUME u \notin suspectRules'
      PROVE  Here(p, u)
  <2>1. u \notin suspectRules /\ u \notin RulesInHand
    BY <1>1, <1>4
  <2>2. /\ \A q \in Handlers : u \notin RulesOf(q)
        /\ ~ Stored(u) /\ ~ Enforced(u)
    BY <1>1, <2>1, AloneOnRule
  <2>3. Stored(u)' /\ (Enforced(u)' <=> Enforced(u))
    <3>1. [id |-> nextId, text |-> u] \in rules' /\ [id |-> nextId, text |-> u].text = u
      BY <1>1
    <3> QED
      BY <1>1, <3>1 DEF Stored, Enforced
  <2>4. RuleProgress(p, u)'
    BY <1>1, <2>2, <2>3 DEF RuleProgress
  <2>5. Move(p, u)
    BY <1>1, <1>2, <2>2, <2>3 DEF Move
  <2> QED
    BY <1>2, <2>2, <2>4, <2>5 DEF Here
<1>5. ASSUME NEW t \in RuleTexts, t # u
      PROVE  Elsewhere(p, t)
  BY <1>1, <1>2, <1>5 DEF Elsewhere, Stored, Enforced
<1> QED
  BY <1>3, <1>4, <1>5 DEF RuleStep

LEMMA AddPeerRuleStep ==
    ASSUME DistinctKeys, RuleInv, NEW p \in Handlers, AddPeerRule(p)
    PROVE  RuleStep(p)
<1>0. PICK u \in RuleTexts : u = h[p].text
  BY OverlayAssumption DEF AddPeerRule, RuleInv, TypeOK, LocalInv, OnRule, Handler
<1> DEFINE key == MapKey[u]
<1>1. /\ UNCHANGED rules
      /\ h[p].pc = "filter" /\ h'[p] = Idle
      /\ \A q \in Handlers \ {p} : h'[q] = h[q]
  BY DEF AddPeerRule, Finish, RuleInv, TypeOK
<1>2. \/ key # NoMapKey /\ xdp' = xdp \cup {key} /\ UNCHANGED suspectRules
      \/ UNCHANGED xdp /\ suspectRules' = suspectRules \cup {u}
  BY <1>0 DEF AddPeerRule
<1>3. RulesOf(p) = {u} /\ RulesOf(p)' = {}
  BY <1>0, <1>1 DEF RulesOf, OnRule, Deleting, Idle
<1>4. u \in RulesInHand
  BY <1>3 DEF RulesInHand
<1>5. OthersRest(p)
  BY <1>1, <1>2, <1>4 DEF OthersRest
<1>6. ASSUME u \notin suspectRules'
      PROVE  Here(p, u)
  <2>1. xdp' = xdp \cup {key} /\ UNCHANGED suspectRules
    BY <1>2, <1>6
  <2>2. /\ \A q \in Handlers \ {p} : u \notin RulesOf(q)
        /\ Stored(u)
    BY <1>1, <1>3, <1>6, <2>1, AloneOnRule DEF RuleProgress
  <2>3. Stored(u)' /\ Enforced(u)'
    BY <1>1, <2>1, <2>2 DEF Stored, Enforced
  <2> QED
    BY <1>1, <1>3, <2>2, <2>3 DEF Here, Move
<1>7. ASSUME NEW t \in RuleTexts, t # u
      PROVE  Elsewhere(p, t)
  <2>1. Enforced(t)' <=> Enforced(t)
    BY <1>2, <1>3, <1>7 DEF Enforced, DistinctKeys
  <2> QED
    BY <1>1, <1>3, <1>7, <2>1 DEF Elsewhere, Stored
<1> QED
  BY <1>5, <1>6, <1>7 DEF RuleStep

LEMMA LookUpStep ==
    ASSUME RuleInv, NEW p \in Handlers, NEW r \in rules, GetRuleByID(p, r)
    PROVE  RuleStep(p)
<1>0. PICK u \in RuleTexts : u = r.text
  BY DEF RuleInv, TypeOK, Rule
<1>1. /\ UNCHANGED <<rules, xdp>>
      /\ suspectRules' = suspectRules \cup ({u} \cap RulesInHand)
      /\ h[p].pc = "idle" /\ h'[p].pc = "unmap" /\ h'[p].text = u /\ h'[p].id = r.id
      /\ \A q \in Handlers \ {p} : h'[q] = h[q]
  BY <1>0 DEF GetRuleByID, RuleInv, TypeOK, Idle
<1>2. /\ RulesOf(p) = {} /\ RulesOf(p)' = {u}
      /\ r = [id |-> r.id, text |-> u]
  BY <1>0, <1>1 DEF RulesOf, OnRule, Deleting, RuleInv, TypeOK, Rule
<1>3. OthersRest(p)
  BY <1>1 DEF OthersRest
<1>4. ASSUME u \notin suspectRules'
      PROVE  Here(p, u)
  <2>1. u \notin suspectRules /\ u \notin RulesInHand
    BY <1>1, <1>4
  <2>2. /\ \A q \in Handlers : u \notin RulesOf(q)
        /\ Stored(u) /\ Enforced(u)
    BY <1>2, <2>1, AloneOnRule DEF Stored
  <2>3. Stored(u)' /\ Enforced(u)'
    BY <1>1, <2>2 DEF Stored, Enforced
  <2>4. RuleProgress(p, u)'
    BY <1>1, <1>2, <2>3 DEF RuleProgress
  <2>5. Move(p, u)
    BY <1>1, <1>2, <2>2, <2>3 DEF Move
  <2> QED
    BY <1>2, <2>2, <2>4, <2>5 DEF Here
<1>5. ASSUME NEW t \in RuleTexts, t # u
      PROVE  Elsewhere(p, t)
  BY <1>1, <1>2, <1>3, <1>5, NoRuleTouched
<1> QED
  BY <1>2, <1>3, <1>4, <1>5 DEF RuleStep

LEMMA UnmapStep ==
    ASSUME DistinctKeys, RuleInv, NEW p \in Handlers, RemovePeerRule(p)
    PROVE  RuleStep(p)
<1>0. PICK u \in RuleTexts : u = h[p].text
  BY OverlayAssumption DEF RemovePeerRule, RuleInv, TypeOK, LocalInv, OnRule, Handler
<1> DEFINE key == MapKey[u]
<1>1. /\ UNCHANGED <<rules, suspectRules>> /\ xdp' = xdp \ {key}
      /\ h[p].pc = "unmap"
      /\ \/ key # NoMapKey /\ h'[p].pc = "unlist" /\ h'[p].text = u /\ h'[p].id = h[p].id
         \/ key = NoMapKey /\ h'[p] = Idle
      /\ \A q \in Handlers \ {p} : h'[q] = h[q]
  BY <1>0 DEF RemovePeerRule, Finish, RuleInv, TypeOK, Handler
<1>2. /\ RulesOf(p) = {u}
      /\ RulesOf(p)' = IF key # NoMapKey THEN {u} ELSE {}
  <2>1. RulesOf(p) = {u}
    BY <1>0, <1>1 DEF RulesOf, OnRule
  <2>2. CASE h'[p].pc = "unlist" /\ h'[p].text = u /\ key # NoMapKey
    <3>1. RulesOf(p)' = {u}
      BY <2>2 DEF RulesOf, OnRule
    <3> QED
      BY <2>1, <2>2, <3>1
  <2>3. CASE h'[p] = Idle /\ key = NoMapKey
    <3>1. h'[p].pc = "idle"
      BY <2>3 DEF Idle
    <3>2. RulesOf(p)' = {}
      BY <3>1 DEF RulesOf, OnRule, Deleting
    <3> QED
      BY <2>1, <2>3, <3>2
  <2> QED
    BY <1>1, <2>2, <2>3
<1>3. OthersRest(p)
  BY <1>1 DEF OthersRest
<1>4. ASSUME u \notin suspectRules'
      PROVE  Here(p, u)
  <2>1. /\ \A q \in Handlers \ {p} : u \notin RulesOf(q)
        /\ [id |-> h[p].id, text |-> u] \in rules /\ Enforced(u)
    BY <1>1, <1>2, <1>4, AloneOnRule DEF RuleProgress
  <2>2. key # NoMapKey
    BY <2>1 DEF Enforced, RuleInv, TypeOK, MapKeys
  <2>3. (Stored(u)' <=> Stored(u)) /\ ~ Enforced(u)'
    BY <1>1 DEF Stored, Enforced
  <2>4. RuleProgress(p, u)'
    BY <1>1, <2>1, <2>2, <2>3 DEF RuleProgress
  <2>5. Move(p, u)
    BY <1>1, <1>2, <2>2, <2>3 DEF Move
  <2> QED
    BY <1>2, <2>1, <2>2, <2>4, <2>5 DEF Here
<1>5. ASSUME NEW t \in RuleTexts, t # u
      PROVE  Elsewhere(p, t)
  <2>1. Enforced(t)' <=> Enforced(t)
    BY <1>1, <1>2, <1>5, KeyOfOne DEF Enforced, RuleInv
  <2> QED
    BY <1>1, <1>2, <1>5, <2>1 DEF Elsewhere, Stored
<1> QED
  BY <1>3, <1>4, <1>5 DEF RuleStep

LEMMA UnlistStep ==
    ASSUME RuleInv, NEW p \in Handlers, RemoveRule(p)
    PROVE  RuleStep(p)
<1>0. PICK u \in RuleTexts : u = h[p].text
  BY OverlayAssumption DEF RemoveRule, RuleInv, TypeOK, LocalInv, OnRule, Handler
<1>1. /\ UNCHANGED <<xdp, suspectRules>> /\ rules' = {r \in rules : r.id # h[p].id}
      /\ h[p].pc = "unlist" /\ h'[p] = Idle
      /\ \A q \in Handlers \ {p} : h'[q] = h[q]
  BY DEF RemoveRule, Finish, RuleInv, TypeOK
<1>2. RulesOf(p) = {u} /\ RulesOf(p)' = {}
  BY <1>0, <1>1 DEF RulesOf, OnRule, Deleting, Idle
<1>3. OthersRest(p)
  BY <1>1 DEF OthersRest
<1>4. \A r \in rules : r.id = h[p].id => r.text = u
  BY <1>0, <1>1 DEF RuleInv, RuleRowInv
<1>5. ASSUME u \notin suspectRules'
      PROVE  Here(p, u)
  <2>1. /\ \A q \in Handlers \ {p} : u \notin RulesOf(q)
        /\ [id |-> h[p].id, text |-> u] \in rules /\ ~ Enforced(u)
    BY <1>1, <1>2, <1>5, AloneOnRule DEF RuleProgress
  <2>2. \A r \in rules : r.text = u => r.id = h[p].id
    BY <2>1 DEF RuleInv, RuleRowInv
  <2>3. ~ Stored(u)' /\ ~ Enforced(u)'
    BY <1>1, <2>1, <2>2 DEF Stored, Enforced
  <2> QED
    BY <1>1, <1>2, <2>1, <2>3 DEF Here, Move
<1>6. ASSUME NEW t \in RuleTexts, t # u
      PROVE  Elsewhere(p, t)
  <2>1. \A r \in rules : r.text = t => r \in rules'
    BY <1>1, <1>4, <1>6
  <2> QED
    BY <1>1, <1>2, <1>6, <2>1 DEF Elsewhere, Stored, Enforced
<1> QED
  BY <1>3, <1>5, <1>6 DEF RuleStep

LEMMA FailureRuleStep ==
    ASSUME RuleInv, NEW p \in Handlers, StatementFails(p)
    PROVE  RuleStep(p)
<1>1. /\ UNCHANGED <<rules, xdp>>
      /\ h[p].pc \in {"insert", "select", "purge", "unfilter", "unlist"}
      /\ h[p].todo = {} \/ h[p].pc = "purge"
      /\ suspectRules' = IF h[p].pc = "unlist" THEN suspectRules \cup {h[p].text}
                         ELSE suspectRules
      /\ h'[p] = Idle
      /\ \A q \in Handlers \ {p} : h'[q] = h[q]
  BY DEF StatementFails, Finish, RuleInv, TypeOK
<1>2. RulesOf(p)' = {}
  BY <1>1 DEF RulesOf, OnRule, Deleting, Idle
<1>3. h[p].pc = "unlist" => RulesOf(p) = {h[p].text}
  BY DEF RulesOf, OnRule
<1>4. OthersRest(p)
  BY <1>1, <1>3 DEF OthersRest, RulesInHand
<1>5. ASSUME NEW t \in RuleTexts \ suspectRules', t \in RulesOf(p)
      PROVE  Here(p, t)
  <2>1. h[p].pc # "unlist" /\ t \notin suspectRules
    BY <1>1, <1>3, <1>5
  <2>2. h[p].pc \in {"select", "purge", "unfilter"}
    BY <1>1, <1>5, <2>1 DEF RulesOf, OnRule, Deleting
  <2>3. /\ \A q \in Handlers \ {p} : t \notin RulesOf(q)
        /\ Stored(t) <=> Enforced(t)
    BY <1>1, <1>5, <2>1, <2>2, AloneOnRule DEF RuleProgress
  <2>4. (Stored(t)' <=> Stored(t)) /\ (Enforced(t)' <=> Enforced(t))
    BY <1>1 DEF Stored, Enforced
  <2> QED
    BY <1>2, <1>5, <2>2, <2>3, <2>4 DEF Here, Move
<1>6. ASSUME NEW t \in RuleTexts, t \notin RulesOf(p)
      PROVE  Elsewhere(p, t)
  BY <1>1, <1>2, <1>4, <1>6, NoRuleTouched
<1> QED
  BY <1>4, <1>5, <1>6 DEF RuleStep

LEMMA MapFailureRuleStep ==
    ASSUME RuleInv, NEW p \in Handlers, MapFails(p)
    PROVE  RuleStep(p)
<1>1. /\ UNCHANGED <<rules, xdp>>
      /\ \A q \in Handlers \ {p} : h'[q] = h[q]
  BY DEF MapFails, Finish, RuleInv, TypeOK
<1>2. \A t \in RuleTexts : (Stored(t)' <=> Stored(t)) /\ (Enforced(t)' <=> Enforced(t))
  BY <1>1 DEF Stored, Enforced
<1>3. CASE h[p].pc \in {"filter", "unmap"}
  <2>1. /\ h'[p] = Idle /\ RulesOf(p) = {h[p].text} /\ RulesOf(p)' = {}
        /\ h[p].pc = "filter" => suspectRules' = suspectRules \cup {h[p].text}
        /\ h[p].pc = "unmap" => suspectRules' = suspectRules
    BY <1>3 DEF MapFails, Finish, RuleInv, TypeOK, RulesOf, OnRule, Deleting, Idle
  <2>2. OthersRest(p)
    BY <1>1, <1>3, <2>1 DEF OthersRest, RulesInHand
  <2>3. ASSUME NEW t \in RuleTexts \ suspectRules', t \in RulesOf(p)
        PROVE  Here(p, t)
    <3>1. h[p].pc = "unmap" /\ t \notin suspectRules
      BY <1>3, <2>1, <2>3
    <3>2. \A q \in Handlers \ {p} : t \notin RulesOf(q)
      BY <2>3, <3>1, AloneOnRule
    <3>3. [id |-> h[p].id, text |-> t] \in rules /\ Enforced(t)
      BY <2>3, <3>1, AloneOnRule DEF RuleProgress
    <3>4. Stored(t)
      BY <3>3 DEF Stored
    <3> QED
      BY <1>2, <2>1, <2>3, <3>1, <3>2, <3>3, <3>4 DEF Here, Move
  <2>4. ASSUME NEW t \in RuleTexts, t \notin RulesOf(p)
        PROVE  Elsewhere(p, t)
    BY <1>1, <2>1, <2>2, <2>4, NoRuleTouched
  <2> QED
    BY <2>2, <2>3, <2>4 DEF RuleStep
<1>4. CASE h[p].pc = "unfilter"
  <2>1. PICK u \in h[p].todo : /\ h' = [h EXCEPT ![p].todo = @ \ {u}]
                               /\ suspectRules' = suspectRules \cup {u}
    BY <1>4 DEF MapFails
  <2>2. /\ h'[p].pc = "unfilter" /\ h'[p].ip = h[p].ip /\ h'[p].todo = h[p].todo \ {u}
        /\ SrcIP[u] = h[p].ip /\ u \in RuleTexts
    BY <1>4, <2>1 DEF RuleInv, TypeOK, LocalInv, Handler
  <2>3. /\ RulesOf(p) = {t \in RuleTexts : SrcIP[t] = h[p].ip}
        /\ RulesOf(p)' = RulesOf(p)
    BY <1>4, <2>2 DEF RulesOf, OnRule, Deleting
  <2>4. OthersRest(p)
    BY <1>1, <2>1, <2>2, <2>3 DEF OthersRest, RulesInHand
  <2>5. ASSUME NEW t \in RuleTexts \ suspectRules', t \in RulesOf(p)
        PROVE  Here(p, t)
    <3>1. t # u /\ t \notin suspectRules
      BY <2>1, <2>5
    <3>2. /\ \A q \in Handlers \ {p} : t \notin RulesOf(q)
          /\ ~ Stored(t) /\ (t \in h[p].todo <=> Enforced(t))
      BY <1>4, <2>5, <3>1, AloneOnRule DEF RuleProgress
    <3>3. RuleProgress(p, t)'
      BY <1>2, <2>2, <3>1, <3>2 DEF RuleProgress
    <3> QED
      BY <1>2, <1>4, <2>2, <2>3, <2>5, <3>2, <3>3 DEF Here, Move
  <2>6. ASSUME NEW t \in RuleTexts, t \notin RulesOf(p)
        PROVE  Elsewhere(p, t)
    BY <1>1, <2>3, <2>4, <2>6, NoRuleTouched
  <2> QED
    BY <2>4, <2>5, <2>6 DEF RuleStep
<1> QED
  BY <1>3, <1>4 DEF MapFails

LEMMA HandlerRuleStep ==
    ASSUME DistinctKeys, RuleInv, NEW p \in Handlers, Request(p) \/ Step(p)
    PROVE  RuleStep(p)
BY JoinRuleStep, LookUpRuleStep, DeviceRemoveRuleStep, SelectRuleStep,
   DeleteRulesRuleStep, RemoveFilterRuleStep, RemovePeerRuleStep, AddRuleStep,
   AddPeerRuleStep, LookUpStep, UnmapStep, UnlistStep, FailureRuleStep,
   MapFailureRuleStep
   DEF Request, Step

\* Steps that add no row, and let no handler look one up.
LEMMA RowsOnlyGo ==
    ASSUME RuleInv, rules' \subseteq rules, nextId' = nextId,
           \A p \in Handlers : h'[p].pc \in {"unmap", "unlist"} =>
               /\ h[p].pc \in {"unmap", "unlist"}
               /\ h'[p].id = h[p].id /\ h'[p].text = h[p].text
    PROVE  RuleRowInv'
BY DEF RuleInv, RuleRowInv

LEMMA RowStep ==
    ASSUME RuleInv, NEW p \in Handlers, Request(p) \/ Step(p)
    PROVE  RuleRowInv'
<1> USE DEF RuleInv, TypeOK, Handler, Finish, Idle
<1>1. CASE \E key \in Keys, asked \in JoinNames : NextAvailableIP(p, key, asked)
  <2>1. rules' = rules /\ nextId' = nextId /\ \A q \in Handlers \ {p} : h'[q] = h[q]
    BY <1>1 DEF NextAvailableIP
  <2>2. h'[p].pc \notin {"unmap", "unlist"}
    <3>1. PICK key \in Keys, asked \in JoinNames, ip \in IPs :
             h' = [h EXCEPT ![p] =
                     [Idle EXCEPT !.pc = "insert", !.key = key, !.ip = ip,
                                  !.name = IF asked = NoName THEN AutoName[ip]
                                           ELSE asked]]
      BY <1>1 DEF NextAvailableIP
    <3>2. h'[p].pc = "insert"
      BY <3>1
    <3> QED
      BY <3>2
  <2> QED
    BY <2>1, <2>2, RowsOnlyGo
<1>2. CASE \E row \in peers : GetPeerByName(p, row)
  BY <1>2, RowsOnlyGo DEF GetPeerByName
<1>3. ASSUME NEW t \in RuleTexts, AddRule(p, t)
      PROVE  RuleRowInv'
  <2>1. /\ ~ Stored(t) /\ rules' = rules \cup {[id |-> nextId, text |-> t]}
        /\ nextId' = nextId + 1
        /\ nextId \in Nat /\ MaxId \in Nat
        /\ h'[p].pc = "filter" /\ \A q \in Handlers \ {p} : h'[q] = h[q]
    BY <1>3, OverlayAssumption DEF AddRule
  <2>2. /\ \A r, s \in rules : (r.id = s.id \/ r.text = s.text) => r = s
        /\ \A r \in rules : r.id < nextId /\ r.text # t /\ r.id \in Nat
        /\ \A q \in Handlers : h[q].id \in Nat
    BY <2>1 DEF RuleRowInv, Stored, Rule
  <2>3. /\ \A r, s \in rules' : (r.id = s.id \/ r.text = s.text) => r = s
        /\ \A r \in rules' : r.id < nextId'
    BY <2>1, <2>2
  <2>4. ASSUME NEW q \in Handlers, h'[q].pc \in {"unmap", "unlist"}
        PROVE  /\ h'[q].id < nextId'
               /\ \A r \in rules' : r.id = h'[q].id => r.text = h'[q].text
    <3>1. h'[q] = h[q]
      BY <2>1, <2>4
    <3>2. /\ h[q].id < nextId /\ h[q].id \in Nat
          /\ \A r \in rules : r.id = h[q].id => r.text = h[q].text
      BY <2>2, <2>4, <3>1 DEF RuleRowInv
    <3> QED
      BY <2>1, <3>1, <3>2
  <2> QED
    BY <2>3, <2>4 DEF RuleRowInv
<1>4. ASSUME NEW r \in rules, GetRuleByID(p, r)
      PROVE  RuleRowInv'
  <2>1. /\ rules' = rules /\ nextId' = nextId
        /\ h'[p].id = r.id /\ h'[p].text = r.text
        /\ \A q \in Handlers \ {p} : h'[q] = h[q]
    BY <1>4 DEF GetRuleByID
  <2>2. /\ r.id < nextId
        /\ \A s \in rules : s.id = r.id => s.text = r.text
    BY DEF RuleRowInv
  <2> QED
    BY <2>1, <2>2 DEF RuleRowInv
<1>5. CASE AddPeer(p) \/ DeviceAddPeer(p)
  BY <1>5, RowsOnlyGo DEF AddPeer, DeviceAddPeer
<1>6. CASE DeviceRemovePeer(p) \/ SelectRules(p)
  BY <1>6, RowsOnlyGo DEF DeviceRemovePeer, SelectRules
<1>7. CASE DeleteRules(p)
  BY <1>7, RowsOnlyGo DEF DeleteRules
<1>8. ASSUME NEW t \in RuleTexts, RemoveFilter(p, t) PROVE RuleRowInv'
  BY <1>8, RowsOnlyGo DEF RemoveFilter
<1>9. CASE RemovePeer(p) \/ AddPeerRule(p)
  BY <1>9, RowsOnlyGo DEF RemovePeer, AddPeerRule
<1>10. CASE RemovePeerRule(p)
  BY <1>10, RowsOnlyGo DEF RemovePeerRule
<1>11. CASE RemoveRule(p)
  BY <1>11, RowsOnlyGo DEF RemoveRule
<1>12. CASE StatementFails(p)
  BY <1>12, RowsOnlyGo DEF StatementFails
<1>13. CASE MapFails(p)
  BY <1>13, RowsOnlyGo DEF MapFails
<1> QED
  BY <1>1, <1>2, <1>3, <1>4, <1>5, <1>6, <1>7, <1>8, <1>9, <1>10, <1>11, <1>12, <1>13
     DEF Request, Step

\* Stored and enforced rules agree after a start, except those that found no
\* room or have no key.
LEMMA RestartRules ==
    ASSUME DistinctKeys, RuleInv, Restart
    PROVE  /\ \A p \in Handlers : RulesOf(p)' = {}
           /\ \A t \in RuleTexts :
                 /\ Stored(t)' <=> Stored(t)
                 /\ Enforced(t)' => Stored(t)
                 /\ t \in suspectRules' <=> (Stored(t) /\ ~ Enforced(t)')
<1>1. \A p \in Handlers : RulesOf(p)' = {}
  BY DEF Restart, RulesOf, OnRule, Deleting, Idle
<1>2. PICK S \in RestoredRules :
         xdp' = S /\ suspectRules' = {t \in RuleTexts : Stored(t) /\ MapKey[t] \notin S}
  BY DEF Restart
<1>3. S \subseteq {MapKey[r.text] : r \in rules} \ {NoMapKey}
  BY DEF RestoredRules, StoredKeys
<1>4. \A r \in rules : r.text \in RuleTexts
  BY DEF RuleInv, TypeOK, Rule
<1>5. ASSUME NEW t \in RuleTexts, MapKey[t] \in S
      PROVE  Stored(t)
  <2>1. PICK r \in rules : MapKey[t] = MapKey[r.text] /\ MapKey[t] # NoMapKey
    BY <1>3, <1>5
  <2>2. r.text = t
    BY <1>4, <2>1 DEF DistinctKeys
  <2> QED
    BY <2>2 DEF Stored
<1>6. \A t \in RuleTexts : Stored(t)' <=> Stored(t)
  BY DEF Restart, Stored
<1> QED
  BY <1>1, <1>2, <1>5, <1>6 DEF Enforced

LEMMA RuleInit == Init => RuleInv
<1> SUFFICES ASSUME Init PROVE RuleInv
  OBVIOUS
<1>1. TypeOK /\ LocalInv
  BY StartTyped DEF Typed
<1>2. RuleRowInv
  BY DEF Init, RuleRowInv, Idle
<1>3. \A t \in RuleTexts : RuleKept(t)
  BY DEF Init, RuleKept, RulesInHand, RulesOf, OnRule, Deleting, Idle, Stored, Enforced
<1> QED
  BY <1>1, <1>2, <1>3 DEF RuleInv

LEMMA RuleNext == DistinctKeys /\ RuleInv /\ [Next]_vars => RuleInv'
<1> SUFFICES ASSUME DistinctKeys, RuleInv, [Next]_vars PROVE RuleInv'
  OBVIOUS
<1>1. (TypeOK /\ LocalInv)'
  BY StepTyped DEF RuleInv, Typed
<1>2. ASSUME NEW p \in Handlers, Request(p) \/ Step(p)
      PROVE  RuleInv'
  <2>1. RuleStep(p)
    BY <1>2, HandlerRuleStep
  <2>2. RuleRowInv'
    BY <1>2, RowStep
  <2> QED
    BY <1>1, <2>1, <2>2, RuleStepKeeps DEF RuleInv
<1>3. CASE Shutdown
  BY <1>1, <1>3 DEF Shutdown, RuleInv, RuleRowInv, RuleKept, RulesInHand, RulesOf, OnRule,
     Deleting, Stored, Enforced, RuleProgress
<1>4. CASE Restart
  <2>1. RuleRowInv'
    BY <1>4, RowsOnlyGo DEF Restart, Idle
  <2>2. ASSUME NEW t \in RuleTexts, t \notin suspectRules'
        PROVE  RuleKept(t)'
    <3>1. (t \notin RulesInHand)' /\ \A p \in Handlers : t \notin RulesOf(p)'
      BY <1>4, RestartRules DEF RulesInHand
    <3>2. Stored(t)' <=> Enforced(t)'
      BY <1>4, <2>2, RestartRules
    <3> QED
      BY <3>1, <3>2 DEF RuleKept
  <2> QED
    BY <1>1, <2>1, <2>2 DEF RuleInv
<1>5. CASE UNCHANGED vars
  BY <1>1, <1>5 DEF vars, RuleInv, RuleRowInv, RuleKept, RulesInHand, RulesOf, OnRule,
     Deleting, Stored, Enforced, RuleProgress
<1> QED
  BY <1>2, <1>3, <1>4, <1>5 DEF Next

\* Outside suspectRules, one handler at most is at work on a rule, and has come
\* with table and map as far as its program counter says.
THEOREM RulesKept == DistinctKeys /\ Spec => []RuleInv
<1>1. DistinctKeys => (Spec => []RuleInv)
  <2> SUFFICES ASSUME DistinctKeys PROVE Spec => []RuleInv
    OBVIOUS
  <2>1. RuleInv /\ [Next]_vars => RuleInv'
    BY RuleNext
  <2> QED
    BY RuleInit, <2>1, PTL DEF Spec
<1> QED
  BY <1>1

\* Whatever the requests and failures, a rule that was worked on by one request
\* at a time, none of which failed, is in the filter exactly when it is in the
\* table.
THEOREM OverlayRulesEnforced == DistinctKeys /\ Spec => []RulesEnforced
<1>1. RuleInv => RulesEnforced
  BY DEF RuleInv, RuleKept, RulesEnforced, Enforced
<1> QED
  BY <1>1, RulesKept, PTL

-----------------------------------------------------------------------------
(* The refinement of RuleLedger: a step of a handler is a request to the    *)
(* ledger for each rule it is at work on, and nothing for the others.       *)

\* The one handler at work on a rule, and what it does there.
Creates(q, t) == h[q].pc = "filter" /\ h[q].text = t

LEMMA CreatesOwn ==
    ASSUME NEW q, NEW t
    PROVE  /\ Creates(q, t) <=> (t \in RulesOf(q) /\ h[q].pc = "filter")
           /\ Creates(q, t)' <=> (t \in RulesOf(q)' /\ h'[q].pc = "filter")
BY DEF Creates, RulesOf, OnRule

LEMMA WorkHere ==
    ASSUME NEW p \in Handlers, NEW t \in RuleTexts, t \notin suspectRules,
           \A q \in Handlers \ {p} : t \notin RulesOf(q)
    PROVE  RuleWork(t) = IF t \notin RulesOf(p) THEN "idle"
                         ELSE IF h[p].pc = "filter" THEN "creating" ELSE "deleting"
<1>1. t \in RulesInHand <=> t \in RulesOf(p)
  BY DEF RulesInHand
<1>2. (\E q \in Handlers : Creates(q, t)) <=> (t \in RulesOf(p) /\ h[p].pc = "filter")
  BY CreatesOwn
<1> QED
  BY <1>1, <1>2 DEF RuleWork, Creates

LEMMA WorkHereNext ==
    ASSUME NEW p \in Handlers, NEW t \in RuleTexts, t \notin suspectRules',
           \A q \in Handlers \ {p} : t \notin RulesOf(q)'
    PROVE  RuleWork(t)' = IF t \notin RulesOf(p)' THEN "idle"
                          ELSE IF h'[p].pc = "filter" THEN "creating" ELSE "deleting"
<1>1. (t \in RulesInHand)' <=> t \in RulesOf(p)'
  BY DEF RulesInHand
<1>2. (\E q \in Handlers : Creates(q, t)') <=> (t \in RulesOf(p)' /\ h'[p].pc = "filter")
  BY CreatesOwn
<1> QED
  BY <1>1, <1>2 DEF RuleWork, Creates

\* What the ledger may see of rule t in a step, with its variables expanded.
LedgerSame(t) ==
    /\ RuleWork(t)' = RuleWork(t)
    /\ Stored(t)' <=> Stored(t)
    /\ Enforced(t)' <=> Enforced(t)

LedgerRequest(t) ==
    \/ /\ RuleWork(t) = "idle" /\ RuleWork(t)' = "creating"
       /\ ~ Stored(t) /\ Stored(t)' /\ (Enforced(t)' <=> Enforced(t))
    \/ /\ RuleWork(t) = "creating" /\ RuleWork(t)' = "idle"
       /\ (Stored(t)' <=> Stored(t)) /\ Enforced(t)'
    \/ /\ RuleWork(t) = "idle" /\ RuleWork(t)' = "deleting"
       /\ (Stored(t)' <=> Stored(t)) /\ (Enforced(t)' <=> Enforced(t))
    \/ /\ RuleWork(t) = "deleting" /\ RuleWork(t)' \in {"deleting", "idle"}
       /\ (Stored(t)' => Stored(t)) /\ (Enforced(t)' => Enforced(t))
       /\ RuleWork(t)' = "idle" => (Stored(t)' <=> Enforced(t)')
    \/ /\ RuleWork(t) \in {"creating", "deleting", "doubtful"}
       /\ RuleWork(t)' = "doubtful"

LedgerRestart(t) ==
    /\ Stored(t)' <=> Stored(t)
    /\ Enforced(t)' => Stored(t)
    /\ RuleWork(t)' = IF Stored(t) <=> Enforced(t)' THEN "idle" ELSE "doubtful"

LEMMA HandlerMovesLedger ==
    ASSUME RuleInv, NEW p \in Handlers, RuleStep(p), NEW t \in RuleTexts
    PROVE  LedgerRequest(t) \/ LedgerSame(t)
<1>1. CASE t \in suspectRules'
  <2>1. RuleWork(t)' = "doubtful"
    BY <1>1 DEF RuleWork
  <2>2. RuleWork(t) \in {"creating", "deleting", "doubtful"}
    BY <1>1 DEF RuleStep, OthersRest, RuleWork
  <2> QED
    BY <2>1, <2>2 DEF LedgerRequest
<1>2. CASE t \notin suspectRules'
  <2>1. t \notin suspectRules
    BY <1>2 DEF RuleStep, OthersRest
  <2>2. CASE Elsewhere(p, t)
    <3>1. \A q \in Handlers : t \in RulesOf(q)' <=> t \in RulesOf(q)
      BY <2>2, SameRules DEF RuleStep, OthersRest, Elsewhere
    <3>2. (t \in RulesInHand)' <=> t \in RulesInHand
      BY <3>1 DEF RulesInHand
    <3>3. \A q \in Handlers : Creates(q, t)' <=> Creates(q, t)
      <4>1. \A q \in Handlers \ {p} : Creates(q, t)' <=> Creates(q, t)
        BY DEF RuleStep, OthersRest, Creates
      <4>2. ~ Creates(p, t) /\ ~ Creates(p, t)'
        BY <2>2, CreatesOwn DEF Elsewhere
      <4> QED
        BY <4>1, <4>2
    <3>4. RuleWork(t)' = RuleWork(t)
      BY <1>2, <2>1, <3>2, <3>3 DEF RuleWork, Creates
    <3> QED
      BY <2>2, <3>4 DEF Elsewhere, LedgerSame
  <2>3. CASE Here(p, t)
    <3>1. RuleWork(t) = IF t \notin RulesOf(p) THEN "idle"
                        ELSE IF h[p].pc = "filter" THEN "creating" ELSE "deleting"
      BY <2>1, <2>3, WorkHere DEF Here
    <3>2. \A q \in Handlers \ {p} : t \notin RulesOf(q)'
      BY <2>3, SameRules DEF Here, RuleStep, OthersRest
    <3>3. RuleWork(t)' = IF t \notin RulesOf(p)' THEN "idle"
                         ELSE IF h'[p].pc = "filter" THEN "creating" ELSE "deleting"
      BY <1>2, <3>2, WorkHereNext
    <3>4. Move(p, t) /\ (t \notin RulesOf(p)' => (Stored(t)' <=> Enforced(t)'))
      BY <2>3 DEF Here
    <3> QED
      BY <3>1, <3>3, <3>4 DEF Move, LedgerRequest
  <2> QED
    BY <1>2, <2>2, <2>3 DEF RuleStep
<1> QED
  BY <1>1, <1>2

LEMMA RestartMovesLedger ==
    ASSUME DistinctKeys, RuleInv, Restart, NEW t \in RuleTexts
    PROVE  LedgerRestart(t)
<1>1. (t \notin RulesInHand)'
  BY RestartRules DEF RulesInHand
<1>2. ~ \E p \in Handlers : Creates(p, t)'
  BY RestartRules, CreatesOwn
<1>3. RuleWork(t)' = IF t \in suspectRules' THEN "doubtful" ELSE "idle"
  BY <1>1, <1>2 DEF RuleWork, Creates
<1> QED
  BY <1>3, RestartRules DEF LedgerRestart

\* The ledger's own definitions, for one rule.
LEMMA LedgerActions ==
    ASSUME NEW t \in RuleTexts
    PROVE  /\ LedgerRequest(t) => Ledger!Request(t)
           /\ LedgerSame(t) => Ledger!Same(t)
           /\ LedgerRestart(t) => Ledger!Restart(t)
<1>1. /\ Stored(t) \in BOOLEAN /\ Stored(t)' \in BOOLEAN
      /\ Enforced(t) \in BOOLEAN /\ Enforced(t)' \in BOOLEAN
      /\ Enforced(t) = (MapKey[t] \in xdp) /\ Enforced(t)' = (MapKey[t] \in xdp')
  BY DEF Stored, Enforced
<1>2. LedgerRequest(t) => Ledger!Request(t)
  BY <1>1 DEF LedgerRequest, Ledger!Request, Ledger!Create, Ledger!Enforce,
     Ledger!Withdraw, Ledger!Retract, Ledger!Doubt
<1>3. LedgerSame(t) => Ledger!Same(t)
  BY <1>1 DEF LedgerSame, Ledger!Same
<1>4. LedgerRestart(t) => Ledger!Restart(t)
  BY <1>1 DEF LedgerRestart, Ledger!Restart
<1> QED
  BY <1>2, <1>3, <1>4

LEMMA LedgerInit == Init => Ledger!Init
<1> SUFFICES ASSUME Init PROVE Ledger!Init
  OBVIOUS
<1>1. ASSUME NEW t \in RuleTexts
      PROVE  RuleWork(t) = "idle" /\ Stored(t) = FALSE /\ (MapKey[t] \in xdp) = FALSE
  BY DEF Init, RuleWork, RulesInHand, RulesOf, OnRule, Deleting, Idle, Stored
<1> QED
  BY <1>1 DEF Ledger!Init

LEMMA LedgerNext ==
    ASSUME DistinctKeys, RuleInv, [Next]_vars
    PROVE  [Ledger!Next]_<<[t \in RuleTexts |-> RuleWork(t)],
                           [t \in RuleTexts |-> Stored(t)],
                           [t \in RuleTexts |-> MapKey[t] \in xdp]>>
<1>1. ASSUME NEW p \in Handlers, Request(p) \/ Step(p)
      PROVE  Ledger!Next
  BY <1>1, HandlerRuleStep, HandlerMovesLedger, LedgerActions DEF Ledger!Next
<1>2. CASE Restart
  BY <1>2, RestartMovesLedger, LedgerActions DEF Ledger!Next
<1>3. CASE Shutdown \/ UNCHANGED vars
  <2>1. UNCHANGED <<rules, xdp, h, suspectRules>>
    BY <1>3 DEF Shutdown, vars
  <2>2. ASSUME NEW t \in RuleTexts
        PROVE  /\ RuleWork(t)' = RuleWork(t) /\ Stored(t)' = Stored(t)
               /\ (MapKey[t] \in xdp)' = (MapKey[t] \in xdp)
    BY <2>1 DEF RuleWork, RulesInHand, RulesOf, OnRule, Deleting, Stored
  <2> QED
    BY <2>2
<1> QED
  BY <1>1, <1>2, <1>3 DEF Next

\* The handlers implement RuleLedger: seen from one rule, requests for others,
\* failures and restarts do no more than the ledger allows.
THEOREM OverlayImplementsLedger == DistinctKeys /\ Spec => ImplementsLedger
<1> SUFFICES ASSUME DistinctKeys PROVE Spec => ImplementsLedger
  OBVIOUS
<1>1. Spec => []RuleInv
  BY RulesKept
<1> QED
  BY <1>1, LedgerInit, LedgerNext, PTL DEF Spec, ImplementsLedger, Ledger!Spec

=============================================================================
