-------------------------- MODULE OverlayPeerProofs --------------------------
(* Proofs about the peers of Overlay: the interface routes the stored ones, *)
(* who was told it joined stays one, and a row goes by its own deletion.     *)
(* The argument is PeerInv: rows, requests and answers that speak of one key *)
(* speak of one row, and whatever could disturb that row, a request for the  *)
(* same name, address or key, makes the key suspect.                         *)
EXTENDS OverlayProofs

At(q) == Joining(q) \/ Deleting(q)

Others(p) == \A q \in Handlers \ {p} : h'[q] = h[q]

\* PeerInv without the types, which OverlayProofs has.
PeerCore ==
    /\ ClaimInv /\ OverlapInv /\ ProgressInv /\ ValidInv /\ LinkInv
    /\ PeersRouted /\ JoinedStays

LEMMA InHand ==
    /\ \A k : k \in KeysInHand <=> \E q \in Handlers : At(q) /\ h[q].key = k
    /\ \A k : k \in KeysInHand' <=> \E q \in Handlers : At(q)' /\ h'[q].key = k
BY DEF KeysInHand, KeyInHand, At

\* A handler that does not move keeps its row and its step.
LEMMA OthersSame ==
    ASSUME NEW p \in Handlers, Others(p), NEW q \in Handlers \ {p}
    PROVE  /\ h'[q] = h[q] /\ Row(q)' = Row(q) /\ At(q)' = At(q)
           /\ Joining(q)' = Joining(q) /\ Deleting(q)' = Deleting(q)
BY DEF Others, Row, At, Joining, Deleting

LEMMA AtTyped ==
    ASSUME TypeOK, LocalInv, NEW q \in Handlers, At(q)
    PROVE  /\ h[q].key \in Keys /\ h[q].ip \in IPs
           /\ Row(q).key = h[q].key /\ Row(q).name = h[q].name /\ Row(q).ip = h[q].ip
<1>1. Row(q) \in Peer
  BY RowTyped DEF Typed, OnRow, At
<1> QED
  BY <1>1 DEF Row, Peer

LEMMA ClaimsAre ==
    /\ \A r \in peers : r \in Claims
    /\ \A q \in Handlers : At(q) => Row(q) \in Claims
    /\ \A m \in joined : m \in Claims
BY DEF Claims, At

\* What speaks of the key of a handler, outside suspectKeys, speaks of its row.
LEMMA KeyFacts ==
    ASSUME ClaimInv, NEW q \in Handlers, At(q), h[q].key \notin suspectKeys
    PROVE  /\ \A r \in peers : r.key = h[q].key => r = Row(q)
           /\ \A m \in joined : m.key = h[q].key => m = Row(q)
<1>1. Row(q).key = h[q].key
  BY DEF Row
<1> QED
  BY <1>1, ClaimsAre DEF ClaimInv

\* A step without new claims.
LEMMA ClaimsFrom ==
    ASSUME NEW p \in Handlers, Others(p), ClaimInv,
           suspectKeys \subseteq suspectKeys',
           \A r \in peers' : r \in Claims,
           At(p)' => Row(p)' \in Claims,
           \A m \in joined' : m \in Claims,
           \A a, b \in peers' : (a.name = b.name \/ a.ip = b.ip) => a = b
    PROVE  ClaimInv'
<1>1. \A q \in Handlers : At(q)' => Row(q)' \in Claims
  BY OthersSame, ClaimsAre
<1>2. Claims' \subseteq Claims
  BY <1>1 DEF Claims, At
<1> QED
  BY <1>2 DEF ClaimInv

\* A step that leaves peers and the interface alone, and nobody with another
\* peer than before.
LEMMA PeerFrame ==
    ASSUME PeerCore, UNCHANGED <<peers, link, wg, joined, suspectKeys>>,
           \A q \in Handlers :
              /\ At(q) => Row(q)' = Row(q)
              /\ h'[q].pc = "unconfigure" <=> h[q].pc = "unconfigure"
              /\ Joining(q)' <=> Joining(q)
              /\ Deleting(q)' <=> Deleting(q)
    PROVE  PeerCore'
<1>1. \A q \in Handlers : At(q) => /\ h'[q].name = h[q].name
                                   /\ h'[q].key = h[q].key
                                   /\ h'[q].ip = h[q].ip
  BY DEF Row
<1>2. \A q \in Handlers : (Joining(q) \/ Deleting(q)) <=> At(q)
  BY DEF At
<1>3. KeysInHand' = KeysInHand
  <2>1. \A q \in Handlers : KeyInHand(q)' = KeyInHand(q)
    BY <1>1, <1>2 DEF KeyInHand
  <2> QED
    BY <2>1 DEF KeysInHand
<1>4. Claims' = Claims
  BY <1>2 DEF Claims
<1>5. ClaimInv'
  BY <1>4 DEF PeerCore, ClaimInv
<1>6. OverlapInv'
  BY <1>1, <1>2 DEF PeerCore, OverlapInv
<1>7. ProgressInv'
  BY <1>1, <1>2 DEF PeerCore, ProgressInv, PeerProgress
<1>8. ValidInv' /\ LinkInv' /\ PeersRouted' /\ JoinedStays'
  BY <1>3 DEF PeerCore, ValidInv, LinkInv, PeersRouted, JoinedStays
<1> QED
  BY <1>5, <1>6, <1>7, <1>8 DEF PeerCore

LEMMA PeerInit == Init => PeerCore
<1> SUFFICES ASSUME Init PROVE PeerCore
  OBVIOUS
<1>1. \A q \in Handlers : h[q] = Idle /\ ~ Joining(q) /\ ~ Deleting(q)
  BY DEF Init, Idle, Joining, Deleting
<1>2. peers = {} /\ joined = {} /\ Claims = {} /\ \A k \in Keys : wg[k] = NoPeer
  BY <1>1 DEF Init, Claims
<1> QED
  BY <1>1, <1>2, OverlayAssumption DEF PeerCore, ClaimInv, OverlapInv, ProgressInv,
     ValidInv, LinkInv, PeersRouted, JoinedStays

\* A handler that is at work on no peer, and takes up none.
LEMMA NoPeerStep ==
    ASSUME PeerCore, NEW p \in Handlers, Others(p),
           UNCHANGED <<peers, link, wg, joined, suspectKeys>>,
           h[p].pc \in {"idle", "insert", "filter", "unmap", "unlist"},
           h'[p].pc \in {"idle", "insert", "filter", "unmap", "unlist"}
    PROVE  PeerCore'
<1>1. /\ ~ Joining(p) /\ ~ Deleting(p) /\ ~ At(p)
      /\ ~ Joining(p)' /\ ~ Deleting(p)'
  BY DEF Joining, Deleting, At
<1> QED
  BY <1>1, OthersSame, PeerFrame

\* A deletion between the interface and its last statement.
LEMMA SameRowStep ==
    ASSUME PeerCore, NEW p \in Handlers, Others(p),
           UNCHANGED <<peers, link, wg, joined, suspectKeys>>,
           h[p].pc \in {"select", "purge", "unfilter"},
           h'[p].pc \in {"select", "purge", "unfilter"},
           Row(p)' = Row(p)
    PROVE  PeerCore'
<1>1. /\ ~ Joining(p) /\ Deleting(p)
      /\ ~ Joining(p)' /\ Deleting(p)'
  BY DEF Joining, Deleting
<1> QED
  BY <1>1, OthersSame, PeerFrame

\* Steps of requests for rules, and of deletions, that no peer notices.
LEMMA AsideStep ==
    ASSUME TypeOK, PeerCore, NEW p \in Handlers,
           \/ \E t \in RuleTexts : AddRule(p, t) \/ RemoveFilter(p, t)
           \/ \E r \in rules : GetRuleByID(p, r)
           \/ AddPeerRule(p) \/ RemovePeerRule(p) \/ RemoveRule(p)
           \/ SelectRules(p) \/ DeleteRules(p) \/ MapFails(p)
    PROVE  PeerCore'
<1>1. /\ UNCHANGED <<peers, link, wg, joined, suspectKeys>>
      /\ Others(p)
  BY DEF AddRule, RemoveFilter, GetRuleByID, AddPeerRule, RemovePeerRule, RemoveRule,
     SelectRules, DeleteRules, MapFails, Others, Finish, TypeOK
<1> DEFINE Aside == \/ /\ h[p].pc \in {"idle", "insert", "filter", "unmap", "unlist"}
                       /\ h'[p].pc \in {"idle", "insert", "filter", "unmap", "unlist"}
                    \/ /\ h[p].pc \in {"select", "purge", "unfilter"}
                       /\ h'[p].pc \in {"select", "purge", "unfilter"}
                       /\ Row(p)' = Row(p)
<1>2. Aside
  <2> USE DEF TypeOK, Handler, Finish, Idle, Row
  <2>1. ASSUME NEW t \in RuleTexts, AddRule(p, t)
        PROVE  Aside
    BY <2>1 DEF AddRule
  <2>2. ASSUME NEW t \in RuleTexts, RemoveFilter(p, t)
        PROVE  Aside
    BY <2>2 DEF RemoveFilter
  <2>3. ASSUME NEW r \in rules, GetRuleByID(p, r)
        PROVE  Aside
    BY <2>3 DEF GetRuleByID
  <2>4. CASE AddPeerRule(p) \/ RemovePeerRule(p) \/ RemoveRule(p)
    BY <2>4 DEF AddPeerRule, RemovePeerRule, RemoveRule
  <2>5. CASE SelectRules(p) \/ DeleteRules(p)
    BY <2>5 DEF SelectRules, DeleteRules
  <2>6. CASE MapFails(p)
    BY <2>6 DEF MapFails
  <2> QED
    BY <2>1, <2>2, <2>3, <2>4, <2>5, <2>6
<1> QED
  BY <1>1, <1>2, NoPeerStep, SameRowStep

\* NextAvailableIP: an address and a key, but no row yet.
LEMMA AllocateStep ==
    ASSUME TypeOK, PeerCore, NEW p \in Handlers, NEW key \in Keys,
           NEW asked \in JoinNames, NextAvailableIP(p, key, asked)
    PROVE  PeerCore'
<1>1. PICK ip \in IPs :
         h' = [h EXCEPT ![p] =
                 [Idle EXCEPT !.pc = "insert", !.key = key, !.ip = ip,
                              !.name = IF asked = NoName THEN AutoName[ip] ELSE asked]]
  BY DEF NextAvailableIP
<1>2. h'[p].pc = "insert" /\ Others(p)
  BY <1>1 DEF TypeOK, Idle, Others
<1>3. h[p].pc = "idle" /\ UNCHANGED <<peers, link, wg, joined, suspectKeys>>
  BY DEF NextAvailableIP
<1> QED
  BY <1>2, <1>3, NoPeerStep

\* Whoever works on the name, the address or the key of a row that another
\* handler takes up makes its key suspect, and its own; so does another row.
LEMMA SuspectsOverlap ==
    ASSUME NEW row
    PROVE  /\ suspectKeys \subseteq SuspectKeysWith(row)
           /\ \A q \in Handlers :
                 (At(q) /\ (h[q].name = row.name \/ h[q].ip = row.ip \/ h[q].key = row.key))
                    => row.key \in SuspectKeysWith(row) /\ h[q].key \in SuspectKeysWith(row)
           /\ \A r \in peers : (r.key = row.key /\ r # row) => row.key \in SuspectKeysWith(row)
<1>1. \A q \in Handlers :
         (At(q) /\ (h[q].name = row.name \/ h[q].ip = row.ip \/ h[q].key = row.key))
            => q \in OnPeer(row)
  BY DEF OnPeer, At
<1> QED
  BY <1>1 DEF SuspectKeysWith

\* AddPeer: the row is inserted, and conflicts with none.
LEMMA InsertStep ==
    ASSUME TypeOK, LocalInv, PeerCore, NEW p \in Handlers, AddPeer(p), Joining(p)'
    PROVE  PeerCore'
<1>0. PICK row : row = Row(p)
  OBVIOUS
<1>1. /\ UNCHANGED <<link, wg, joined>>
      /\ h[p].pc = "insert" /\ h'[p].pc = "configure" /\ Row(p)' = row
      /\ h'[p].key = row.key /\ h'[p].name = row.name /\ h'[p].ip = row.ip
      /\ \A r \in peers : r.name # row.name /\ r.ip # row.ip
      /\ peers' = peers \cup {row}
      /\ suspectKeys' = SuspectKeysWith(row)
      /\ Others(p)
  BY <1>0 DEF AddPeer, Joining, Row, Conflict, TypeOK, Handler, Others, Finish, Idle
<1>2. /\ ~ At(p) /\ ~ Joining(p) /\ ~ Deleting(p)
      /\ At(p)' /\ Joining(p)' /\ ~ Deleting(p)'
      /\ row.key \in Keys
  <2>1. OnRow(p)
    BY <1>1 DEF OnRow
  <2>2. row \in Peer
    BY <1>0, <2>1, RowTyped DEF Typed
  <2> QED
    BY <1>1, <2>2 DEF At, Joining, Deleting, Peer
<1>3. KeysInHand' = KeysInHand \cup {row.key} /\ suspectKeys \subseteq suspectKeys'
  <2>1. \A q \in Handlers \ {p} : KeyInHand(q)' = KeyInHand(q)
    BY OthersSame, <1>1 DEF KeyInHand
  <2>2. KeyInHand(p) = {} /\ KeyInHand(p)' = {row.key}
    BY <1>1, <1>2 DEF KeyInHand
  <2> QED
    BY <1>1, <2>1, <2>2, SuspectsOverlap DEF KeysInHand
<1>4. ClaimInv /\ OverlapInv /\ ProgressInv /\ ValidInv /\ LinkInv /\ PeersRouted /\ JoinedStays
  BY DEF PeerCore
\* Outside suspectKeys, nothing spoke of the key before.
<1>5. ASSUME row.key \notin suspectKeys'
      PROVE  /\ \A q \in Handlers : At(q) => h[q].key # row.key
             /\ \A r \in peers : r.key # row.key
             /\ \A m \in joined : m.key # row.key
             /\ wg[row.key] \notin IPs
  <2>1. \A q \in Handlers : At(q) => h[q].key # row.key
    BY <1>1, <1>5, SuspectsOverlap
  <2>2. \A r \in peers : r.key # row.key
    BY <1>1, <1>5, SuspectsOverlap
  <2>3. row.key \notin suspectKeys \cup KeysInHand
    BY <1>3, <1>5, <2>1, InHand
  <2>4. \A m \in joined : m.key # row.key
    BY <1>4, <2>2, <2>3 DEF JoinedStays
  <2>5. wg[row.key] \notin IPs
    BY <1>2, <1>4, <2>2, <2>3, OverlayAssumption DEF PeersRouted, LinkInv
  <2> QED
    BY <2>1, <2>2, <2>4, <2>5
<1>6. ClaimInv'
  <2>1. Claims' \subseteq Claims \cup {row}
    <3>1. \A q \in Handlers : At(q)' => Row(q)' \in Claims \cup {row}
      BY <1>1, OthersSame, ClaimsAre
    <3> QED
      BY <1>1, <3>1, ClaimsAre DEF Claims, At
  <2>2. ASSUME row.key \notin suspectKeys', NEW c \in Claims
        PROVE  c.key # row.key
    <3>1. CASE c \in peers \cup joined
      BY <1>5, <2>2, <3>1
    <3>2. ASSUME NEW q \in Handlers, At(q), c = Row(q)
          PROVE  c.key # row.key
      BY <1>5, <2>2, <3>2, AtTyped
    <3> QED
      BY <3>1, <3>2 DEF Claims, At
  <2>3. \A a, b \in Claims' : (a.key = b.key /\ a.key \notin suspectKeys') => a = b
    BY <1>3, <1>4, <2>1, <2>2 DEF ClaimInv
  <2>4. \A a, b \in peers' : (a.name = b.name \/ a.ip = b.ip) => a = b
    BY <1>1, <1>4 DEF ClaimInv
  <2> QED
    BY <2>3, <2>4 DEF ClaimInv
<1>7. OverlapInv'
  <2>1. ASSUME NEW q \in Handlers, NEW r \in peers', At(q)',
               r.name = h'[q].name \/ r.ip = h'[q].ip, r.key # h'[q].key
        PROVE  r.key \in suspectKeys'
    <3>1. q # p
      BY <1>1, <2>1
    <3>2. h'[q] = h[q] /\ At(q)
      BY <1>1, <2>1, <3>1, OthersSame
    <3>3. CASE r = row
      BY <1>1, <2>1, <3>2, <3>3, SuspectsOverlap
    <3>4. CASE r # row
      BY <1>1, <1>3, <1>4, <2>1, <3>2, <3>4 DEF OverlapInv, At
    <3> QED
      BY <3>3, <3>4
  <2> QED
    BY <2>1 DEF OverlapInv, At
<1>8. ProgressInv'
  <2>1. ASSUME NEW q \in Handlers, At(q)', h'[q].key \notin suspectKeys'
        PROVE  PeerProgress(q)'
    <3>1. CASE q = p
      <4>1. \A s \in Handlers \ {p} : At(s)' => h'[s].key # row.key
        BY <1>1, <1>5, <2>1, <3>1, OthersSame
      <4> QED
        BY <1>1, <1>2, <1>5, <2>1, <3>1, <4>1 DEF PeerProgress, At
    <3>2. CASE q # p
      <4>1. h'[q] = h[q] /\ At(q) /\ PeerProgress(q)
        BY <1>1, <1>3, <1>4, <2>1, <3>2, OthersSame DEF ProgressInv, At
      <4>2. h[q].key # row.key
        BY <1>1, <2>1, <4>1, SuspectsOverlap
      <4> QED
        BY <1>1, <1>2, <3>2, <4>1, <4>2, OthersSame DEF PeerProgress, At
    <3> QED
      BY <3>1, <3>2
  <2> QED
    BY <2>1 DEF ProgressInv, At
<1>9. ValidInv' /\ LinkInv' /\ PeersRouted' /\ JoinedStays'
  BY <1>1, <1>3, <1>4 DEF ValidInv, LinkInv, PeersRouted, JoinedStays
<1> QED
  BY <1>6, <1>7, <1>8, <1>9 DEF PeerCore

\* What a handler leaves in hand when it ends, and who holds its row.
LEMMA Release ==
    ASSUME TypeOK, LocalInv, PeerCore, NEW p \in Handlers, At(p), Finish(p)
    PROVE  /\ Others(p) /\ h'[p].pc = "idle"
           /\ ~ At(p)' /\ ~ Joining(p)' /\ ~ Deleting(p)'
           /\ KeysInHand \subseteq KeysInHand' \cup {h[p].key}
           /\ KeysInHand' \subseteq KeysInHand
           /\ Row(p) \in Claims
           /\ h[p].key \notin suspectKeys => PeerProgress(p)
<1>1. Others(p) /\ h'[p].pc = "idle"
  BY DEF Finish, TypeOK, Others, Idle
<1>2. ~ At(p)' /\ ~ Joining(p)' /\ ~ Deleting(p)'
  BY <1>1 DEF At, Joining, Deleting
<1>3. \A q \in Handlers \ {p} : KeyInHand(q)' = KeyInHand(q)
  BY <1>1, OthersSame DEF KeyInHand
<1>4. KeyInHand(p)' = {} /\ KeyInHand(p) = {h[p].key}
  BY <1>2 DEF KeyInHand, At
<1> QED
  BY <1>1, <1>2, <1>3, <1>4, ClaimsAre DEF KeysInHand, PeerCore, ProgressInv, At

\* DeviceAddPeer: the peer is on the interface, and the client is told.
LEMMA ConfiguredStep ==
    ASSUME TypeOK, LocalInv, PeerCore, NEW p \in Handlers, DeviceAddPeer(p),
           joined' = joined \cup {Row(p)},
           h[p].key \in ValidKeys, link, link',
           wg' = Configured(h[p].key, h[p].ip), suspectKeys' = suspectKeys
    PROVE  PeerCore'
<1>0. PICK row : row = Row(p)
  OBVIOUS
<1>1. /\ UNCHANGED peers
      /\ Finish(p) /\ Joining(p) /\ At(p) /\ ~ Deleting(p)
      /\ h[p].key = row.key /\ h[p].name = row.name /\ h[p].ip = row.ip
      /\ row.key \in Keys /\ row.ip \in IPs
  BY <1>0, AtTyped DEF DeviceAddPeer, Joining, At, Deleting
<1>2. ClaimInv /\ OverlapInv /\ ProgressInv /\ ValidInv /\ PeersRouted /\ JoinedStays
  BY DEF PeerCore
<1>3. /\ Others(p) /\ h'[p].pc = "idle"
      /\ ~ At(p)' /\ ~ Joining(p)' /\ ~ Deleting(p)'
      /\ KeysInHand \subseteq KeysInHand' \cup {row.key}
      /\ KeysInHand' \subseteq KeysInHand
      /\ row \in Claims
      /\ row.key \notin suspectKeys => PeerProgress(p)
  BY <1>0, <1>1, Release
<1>4. \A k \in Keys : wg'[k] = IF k = row.key THEN row.ip
                               ELSE IF wg[k] = row.ip THEN NoIP ELSE wg[k]
  BY <1>1 DEF Configured
<1>5. \A r \in peers : (r.ip = row.ip /\ r.key # row.key) => r.key \in suspectKeys
  BY <1>1, <1>2 DEF OverlapInv
<1>6. ClaimInv'
  <2>1. \A m \in joined' : m \in Claims
    BY <1>0, <1>3, ClaimsAre
  <2> QED
    BY <1>1, <1>2, <1>3, <2>1, ClaimsAre, ClaimsFrom DEF ClaimInv
<1>7. OverlapInv'
  BY <1>1, <1>2, <1>3, OthersSame DEF OverlapInv
<1>8. ProgressInv'
  <2>1. ASSUME NEW q \in Handlers, At(q)', h'[q].key \notin suspectKeys
        PROVE  PeerProgress(q)'
    <3>1. /\ q # p /\ h'[q] = h[q] /\ At(q) /\ PeerProgress(q)
          /\ Row(q)' = Row(q) /\ Deleting(q)' = Deleting(q)
      BY <1>2, <1>3, <2>1, OthersSame DEF ProgressInv, At
    <3>2. h[q].key # row.key /\ h[q].key \in Keys /\ h[q].ip \in IPs
      BY <1>1, <3>1, AtTyped DEF PeerProgress, At
    <3>3. Row(q) \in peers /\ Row(q).key = h[q].key /\ Row(q).ip = h[q].ip
      BY <3>1 DEF PeerProgress, Row
    <3>4. h[q].ip # row.ip
      BY <1>5, <2>1, <3>1, <3>2, <3>3
    <3>5. wg'[h[q].key] = wg[h[q].key]
      <4>1. wg[h[q].key] # row.ip
        BY <1>1, <3>1, <3>4, OverlayAssumption DEF PeerProgress
      <4> QED
        BY <1>4, <3>2, <4>1
    <3> QED
      BY <1>1, <1>3, <3>1, <3>5, OthersSame DEF PeerProgress, At
  <2> QED
    BY <2>1 DEF ProgressInv, At
<1>9. ValidInv' /\ LinkInv'
  BY <1>1, <1>2, <1>3 DEF ValidInv, LinkInv
<1>10. PeersRouted'
  <2>1. ASSUME NEW k \in Keys \ (suspectKeys \cup KeysInHand'), NEW ip \in IPs
        PROVE  wg'[k] = ip <=> \E r \in peers : r.key = k /\ r.ip = ip
    <3>1. CASE k = row.key
      <4>1. row \in peers
        BY <1>0, <1>3, <2>1, <3>1 DEF PeerProgress
      <4>2. \A r \in peers : r.key = k => r = row
        BY <1>0, <1>1, <1>2, <2>1, <3>1, KeyFacts
      <4> QED
        BY <1>4, <3>1, <4>1, <4>2
    <3>2. CASE k # row.key
      <4>1. k \notin KeysInHand
        BY <1>3, <2>1, <3>2
      <4>2. \A i \in IPs : wg[k] = i <=> \E r \in peers : r.key = k /\ r.ip = i
        BY <1>2, <2>1, <4>1 DEF PeersRouted
      <4>3. wg[k] # row.ip
        BY <1>1, <1>5, <2>1, <3>2, <4>2
      <4> QED
        BY <1>4, <3>2, <4>2, <4>3
    <3> QED
      BY <3>1, <3>2
  <2> QED
    BY <1>1, <2>1 DEF PeersRouted
<1>11. JoinedStays'
  <2>1. ASSUME NEW m \in joined', m.key \notin suspectKeys \cup KeysInHand'
        PROVE  m \in peers
    <3>1. CASE m.key = row.key
      <4>1. row \in peers
        BY <1>0, <1>3, <2>1, <3>1 DEF PeerProgress
      <4>2. m = row
        BY <1>0, <1>1, <1>2, <2>1, <3>1, KeyFacts
      <4> QED
        BY <4>1, <4>2
    <3>2. CASE m.key # row.key
      <4>1. m \in joined /\ m.key \notin KeysInHand
        BY <1>0, <1>3, <2>1, <3>2
      <4> QED
        BY <1>2, <2>1, <4>1 DEF JoinedStays
    <3> QED
      BY <3>1, <3>2
  <2> QED
    BY <1>1, <2>1 DEF JoinedStays
<1> QED
  BY <1>6, <1>7, <1>8, <1>9, <1>10, <1>11 DEF PeerCore

\* A handler ends early: the interface is gone and all its peers with it, or
\* nothing of its peer has changed yet, or its key is suspect.
LEMMA AbandonStep ==
    ASSUME TypeOK, LocalInv, PeerCore, NEW p \in Handlers, At(p), Finish(p),
           UNCHANGED <<peers, joined>>,
           suspectKeys \subseteq suspectKeys',
           \/ h[p].key \in ValidKeys /\ ~ link' /\ wg' = [k \in Keys |-> NoPeer]
           \/ h[p].key \in ValidKeys /\ h[p].pc = "unconfigure" /\ UNCHANGED <<link, wg>>
           \/ h[p].key \in suspectKeys' /\ UNCHANGED <<link, wg>>
    PROVE  PeerCore'
<1>0. PICK row : row = Row(p)
  OBVIOUS
<1>1. /\ h[p].key = row.key /\ h[p].ip = row.ip
      /\ row.key \in Keys /\ row.ip \in IPs
  BY <1>0, AtTyped
<1>2. ClaimInv /\ OverlapInv /\ ProgressInv /\ ValidInv /\ LinkInv /\ PeersRouted /\ JoinedStays
  BY DEF PeerCore
<1>3. /\ Others(p) /\ h'[p].pc = "idle"
      /\ ~ At(p)' /\ ~ Joining(p)' /\ ~ Deleting(p)'
      /\ KeysInHand \subseteq KeysInHand' \cup {row.key}
      /\ KeysInHand' \subseteq KeysInHand
      /\ row \in Claims
      /\ row.key \notin suspectKeys => PeerProgress(p)
  BY <1>0, <1>1, Release
<1>4. /\ \A k \in Keys : wg'[k] \in {wg[k], NoPeer}
      /\ ~ link' \/ UNCHANGED <<link, wg>>
  OBVIOUS
<1>5. ClaimInv'
  BY <1>2, <1>3, ClaimsAre, ClaimsFrom DEF ClaimInv
<1>6. OverlapInv'
  BY <1>2, <1>3, OthersSame DEF OverlapInv
<1>7. ProgressInv'
  <2>1. ASSUME NEW q \in Handlers, At(q)', h'[q].key \notin suspectKeys'
        PROVE  PeerProgress(q)'
    <3>1. /\ q # p /\ h'[q] = h[q] /\ At(q) /\ PeerProgress(q)
          /\ Row(q)' = Row(q) /\ Deleting(q)' = Deleting(q)
      BY <1>2, <1>3, <2>1, OthersSame DEF ProgressInv, At
    <3>2. h[q].key \in Keys
      BY <3>1, AtTyped
    <3>3. IF h[q].pc = "unconfigure" THEN link' => wg'[h[q].key] = h[q].ip
                                     ELSE wg'[h[q].key] \notin IPs
      BY <1>4, <3>1, <3>2, OverlayAssumption DEF PeerProgress
    <3> QED
      BY <1>3, <3>1, <3>3, OthersSame DEF PeerProgress, At
  <2> QED
    BY <2>1 DEF ProgressInv, At
<1>8. ValidInv' /\ LinkInv'
  BY <1>1, <1>2, <1>3 DEF ValidInv, LinkInv
<1>9. PeersRouted'
  <2>1. ASSUME UNCHANGED <<link, wg>>, link, NEW k \in Keys \ (suspectKeys' \cup KeysInHand'),
               NEW ip \in IPs
        PROVE  wg[k] = ip <=> \E r \in peers : r.key = k /\ r.ip = ip
    <3>1. CASE k = row.key
      <4>1. PeerProgress(p) /\ h[p].pc = "unconfigure"
        BY <1>1, <1>3, <2>1, <3>1
      <4>2. row \in peers /\ wg[k] = row.ip
        BY <1>0, <1>1, <2>1, <3>1, <4>1 DEF PeerProgress
      <4>3. \A r \in peers : r.key = k => r = row
        BY <1>0, <1>1, <1>2, <2>1, <3>1, KeyFacts
      <4> QED
        BY <3>1, <4>2, <4>3
    <3>2. CASE k # row.key
      BY <1>2, <1>3, <2>1, <3>2 DEF PeersRouted
    <3> QED
      BY <3>1, <3>2
  <2>2. CASE ~ link'
    BY <2>2 DEF PeersRouted
  <2>3. CASE UNCHANGED <<link, wg>>
    BY <2>1, <2>3 DEF PeersRouted
  <2> QED
    BY <1>4, <2>2, <2>3
<1>10. JoinedStays'
  <2>1. ASSUME NEW m \in joined, m.key \notin suspectKeys' \cup KeysInHand'
        PROVE  m \in peers
    <3>1. CASE m.key = row.key
      <4>1. row \in peers
        BY <1>0, <1>3, <2>1, <3>1 DEF PeerProgress
      <4> QED
        BY <1>0, <1>1, <1>2, <2>1, <3>1, <4>1, KeyFacts
    <3>2. CASE m.key # row.key
      <4>1. m.key \notin suspectKeys \cup KeysInHand
        BY <1>3, <2>1, <3>2
      <4> QED
        BY <1>2, <2>1, <4>1 DEF JoinedStays
    <3> QED
      BY <3>1, <3>2
  <2> QED
    BY <2>1 DEF JoinedStays
<1> QED
  BY <1>5, <1>6, <1>7, <1>8, <1>9, <1>10 DEF PeerCore

\* GetPeerByName: the row is in the table, and on the interface unless suspect.
LEMMA LookUpPeerStep ==
    ASSUME TypeOK, LocalInv, PeerCore, NEW p \in Handlers, NEW row \in peers,
           GetPeerByName(p, row)
    PROVE  PeerCore'
<1>1. /\ UNCHANGED <<peers, link, wg, joined>>
      /\ h[p].pc = "idle" /\ h'[p].pc = "unconfigure" /\ Row(p)' = row
      /\ h'[p].key = row.key /\ h'[p].name = row.name /\ h'[p].ip = row.ip
      /\ row.key \in Keys /\ row.ip \in IPs
      /\ suspectKeys' = SuspectKeysWith(row)
      /\ suspectKeys \subseteq suspectKeys'
      /\ Others(p)
  BY SuspectsOverlap DEF GetPeerByName, Row, TypeOK, Peer, Idle, Others
<1>2. /\ ~ At(p) /\ ~ Joining(p) /\ ~ Deleting(p)
      /\ At(p)' /\ ~ Joining(p)' /\ Deleting(p)'
  BY <1>1 DEF At, Joining, Deleting
<1>3. KeysInHand' = KeysInHand \cup {row.key}
  <2>1. \A q \in Handlers \ {p} : KeyInHand(q)' = KeyInHand(q)
    BY OthersSame, <1>1 DEF KeyInHand
  <2>2. KeyInHand(p) = {} /\ KeyInHand(p)' = {row.key}
    BY <1>1, <1>2 DEF KeyInHand
  <2> QED
    BY <1>1, <2>1, <2>2 DEF KeysInHand
<1>4. ClaimInv /\ OverlapInv /\ ProgressInv /\ ValidInv /\ LinkInv /\ PeersRouted /\ JoinedStays
  BY DEF PeerCore
<1>5. \A q \in Handlers : (At(q) /\ h[q].key = row.key) => row.key \in suspectKeys'
  BY <1>1, SuspectsOverlap
<1>6. ClaimInv'
  BY <1>1, <1>4, ClaimsAre, ClaimsFrom DEF ClaimInv
<1>7. OverlapInv'
  <2>1. ASSUME NEW q \in Handlers, NEW r \in peers, At(q)',
               r.name = h'[q].name \/ r.ip = h'[q].ip, r.key # h'[q].key
        PROVE  r.key \in suspectKeys'
    <3>1. CASE q = p
      BY <1>1, <1>4, <2>1, <3>1 DEF ClaimInv
    <3>2. CASE q # p
      BY <1>1, <1>4, <2>1, <3>2, OthersSame DEF OverlapInv, At
    <3> QED
      BY <3>1, <3>2
  <2> QED
    BY <1>1, <2>1 DEF OverlapInv, At
<1>8. ProgressInv'
  <2>1. ASSUME NEW q \in Handlers, At(q)', h'[q].key \notin suspectKeys'
        PROVE  PeerProgress(q)'
    <3>1. CASE q = p
      <4>1. row.key \notin suspectKeys' /\ row.key \notin suspectKeys
        BY <1>1, <2>1, <3>1
      <4>2. row.key \notin KeysInHand
        BY <1>5, <4>1, InHand
      <4>3. row.key \in ValidKeys /\ (link => wg[row.key] = row.ip)
        BY <1>1, <1>4, <4>1, <4>2 DEF ValidInv, PeersRouted
      <4>4. \A s \in Handlers \ {p} : At(s)' => h'[s].key # row.key
        BY <1>1, <1>5, <4>1, OthersSame
      <4> QED
        BY <1>1, <1>2, <3>1, <4>3, <4>4 DEF PeerProgress, At
    <3>2. CASE q # p
      <4>1. h'[q] = h[q] /\ At(q) /\ PeerProgress(q) /\ h[q].key # row.key
        BY <1>1, <1>4, <1>5, <2>1, <3>2, OthersSame DEF ProgressInv, At
      <4> QED
        BY <1>1, <1>2, <3>2, <4>1, OthersSame DEF PeerProgress, At
    <3> QED
      BY <3>1, <3>2
  <2> QED
    BY <2>1 DEF ProgressInv, At
<1>9. ValidInv' /\ LinkInv' /\ PeersRouted' /\ JoinedStays'
  BY <1>1, <1>3, <1>4 DEF ValidInv, LinkInv, PeersRouted, JoinedStays
<1> QED
  BY <1>6, <1>7, <1>8, <1>9 DEF PeerCore

\* DeviceRemovePeer: the peer is off the interface.
LEMMA UnconfiguredStep ==
    ASSUME TypeOK, LocalInv, PeerCore, NEW p \in Handlers, h[p].pc = "unconfigure",
           h' = [h EXCEPT ![p].pc = "select"], link, link',
           wg' = [wg EXCEPT ![h[p].key] = NoPeer],
           UNCHANGED <<peers, joined, suspectKeys>>
    PROVE  PeerCore'
<1>1. /\ Others(p) /\ h'[p].pc = "select" /\ Row(p)' = Row(p)
      /\ h'[p].key = h[p].key /\ h'[p].name = h[p].name /\ h'[p].ip = h[p].ip
  BY DEF TypeOK, Handler, Others, Row
<1>2. /\ At(p) /\ Deleting(p) /\ ~ Joining(p)
      /\ At(p)' /\ Deleting(p)' /\ ~ Joining(p)'
  BY <1>1 DEF At, Deleting, Joining
<1>3. KeysInHand' = KeysInHand /\ h[p].key \in KeysInHand
  <2>1. \A q \in Handlers : KeyInHand(q)' = KeyInHand(q)
    BY <1>1, <1>2, OthersSame DEF KeyInHand
  <2> QED
    BY <1>2, <2>1, InHand DEF KeysInHand
<1>4. ClaimInv /\ OverlapInv /\ ProgressInv /\ ValidInv /\ PeersRouted /\ JoinedStays
  BY DEF PeerCore
<1>5. \A k \in Keys : wg'[k] = IF k = h[p].key THEN NoPeer ELSE wg[k]
  BY DEF TypeOK
<1>6. ClaimInv'
  BY <1>1, <1>2, <1>4, ClaimsAre, ClaimsFrom DEF ClaimInv
<1>7. OverlapInv'
  BY <1>1, <1>2, <1>4, OthersSame DEF OverlapInv
<1>8. ProgressInv'
  <2>1. ASSUME NEW q \in Handlers, At(q)', h'[q].key \notin suspectKeys
        PROVE  PeerProgress(q)'
    <3>1. At(q) /\ h'[q].key = h[q].key /\ PeerProgress(q)
      BY <1>1, <1>2, <1>4, <2>1, OthersSame DEF ProgressInv, At
    <3>2. h[q].key \in Keys
      BY <3>1, AtTyped
    <3>3. \A s \in Handlers : (h'[s].key = h'[q].key /\ At(s)') => s = q
      BY <1>1, <1>2, <3>1, OthersSame DEF PeerProgress, At
    <3>4. CASE q = p
      BY <1>1, <1>2, <1>5, <3>1, <3>2, <3>3, <3>4, OverlayAssumption DEF PeerProgress, At
    <3>5. CASE q # p
      <4>1. h[q].key # h[p].key
        BY <1>2, <3>1, <3>5 DEF PeerProgress, At
      <4> QED
        BY <1>1, <1>5, <3>1, <3>2, <3>3, <3>5, <4>1, OthersSame DEF PeerProgress, At
    <3> QED
      BY <3>4, <3>5
  <2> QED
    BY <2>1 DEF ProgressInv, At
<1>9. ValidInv' /\ LinkInv' /\ JoinedStays'
  BY <1>3, <1>4 DEF ValidInv, LinkInv, JoinedStays
<1>10. PeersRouted'
  BY <1>3, <1>4, <1>5 DEF PeersRouted
<1> QED
  BY <1>6, <1>7, <1>8, <1>9, <1>10 DEF PeerCore

\* The rows that RemovePeer takes with it: the one that was looked up, or others
\* whose keys are suspect.
LEMMA RemovedRows ==
    ASSUME TypeOK, LocalInv, ClaimInv, OverlapInv, NEW p \in Handlers, Deleting(p),
           NEW r \in peers, r.name = h[p].name, r.key \notin suspectKeys
    PROVE  r = Row(p)
<1>1. At(p)
  BY DEF At
<1>2. r.key = h[p].key
  BY DEF OverlapInv
<1> QED
  BY <1>1, <1>2, KeyFacts

\* RemovePeer: the row goes, and the client is told.
LEMMA RemovedStep ==
    ASSUME TypeOK, LocalInv, PeerCore, NEW p \in Handlers, RemovePeer(p)
    PROVE  PeerCore'
<1>0. PICK row : row = Row(p)
  OBVIOUS
<1>1. /\ UNCHANGED <<link, wg, suspectKeys>>
      /\ Finish(p) /\ At(p) /\ Deleting(p) /\ ~ Joining(p) /\ h[p].pc = "unfilter"
      /\ h[p].key = row.key /\ h[p].name = row.name /\ h[p].ip = row.ip
      /\ peers' = {r \in peers : r.name # row.name}
      /\ joined' = joined \ {row}
  BY <1>0 DEF RemovePeer, Row, At, Deleting, Joining
<1>2. ClaimInv /\ OverlapInv /\ ProgressInv /\ ValidInv /\ LinkInv /\ PeersRouted /\ JoinedStays
  BY DEF PeerCore
<1>3. /\ Others(p) /\ h'[p].pc = "idle"
      /\ ~ At(p)' /\ ~ Joining(p)' /\ ~ Deleting(p)'
      /\ KeysInHand \subseteq KeysInHand' \cup {row.key}
      /\ KeysInHand' \subseteq KeysInHand
      /\ row \in Claims
      /\ row.key \notin suspectKeys => PeerProgress(p)
  BY <1>0, <1>1, Release
<1>4. \A r \in peers : (r.name = row.name /\ r.key \notin suspectKeys) => r = row
  BY <1>0, <1>1, <1>2, RemovedRows
<1>5. row.key \notin suspectKeys =>
         /\ \A r \in peers : r.key = row.key => r = row
         /\ \A m \in joined : m.key = row.key => m = row
  BY <1>0, <1>1, <1>2, KeyFacts
<1>6. ClaimInv'
  BY <1>1, <1>2, <1>3, ClaimsAre, ClaimsFrom DEF ClaimInv
<1>7. OverlapInv'
  BY <1>1, <1>2, <1>3, OthersSame DEF OverlapInv
<1>8. ProgressInv'
  <2>1. ASSUME NEW q \in Handlers, At(q)', h'[q].key \notin suspectKeys
        PROVE  PeerProgress(q)'
    <3>1. /\ q # p /\ h'[q] = h[q] /\ At(q) /\ PeerProgress(q)
          /\ Row(q)' = Row(q) /\ Deleting(q)' = Deleting(q)
      BY <1>2, <1>3, <2>1, OthersSame DEF ProgressInv, At
    <3>2. Row(q) \in peers /\ Row(q).key = h[q].key /\ h[q].key # row.key
      BY <1>1, <3>1 DEF PeerProgress, Row, At
    <3>3. Row(q) \in peers'
      BY <1>1, <1>4, <2>1, <3>1, <3>2
    <3> QED
      BY <1>1, <1>3, <3>1, <3>3, OthersSame DEF PeerProgress, At
  <2> QED
    BY <1>1, <2>1 DEF ProgressInv, At
<1>9. ValidInv' /\ LinkInv'
  <2>1. ASSUME NEW r \in peers'
        PROVE  r.key \in suspectKeys \cup KeysInHand' \cup ValidKeys
    <3>1. r.key = row.key => r.key \in suspectKeys
      BY <1>1, <1>5, <2>1
    <3> QED
      BY <1>1, <1>2, <1>3, <2>1, <3>1 DEF ValidInv
  <2> QED
    BY <1>1, <1>2, <2>1 DEF ValidInv, LinkInv
<1>10. PeersRouted'
  <2>1. ASSUME link, NEW k \in Keys \ (suspectKeys \cup KeysInHand'), NEW ip \in IPs
        PROVE  wg[k] = ip <=> \E r \in peers' : r.key = k /\ r.ip = ip
    <3>1. CASE k = row.key
      <4>1. wg[k] \notin IPs
        BY <1>1, <1>3, <2>1, <3>1 DEF PeerProgress
      <4>2. \A r \in peers' : r.key # k
        BY <1>1, <1>5, <2>1, <3>1
      <4> QED
        BY <4>1, <4>2
    <3>2. CASE k # row.key
      <4>1. wg[k] = ip <=> \E r \in peers : r.key = k /\ r.ip = ip
        BY <1>2, <1>3, <2>1, <3>2 DEF PeersRouted
      <4>2. \A r \in peers : r.key = k => r \in peers'
        BY <1>1, <1>4, <2>1, <3>2
      <4> QED
        BY <1>1, <4>1, <4>2
    <3> QED
      BY <3>1, <3>2
  <2> QED
    BY <1>1, <2>1 DEF PeersRouted
<1>11. JoinedStays'
  <2>1. ASSUME NEW m \in joined', m.key \notin suspectKeys \cup KeysInHand'
        PROVE  m \in peers'
    <3>1. m \in joined /\ m.key # row.key
      BY <1>1, <1>5, <2>1
    <3>2. m \in peers
      BY <1>2, <1>3, <2>1, <3>1 DEF JoinedStays
    <3> QED
      BY <1>1, <1>4, <2>1, <3>1, <3>2
  <2> QED
    BY <1>1, <2>1 DEF JoinedStays
<1> QED
  BY <1>6, <1>7, <1>8, <1>9, <1>10, <1>11 DEF PeerCore

\* The interface goes, and the handlers go on.
LEMMA ShutdownStep ==
    ASSUME TypeOK, LocalInv, PeerCore, Shutdown
    PROVE  PeerCore'
<1>1. /\ UNCHANGED <<peers, h, joined, suspectKeys>>
      /\ ~ link' /\ wg' = [k \in Keys |-> NoPeer]
  BY DEF Shutdown
<1>2. /\ \A q \in Handlers : /\ At(q)' = At(q) /\ Row(q)' = Row(q)
                             /\ Joining(q)' = Joining(q) /\ Deleting(q)' = Deleting(q)
                             /\ At(q) => h[q].key \in Keys
      /\ KeysInHand' = KeysInHand /\ Claims' = Claims
  BY <1>1, AtTyped DEF At, Row, Joining, Deleting, KeysInHand, KeyInHand, Claims
<1>3. ClaimInv' /\ OverlapInv' /\ ValidInv' /\ LinkInv' /\ PeersRouted' /\ JoinedStays'
  BY <1>1, <1>2 DEF PeerCore, ClaimInv, OverlapInv, ValidInv, LinkInv, PeersRouted,
     JoinedStays
<1>4. ProgressInv'
  BY <1>1, <1>2, OverlayAssumption DEF PeerCore, ProgressInv, PeerProgress, At
<1> QED
  BY <1>3, <1>4 DEF PeerCore

\* The start puts stored peers on the interface; a key that one restored row
\* has, and nothing else speaks of, is no longer suspect.
LEMMA RestartStep ==
    ASSUME TypeOK, LocalInv, PeerCore, Restart
    PROVE  PeerCore'
<1>1. PICK kept \in SUBSET Restorable :
         /\ wg' \in RestoredPeers(kept)
         /\ suspectKeys' = (suspectKeys \cup {r.key : r \in peers}) \ Settled(kept)
  BY DEF Restart
<1>2. /\ UNCHANGED <<peers, joined>> /\ link'
      /\ \A q \in Handlers : ~ Joining(q)' /\ ~ Deleting(q)'
  BY DEF Restart, Idle, Joining, Deleting
<1>3. KeysInHand' = {} /\ Claims' = peers \cup joined /\ Claims' \subseteq Claims
  BY <1>2 DEF KeysInHand, KeyInHand, Claims
<1>4. ClaimInv /\ ProgressInv /\ PeersRouted /\ JoinedStays
  BY DEF PeerCore
<1>5. \A r \in kept : r \in peers /\ r.key \in ValidKeys
  BY DEF Restorable
\* Outside suspectKeys, a key is settled, or nothing speaks of it.
<1>6. ASSUME NEW k, k \notin suspectKeys'
      PROVE  \/ \E r \in kept : r.key = k /\ \A c \in peers \cup joined : c.key = k => c = r
             \/ \A c \in peers \cup joined : c.key # k
  <2>1. CASE k \in Settled(kept)
    BY <2>1 DEF Settled
  <2>2. CASE k \notin Settled(kept)
    <3>1. k \notin suspectKeys /\ \A r \in peers : r.key # k
      BY <1>1, <1>6, <2>2
    <3>2. k \notin KeysInHand
      <4> SUFFICES ASSUME NEW q \in Handlers, At(q), h[q].key = k
                   PROVE  FALSE
        BY InHand
      <4>1. Row(q) \in peers /\ Row(q).key = h[q].key
        BY <1>4, <3>1, AtTyped DEF ProgressInv, PeerProgress, At
      <4> QED
        BY <3>1, <4>1
    <3>3. \A m \in joined : m.key # k
      BY <1>4, <3>1, <3>2 DEF JoinedStays
    <3> QED
      BY <3>1, <3>3
  <2> QED
    BY <2>1, <2>2
<1>7. ClaimInv'
  BY <1>2, <1>3, <1>4, <1>6 DEF ClaimInv
<1>8. OverlapInv' /\ ProgressInv' /\ LinkInv'
  BY <1>2 DEF OverlapInv, ProgressInv, LinkInv
<1>9. ValidInv'
  BY <1>2, <1>5, <1>6 DEF ValidInv
<1>10. PeersRouted'
  <2>1. ASSUME NEW k \in Keys \ suspectKeys', NEW ip \in IPs
        PROVE  wg'[k] = ip <=> \E r \in peers : r.key = k /\ r.ip = ip
    <3>1. \/ \E r \in kept : r.key = k /\ wg'[k] = r.ip
          \/ wg'[k] = NoPeer /\ \A r \in kept : r.key # k
      BY <1>1 DEF RestoredPeers
    <3> QED
      BY <1>5, <1>6, <2>1, <3>1, OverlayAssumption
  <2> QED
    BY <1>2, <1>3, <2>1 DEF PeersRouted
<1>11. JoinedStays'
  BY <1>2, <1>5, <1>6 DEF JoinedStays
<1> QED
  BY <1>7, <1>8, <1>9, <1>10, <1>11 DEF PeerCore

\* The steps of the handlers that put peers on the interface or take them off.
LEMMA DeviceStep ==
    ASSUME TypeOK, LocalInv, PeerCore, NEW p \in Handlers,
           DeviceAddPeer(p) \/ DeviceRemovePeer(p)
    PROVE  PeerCore'
<1>1. CASE DeviceAddPeer(p)
  <2>1. At(p) /\ Finish(p) /\ UNCHANGED peers
    BY <1>1 DEF DeviceAddPeer, At, Joining
  <2>2. CASE /\ h[p].key \in ValidKeys
             /\ Apply(Configured(h[p].key, h[p].ip))
             /\ joined' = joined \cup {Row(p)}
             /\ UNCHANGED suspectKeys
    BY <1>1, <2>2, ConfiguredStep DEF Apply
  <2>3. CASE h[p].key \in ValidKeys /\ ApplyFails /\ UNCHANGED <<joined, suspectKeys>>
    BY <2>1, <2>3, AbandonStep DEF ApplyFails
  <2>4. CASE /\ suspectKeys' = suspectKeys \cup {h[p].key}
             /\ UNCHANGED <<link, wg, joined>>
    BY <2>1, <2>4, AbandonStep
  <2> QED
    BY <1>1, <2>2, <2>3, <2>4 DEF DeviceAddPeer, NoClient
<1>2. CASE DeviceRemovePeer(p)
  <2>1. At(p) /\ h[p].pc = "unconfigure" /\ UNCHANGED <<peers, joined, suspectKeys>>
    BY <1>2 DEF DeviceRemovePeer, At, Deleting
  <2>2. CASE Apply([wg EXCEPT ![h[p].key] = NoPeer]) /\ h' = [h EXCEPT ![p].pc = "select"]
    BY <2>1, <2>2, UnconfiguredStep DEF Apply
  <2>3. CASE h[p].key \in ValidKeys /\ (ApplyFails \/ NoClient) /\ Finish(p)
    BY <2>1, <2>3, AbandonStep DEF ApplyFails, NoClient
  <2>4. CASE h[p].key \notin ValidKeys /\ Finish(p) /\ UNCHANGED <<link, wg, faults>>
    <3>1. h[p].key \in suspectKeys
      BY <2>1, <2>4 DEF PeerCore, ProgressInv, PeerProgress, At, Deleting
    <3> QED
      BY <2>1, <2>4, <3>1, AbandonStep
  <2> QED
    BY <1>2, <2>2, <2>3, <2>4 DEF DeviceRemovePeer
<1> QED
  BY <1>1, <1>2

LEMMA PeerFailureStep ==
    ASSUME TypeOK, LocalInv, PeerCore, NEW p \in Handlers, StatementFails(p)
    PROVE  PeerCore'
<1>1. /\ h[p].pc \in {"insert", "select", "purge", "unfilter", "unlist"}
      /\ Finish(p) /\ UNCHANGED <<peers, link, wg, joined>>
      /\ suspectKeys' = suspectKeys \cup KeyInHand(p)
  BY DEF StatementFails
<1>2. Others(p) /\ h'[p].pc = "idle"
  BY <1>1 DEF Finish, TypeOK, Others, Idle
<1>3. CASE h[p].pc \in {"insert", "unlist"}
  <2>1. KeyInHand(p) = {}
    BY <1>3 DEF KeyInHand, Joining, Deleting
  <2> QED
    BY <1>1, <1>2, <1>3, <2>1, NoPeerStep
<1>4. CASE h[p].pc \in {"select", "purge", "unfilter"}
  <2>1. At(p) /\ KeyInHand(p) = {h[p].key}
    BY <1>4 DEF At, KeyInHand, Deleting
  <2> QED
    BY <1>1, <2>1, AbandonStep
<1> QED
  BY <1>1, <1>3, <1>4

LEMMA PeerNext == PeerInv /\ [Next]_vars => PeerInv'
<1> SUFFICES ASSUME PeerInv, [Next]_vars PROVE PeerInv'
  OBVIOUS
<1>1. TypeOK /\ LocalInv /\ PeerCore
  BY DEF PeerInv, PeerCore
<1>2. (TypeOK /\ LocalInv)'
  BY <1>1, StepTyped DEF Typed
<1>3. ASSUME NEW p \in Handlers, Request(p)
      PROVE  PeerCore'
  BY <1>1, <1>3, AllocateStep, LookUpPeerStep, AsideStep DEF Request
<1>4. ASSUME NEW p \in Handlers, AddPeer(p)
      PROVE  PeerCore'
  <2>1. CASE Joining(p)'
    BY <1>1, <1>4, <2>1, InsertStep
  <2>2. CASE ~ Joining(p)'
    <3>1. h[p].pc = "insert" /\ Finish(p)
      BY <1>1, <1>4, <2>2 DEF AddPeer, Joining, TypeOK, Handler
    <3>2. UNCHANGED <<peers, link, wg, joined, suspectKeys>>
      BY <1>1, <1>4, <2>2 DEF AddPeer, Joining, TypeOK, Handler
    <3>3. Others(p) /\ h'[p].pc = "idle"
      BY <1>1, <3>1 DEF Finish, TypeOK, Others, Idle
    <3> QED
      BY <1>1, <3>1, <3>2, <3>3, NoPeerStep
  <2> QED
    BY <2>1, <2>2
<1>5. ASSUME NEW p \in Handlers, Step(p)
      PROVE  PeerCore'
  BY <1>1, <1>4, <1>5, DeviceStep, AsideStep, RemovedStep, PeerFailureStep DEF Step
<1>6. ASSUME UNCHANGED vars
      PROVE  PeerCore'
  <2>1. UNCHANGED <<peers, link, wg, joined, suspectKeys, h>>
    BY <1>6 DEF vars
  <2>2. \A q \in Handlers : /\ Row(q)' = Row(q)
                            /\ Joining(q)' <=> Joining(q)
                            /\ Deleting(q)' <=> Deleting(q)
    BY <2>1 DEF Row, Joining, Deleting
  <2> QED
    BY <1>1, <2>1, <2>2, PeerFrame
<1>7. PeerCore'
  BY <1>1, <1>3, <1>5, <1>6, ShutdownStep, RestartStep DEF Next
<1> QED
  BY <1>2, <1>7 DEF PeerInv, PeerCore

\* Rows, requests and answers that speak of one key speak of one row, and
\* outside suspectKeys one handler at most is at work on a peer, and has come
\* with table and interface as far as its program counter says.
THEOREM PeersKept == Spec => []PeerInv
<1>1. Init => PeerInv
  BY StartTyped, PeerInit DEF Typed, PeerInv, PeerCore
<1> QED
  BY <1>1, PeerNext, PTL DEF Spec

\* While the interface is up, it routes the stored peers and only those, for
\* every key that one row has, no two requests worked on at the same time, and
\* none failed.
THEOREM OverlayPeersRouted == Spec => []PeersRouted
<1>1. PeerInv => PeersRouted
  BY DEF PeerInv
<1> QED
  BY <1>1, PeersKept, PTL

\* A client that was told it joined stays a peer until its deletion.
THEOREM OverlayJoinedStays == Spec => []JoinedStays
<1>1. PeerInv => JoinedStays
  BY DEF PeerInv
<1> QED
  BY <1>1, PeersKept, PTL

\* Only the last step of a deletion takes rows out of the peers table.
LEMMA RowsStay ==
    ASSUME Next
    PROVE  \/ peers \subseteq peers'
           \/ \E q \in Handlers : RemovePeer(q)
<1>1. ASSUME NEW p \in Handlers, Request(p)
      PROVE  peers \subseteq peers'
  BY <1>1 DEF Request, NextAvailableIP, GetPeerByName, AddRule, GetRuleByID
<1>2. ASSUME NEW p \in Handlers, Step(p), ~ RemovePeer(p)
      PROVE  peers \subseteq peers'
  BY <1>2 DEF Step, AddPeer, DeviceAddPeer, DeviceRemovePeer, SelectRules, DeleteRules,
     RemoveFilter, AddPeerRule, RemovePeerRule, RemoveRule, StatementFails, MapFails
<1>3. Shutdown \/ Restart => peers \subseteq peers'
  BY DEF Shutdown, Restart
<1> QED
  BY <1>1, <1>2, <1>3 DEF Next

\* A DELETE that goes by the name takes the row it looked up, and no other
\* whose key is not suspect.
THEOREM OverlayDeletesWhatItLookedUp == Spec => DeletesWhatItLookedUp
<1> DEFINE A == \A r \in peers \ peers' :
                   r.key \notin suspectKeys =>
                      \E q \in Handlers : Deleting(q) /\ Row(q) = r
<1>1. PeerInv /\ Next => A
  <2> SUFFICES ASSUME PeerInv, Next, NEW r \in peers \ peers', r.key \notin suspectKeys
               PROVE  \E q \in Handlers : Deleting(q) /\ Row(q) = r
    OBVIOUS
  <2>1. PICK q \in Handlers : RemovePeer(q)
    BY RowsStay
  <2>2. Deleting(q) /\ r.name = h[q].name
    BY <2>1 DEF RemovePeer, Deleting
  <2>3. r = Row(q)
    BY <2>2, RemovedRows DEF PeerInv
  <2> QED
    BY <2>2, <2>3
<1>2. UNCHANGED vars => A
  BY DEF vars
<1>3. PeerInv /\ [Next]_vars => A
  BY <1>1, <1>2
<1> QED
  BY <1>3, PeersKept, PTL DEF Spec, DeletesWhatItLookedUp

=============================================================================
