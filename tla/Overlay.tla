------------------------------ MODULE Overlay ------------------------------
(***************************************************************************)
(* The overlay network as the server keeps it: the peers and              *)
(* firewall_rules tables, and what they are supposed to be mirrored in, the *)
(* peers of the WireGuard interface and the peer_rules map of the XDP       *)
(* filter.  The handlers of /join (after its token check), DELETE /peers,   *)
(* POST /rules and DELETE /rules run concurrently and without a lock or a   *)
(* transaction: every SQL statement, interface configuration and map        *)
(* operation is one step.  Each of them may fail, and the server may stop   *)
(* between any two steps and start again.                                   *)
(***************************************************************************)
EXTENDS Integers, FiniteSets

CONSTANTS
    Handlers,     \* requests in progress at the same time
    IPs,          \* the addresses NextAvailableIP may assign, in its order
    Names,        \* peer names
    AutoName,     \* AutoName[ip]: the name "peer-<ip>"
    JoinNames,    \* the names clients ask for; NoName leaves it to the server
    Keys,         \* public keys, as the client sends them
    ValidKeys,    \* those that wgtypes.ParseKey accepts
    RuleTexts,    \* <src_ip, dst_ip, port, proto>, as the UI sends them
    SrcIP, DstIP, \* the addresses of a rule
    MapKey,       \* MapKey[t]: the key getRuleKey makes of t, or NoMapKey
    MapSize,      \* max_entries of peer_rules
    NoName, NoKey, NoIP, NoText, NoMapKey, NoPeer,
    MaxId,        \* bound: firewall_rules ids
    MaxJoins,     \* bound: joins, after their token check
    MaxFaults,    \* bound: failing statements, configurations, map operations
    MaxRestarts   \* bound: restarts of the server

MapKeys == {MapKey[t] : t \in RuleTexts} \ {NoMapKey}

ASSUME OverlayAssumption ==
    /\ IPs \subseteq Nat /\ NoIP \notin IPs /\ NoPeer \notin IPs /\ NoIP # NoPeer
    /\ AutoName \in [IPs -> Names]
    /\ JoinNames \subseteq Names \cup {NoName} /\ NoName \notin Names
    /\ ValidKeys \subseteq Keys /\ NoKey \notin Keys
    /\ SrcIP \in [RuleTexts -> IPs] /\ DstIP \in [RuleTexts -> IPs]
    /\ DOMAIN MapKey = RuleTexts
    /\ NoText \notin RuleTexts
    /\ MapSize \in Nat /\ MaxId \in Nat /\ MaxJoins \in Nat
    /\ MaxFaults \in Nat /\ MaxRestarts \in Nat

VARIABLES
    peers,        \* the peers table
    rules,        \* the firewall_rules table
    nextId,       \* its AUTOINCREMENT counter
    link,         \* whether the WireGuard interface exists
    wg,           \* wg[k]: the allowed IP of peer k, NoIP, or NoPeer
    xdp,          \* the keys in the peer_rules map
    h,            \* the handlers
    joins,        \* joins so far
    joined,       \* rows a join has put on the interface and answers with, and
                  \*   that no DELETE of them has removed since
    suspectKeys,  \* peers and rules that handlers worked on at the same time,
    suspectRules, \*   or left behind half done, and keys of several rows
    faults, restarts

vars == <<peers, rules, nextId, link, wg, xdp, h, joins, joined, suspectKeys,
          suspectRules, faults, restarts>>

Peer == [name : Names, key : Keys, ip : IPs]
Rule == [id : 1 .. MaxId, text : RuleTexts]

Pc == {"idle",
       "insert", "configure",                                  \* POST /join
       "unconfigure", "select", "purge", "unfilter",           \* DELETE /peers
       "filter",                                               \* POST /rules
       "unmap", "unlist"}                                      \* DELETE /rules
Handler == [pc : Pc, name : Names \cup {NoName}, key : Keys \cup {NoKey},
            ip : IPs \cup {NoIP}, text : RuleTexts \cup {NoText},
            id : 0 .. MaxId, todo : SUBSET RuleTexts]

Idle == [pc |-> "idle", name |-> NoName, key |-> NoKey, ip |-> NoIP,
         text |-> NoText, id |-> 0, todo |-> {}]

Joining(p)  == h[p].pc = "configure"
Deleting(p) == h[p].pc \in {"unconfigure", "select", "purge", "unfilter"}
OnRule(p)   == h[p].pc \in {"filter", "unmap", "unlist"}

\* The rules and the peer that handler p is at work on.
RulesOf(p) ==
    IF OnRule(p) THEN {h[p].text}
    ELSE IF Deleting(p) THEN {t \in RuleTexts : SrcIP[t] = h[p].ip}
    ELSE {}

KeyInHand(p) == IF Joining(p) \/ Deleting(p) THEN {h[p].key} ELSE {}

RulesInHand == UNION {RulesOf(p) : p \in Handlers}
KeysInHand  == UNION {KeyInHand(p) : p \in Handlers}

\* Handlers at work on the name, the address or the key of a row.
OnPeer(row) ==
    {p \in Handlers :
        /\ Joining(p) \/ Deleting(p)
        /\ h[p].name = row.name \/ h[p].ip = row.ip \/ h[p].key = row.key}

Quiet == \A p \in Handlers : h[p].pc = "idle"

Stored(t) == \E r \in rules : r.text = t

-----------------------------------------------------------------------------
Init ==
    /\ peers = {} /\ rules = {} /\ nextId = 1
    /\ link = TRUE /\ wg = [k \in Keys |-> NoPeer] /\ xdp = {}
    /\ h = [p \in Handlers |-> Idle]
    /\ joins = 0 /\ joined = {} /\ suspectKeys = {} /\ suspectRules = {}
    /\ faults = 0 /\ restarts = 0

Finish(p) == h' = [h EXCEPT ![p] = Idle]

\* apply: the interface is configured; or ConfigureDevice fails, and apply
\* removes the interface with all its peers, so that every later call fails; or
\* wgctrl.New fails, and apply returns before it has touched the interface.
Apply(newWg) ==
    /\ link /\ wg' = newWg
    /\ UNCHANGED <<link, faults>>

ApplyFails ==
    /\ IF link THEN faults < MaxFaults /\ faults' = faults + 1
               ELSE UNCHANGED faults
    /\ link' = FALSE
    /\ wg' = [k \in Keys |-> NoPeer]

NoClient ==
    /\ link
    /\ faults < MaxFaults /\ faults' = faults + 1
    /\ UNCHANGED <<link, wg>>

-----------------------------------------------------------------------------
(* POST /join, from the address allocation on.                             *)

\* The lowest address no peer has.  Nothing reserves it, and nothing compares
\* the key with those of the peers: a client may join with one key again.
NextAvailableIP(p, key, asked) ==
    LET free == {ip \in IPs : \A r \in peers : r.ip # ip} IN
    /\ h[p].pc = "idle"
    /\ \E ip \in free :
          /\ \A other \in free : ip <= other
          /\ h' = [h EXCEPT ![p] =
                      [Idle EXCEPT !.pc = "insert", !.key = key, !.ip = ip,
                                   !.name = IF asked = NoName THEN AutoName[ip]
                                            ELSE asked]]
    /\ joins < MaxJoins /\ joins' = joins + 1
    /\ UNCHANGED <<peers, rules, nextId, link, wg, xdp, joined, suspectKeys,
                   suspectRules, faults, restarts>>

RowSwapped(p) == [name |-> h[p].key, key |-> h[p].name, ip |-> h[p].ip]

Row(p) == [name |-> h[p].name, key |-> h[p].key, ip |-> h[p].ip]

ConflictOnName(row, r) == r.name = row.name
ConflictOnIP(row, r) == r.ip = row.ip

\* UNIQUE(name), UNIQUE(assignedIP)
Conflict(row, r) == r.name = row.name \/ r.ip = row.ip

\* Two handlers work on one peer from here on, or two rows have its key.
SuspectKeysWith(row) ==
    LET others == OnPeer(row) IN
    IF others = {} /\ \A r \in peers : r.key = row.key => r = row
    THEN suspectKeys
    ELSE suspectKeys \cup {row.key} \cup {h[q].key : q \in others}

AddPeerOrReplace(p) ==
    /\ h[p].pc = "insert"
    /\ peers' = {r \in peers : ~ Conflict(Row(p), r)} \cup {Row(p)}
    /\ h' = [h EXCEPT ![p].pc = "configure"]
    /\ suspectKeys' = SuspectKeysWith(Row(p))
    /\ UNCHANGED <<rules, nextId, link, wg, xdp, joins, joined, suspectRules,
                   faults, restarts>>

\* 500 when the INSERT violates a constraint.
AddPeer(p) ==
    /\ h[p].pc = "insert"
    /\ \/ /\ \A r \in peers : ~ Conflict(Row(p), r)
          /\ peers' = peers \cup {Row(p)}
          /\ h' = [h EXCEPT ![p].pc = "configure"]
          /\ suspectKeys' = SuspectKeysWith(Row(p))
       \/ /\ \E r \in peers : Conflict(Row(p), r)
          /\ Finish(p)
          /\ UNCHANGED <<peers, suspectKeys>>
    /\ UNCHANGED <<rules, nextId, link, wg, xdp, joins, joined, suspectRules,
                   faults, restarts>>

\* WireGuard gives an allowed IP to one peer: the last one it is set for.
Configured(key, ip) ==
    [k \in Keys |-> IF k = key THEN ip
                    ELSE IF wg[k] = ip THEN NoIP
                    ELSE wg[k]]

\* Device.AddPeer, and the answer.  The row stays when it fails.
DeviceAddPeer(p) ==
    /\ h[p].pc = "configure"
    /\ Finish(p)
    /\ \/ /\ h[p].key \in ValidKeys
          /\ Apply(Configured(h[p].key, h[p].ip))
          /\ joined' = joined \cup {Row(p)}
          /\ UNCHANGED suspectKeys
       \/ /\ h[p].key \in ValidKeys
          /\ ApplyFails
          /\ UNCHANGED <<joined, suspectKeys>>
       \/ /\ \/ h[p].key \in ValidKeys /\ NoClient
             \/ h[p].key \notin ValidKeys /\ UNCHANGED <<link, wg, faults>>
          /\ suspectKeys' = suspectKeys \cup {h[p].key}
          /\ UNCHANGED joined
    /\ UNCHANGED <<peers, rules, nextId, xdp, joins, suspectRules, restarts>>

-----------------------------------------------------------------------------
(* DELETE /peers/{name}.                                                   *)

GetPeerByName(p, row) ==
    /\ h[p].pc = "idle"
    /\ row \in peers
    /\ h' = [h EXCEPT ![p] = [Idle EXCEPT !.pc = "unconfigure",
                                          !.name = row.name, !.key = row.key,
                                          !.ip = row.ip]]
    /\ suspectKeys' = SuspectKeysWith(row)
    /\ suspectRules' = suspectRules \cup
                          {t \in RulesInHand : SrcIP[t] = row.ip}
    /\ UNCHANGED <<peers, rules, nextId, link, wg, xdp, joins, joined, faults,
                   restarts>>

\* Device.RemovePeer: a key that does not parse ends the request with 500.
DeviceRemovePeer(p) ==
    /\ h[p].pc = "unconfigure"
    /\ \/ /\ h[p].key \in ValidKeys
          /\ Apply([wg EXCEPT ![h[p].key] = NoPeer])
          /\ h' = [h EXCEPT ![p].pc = "select"]
       \/ /\ h[p].key \in ValidKeys
          /\ ApplyFails \/ NoClient
          /\ Finish(p)
       \/ /\ h[p].key \notin ValidKeys
          /\ Finish(p)
          /\ UNCHANGED <<link, wg, faults>>
    /\ UNCHANGED <<peers, rules, nextId, xdp, joins, joined, suspectKeys,
                   suspectRules, restarts>>

\* RemoveRulesForPeer: SELECT ... WHERE src_ip = ?
SelectRules(p) ==
    /\ h[p].pc = "select"
    /\ h' = [h EXCEPT ![p].pc = "purge",
                      ![p].todo = {t \in RuleTexts :
                                      Stored(t) /\ SrcIP[t] = h[p].ip}]
    /\ UNCHANGED <<peers, rules, nextId, link, wg, xdp, joins, joined,
                   suspectKeys, suspectRules, faults, restarts>>

DeleteRulesByDst(p) ==
    /\ h[p].pc = "purge"
    /\ rules' = {r \in rules : DstIP[r.text] # h[p].ip}
    /\ h' = [h EXCEPT ![p].pc = "unfilter"]
    /\ UNCHANGED <<peers, nextId, link, wg, xdp, joins, joined, suspectKeys,
                   suspectRules, faults, restarts>>

\* ... then DELETE ... WHERE src_ip = ?
DeleteRules(p) ==
    /\ h[p].pc = "purge"
    /\ rules' = {r \in rules : SrcIP[r.text] # h[p].ip}
    /\ h' = [h EXCEPT ![p].pc = "unfilter"]
    /\ UNCHANGED <<peers, nextId, link, wg, xdp, joins, joined, suspectKeys,
                   suspectRules, faults, restarts>>

RemoveFilterOrStop(p, t) ==
    /\ h[p].pc = "unfilter"
    /\ t \in h[p].todo
    /\ xdp' = xdp \ {MapKey[t]}
    /\ h' = [h EXCEPT ![p].todo = IF MapKey[t] = NoMapKey THEN {} ELSE @ \ {t}]
    /\ UNCHANGED <<peers, rules, nextId, link, wg, joins, joined, suspectKeys,
                   suspectRules, faults, restarts>>

\* The loop over the deleted rules, one map operation each; errors, such as
\* a rule without a key, are ignored.
RemoveFilter(p, t) ==
    /\ h[p].pc = "unfilter"
    /\ t \in h[p].todo
    /\ xdp' = xdp \ {MapKey[t]}
    /\ h' = [h EXCEPT ![p].todo = @ \ {t}]
    /\ UNCHANGED <<peers, rules, nextId, link, wg, joins, joined, suspectKeys,
                   suspectRules, faults, restarts>>

\* RemovePeer goes by the name, not by the row that was looked up.
RemovePeer(p) ==
    /\ h[p].pc = "unfilter"
    /\ h[p].todo = {}
    /\ peers' = {r \in peers : r.name # h[p].name}
    /\ joined' = joined \ {Row(p)}
    /\ Finish(p)
    /\ UNCHANGED <<rules, nextId, link, wg, xdp, joins, suspectKeys, suspectRules,
                   faults, restarts>>

-----------------------------------------------------------------------------
(* POST /rules and DELETE /rules/{id}.                                     *)

\* UNIQUE(src_ip, dst_ip, port, proto).
AddRule(p, t) ==
    /\ h[p].pc = "idle"
    /\ nextId <= MaxId
    /\ ~ Stored(t)
    /\ rules' = rules \cup {[id |-> nextId, text |-> t]}
    /\ nextId' = nextId + 1
    /\ h' = [h EXCEPT ![p] = [Idle EXCEPT !.pc = "filter", !.text = t]]
    /\ suspectRules' = suspectRules \cup ({t} \cap RulesInHand)
    /\ UNCHANGED <<peers, link, wg, xdp, joins, joined, suspectKeys, faults,
                   restarts>>

\* Firewall.AddPeerRule: 500 without a key or with the map full; the row stays.
AddPeerRule(p) ==
    LET key == MapKey[h[p].text] IN
    /\ h[p].pc = "filter"
    /\ \/ /\ key # NoMapKey
          /\ key \in xdp \/ Cardinality(xdp) < MapSize
          /\ xdp' = xdp \cup {key}
          /\ UNCHANGED suspectRules
       \/ /\ key = NoMapKey \/ (key \notin xdp /\ Cardinality(xdp) >= MapSize)
          /\ suspectRules' = suspectRules \cup {h[p].text}
          /\ UNCHANGED xdp
    /\ Finish(p)
    /\ UNCHANGED <<peers, rules, nextId, link, wg, joins, joined, suspectKeys,
                   faults, restarts>>

GetRuleByID(p, r) ==
    /\ h[p].pc = "idle"
    /\ r \in rules
    /\ h' = [h EXCEPT ![p] = [Idle EXCEPT !.pc = "unmap", !.text = r.text,
                                          !.id = r.id]]
    /\ suspectRules' = suspectRules \cup ({r.text} \cap RulesInHand)
    /\ UNCHANGED <<peers, rules, nextId, link, wg, xdp, joins, joined,
                   suspectKeys, faults, restarts>>

\* Firewall.RemovePeerRule: a key that is not in the map is no error, a rule
\* that has no key is one: 500, and the row stays.
RemovePeerRule(p) ==
    LET key == MapKey[h[p].text] IN
    /\ h[p].pc = "unmap"
    /\ xdp' = xdp \ {key}
    /\ IF key # NoMapKey THEN h' = [h EXCEPT ![p].pc = "unlist"] ELSE Finish(p)
    /\ UNCHANGED <<peers, rules, nextId, link, wg, joins, joined, suspectKeys,
                   suspectRules, faults, restarts>>

RemoveRule(p) ==
    /\ h[p].pc = "unlist"
    /\ rules' = {r \in rules : r.id # h[p].id}
    /\ Finish(p)
    /\ UNCHANGED <<peers, nextId, link, wg, xdp, joins, joined, suspectKeys,
                   suspectRules, faults, restarts>>

-----------------------------------------------------------------------------
\* A statement fails: the handler answers 500 and undoes nothing.
StatementFails(p) ==
    /\ h[p].pc \in {"insert", "select", "purge", "unfilter", "unlist"}
    /\ h[p].todo = {} \/ h[p].pc = "purge"
    /\ faults < MaxFaults
    /\ faults' = faults + 1
    /\ Finish(p)
    /\ suspectKeys' = suspectKeys \cup KeyInHand(p)
    /\ suspectRules' = IF h[p].pc = "unlist"
                       THEN suspectRules \cup {h[p].text}
                       ELSE suspectRules
    /\ UNCHANGED <<peers, rules, nextId, link, wg, xdp, joins, joined, restarts>>

\* A map operation fails: an error of a request for a rule, ignored in the loop
\* of DeletePeer.
MapFails(p) ==
    /\ faults < MaxFaults
    /\ faults' = faults + 1
    /\ \/ /\ h[p].pc = "filter"
          /\ Finish(p)
          /\ suspectRules' = suspectRules \cup {h[p].text}
       \/ /\ h[p].pc = "unmap"
          /\ Finish(p)
          /\ UNCHANGED suspectRules
       \/ /\ h[p].pc = "unfilter"
          /\ \E t \in h[p].todo :
                /\ h' = [h EXCEPT ![p].todo = @ \ {t}]
                /\ suspectRules' = suspectRules \cup {t}
    /\ UNCHANGED <<peers, rules, nextId, link, wg, xdp, joins, joined, suspectKeys,
                   restarts>>

\* The start puts the stored peers on the fresh interface one by one, and logs
\* and skips those that fail: keys that do not parse, and any while wgctrl.New
\* fails.  Of several rows with one key the last stands.  (A configuration that
\* fails removes the interface, and the start ends with it.)
Restorable == {r \in peers : r.key \in ValidKeys}

RestoredPeers(kept) ==
    {f \in [Keys -> IPs \cup {NoPeer}] : \A k \in Keys :
        \/ \E r \in kept : r.key = k /\ f[k] = r.ip
        \/ f[k] = NoPeer /\ \A r \in kept : r.key # k}

\* The keys that one restored row has, and nothing else speaks of.
Settled(kept) ==
    {k \in Keys : \E r \in kept : /\ r.key = k
                                 /\ \A c \in peers \cup joined : c.key = k => c = r}

\* The rules it puts into the fresh map: as many as fit, in no particular order.

StoredKeys == {MapKey[r.text] : r \in rules} \ {NoMapKey}

RestoredRules ==
    {S \in SUBSET StoredKeys : /\ Cardinality(S) <= MapSize
                              /\ (S = StoredKeys \/ Cardinality(S) = MapSize)}

\* On a signal the server takes the interface down first; requests go on until
\* the process exits.  Bound: it is started again afterwards.
Shutdown ==
    /\ restarts < MaxRestarts
    /\ link
    /\ link' = FALSE
    /\ wg' = [k \in Keys |-> NoPeer]
    /\ UNCHANGED <<peers, rules, nextId, xdp, h, joins, joined, suspectKeys,
                   suspectRules, faults, restarts>>

\* The process ends at any point, and starts again before it serves requests.
\* What the start puts in place is no longer suspect.
Restart ==
    /\ restarts < MaxRestarts
    /\ restarts' = restarts + 1
    /\ h' = [p \in Handlers |-> Idle]
    /\ link' = TRUE
    /\ \E kept \in SUBSET Restorable :
          /\ IF kept = Restorable THEN UNCHANGED faults
             ELSE faults < MaxFaults /\ faults' = faults + 1
          /\ wg' \in RestoredPeers(kept)
          /\ suspectKeys' = (suspectKeys \cup {r.key : r \in peers}) \ Settled(kept)
    /\ \E S \in RestoredRules :
          /\ xdp' = S
          /\ suspectRules' = {t \in RuleTexts : Stored(t) /\ MapKey[t] \notin S}
    /\ UNCHANGED <<peers, rules, nextId, joins, joined>>

-----------------------------------------------------------------------------
Step(p) ==
    \/ AddPeer(p) \/ DeviceAddPeer(p)
    \/ DeviceRemovePeer(p) \/ SelectRules(p) \/ DeleteRules(p)
    \/ \E t \in RuleTexts : RemoveFilter(p, t)
    \/ RemovePeer(p)
    \/ AddPeerRule(p)
    \/ RemovePeerRule(p) \/ RemoveRule(p)
    \/ StatementFails(p) \/ MapFails(p)

Request(p) ==
    \/ \E key \in Keys, asked \in JoinNames : NextAvailableIP(p, key, asked)
    \/ \E row \in peers : GetPeerByName(p, row)
    \/ \E t \in RuleTexts : AddRule(p, t)
    \/ \E r \in rules : GetRuleByID(p, r)

Next ==
    \/ \E p \in Handlers : Request(p) \/ Step(p)
    \/ Shutdown \/ Restart

Spec == Init /\ [][Next]_vars

-----------------------------------------------------------------------------
TypeOK ==
    /\ peers \subseteq Peer
    /\ rules \subseteq Rule
    /\ nextId \in 1 .. MaxId + 1
    /\ link \in BOOLEAN
    /\ wg \in [Keys -> IPs \cup {NoIP, NoPeer}]
    /\ xdp \subseteq MapKeys
    /\ h \in [Handlers -> Handler]
    /\ joins \in 0 .. MaxJoins
    /\ joined \subseteq Peer
    /\ suspectKeys \subseteq Keys
    /\ suspectRules \subseteq RuleTexts
    /\ faults \in 0 .. MaxFaults
    /\ restarts \in 0 .. MaxRestarts

\* The filter enforces the stored rules: a rule that no handler is at work on
\* has its key in the map exactly when it is in the table, unless requests for
\* that very rule, or for its source peer, overlapped or one of them failed.
\* Requests for other rules and peers, in any interleaving, do no harm.
RulesEnforced ==
    \A t \in RuleTexts \ (suspectRules \cup RulesInHand) :
        Stored(t) <=> MapKey[t] \in xdp

\* For each rule by itself the handlers do what RuleLedger promises: requests
\* that overlap or fail put their own rule in doubt, never another, and a start
\* of the server ends the doubt for every rule it finds room for.
RuleWork(t) ==
    IF t \in suspectRules THEN "doubtful"
    ELSE IF \E p \in Handlers : h[p].pc = "filter" /\ h[p].text = t THEN "creating"
    ELSE IF t \in RulesInHand THEN "deleting"
    ELSE "idle"

Ledger == INSTANCE RuleLedger
    WITH work     <- [t \in RuleTexts |-> RuleWork(t)],
         listed   <- [t \in RuleTexts |-> Stored(t)],
         enforced <- [t \in RuleTexts |-> MapKey[t] \in xdp]

ImplementsLedger == Ledger!Spec

\* The interface routes the stored peers: a key is a peer of the interface with
\* the address of its row, or has no row and no address there, unless requests
\* for that very peer overlapped, one of them failed, or two rows share the key.
\* Requests for other peers, in any interleaving, do no harm.
PeersRouted ==
    link => \A k \in Keys \ (suspectKeys \cup KeysInHand) : \A ip \in IPs :
        wg[k] = ip <=> \E r \in peers : r.key = k /\ r.ip = ip

\* A client whose join went through stays a peer until a DELETE that looked up
\* its row removes it, through failures, restarts and whatever happens to other
\* peers, unless requests for that very peer overlapped, one of them failed, or
\* its key is shared.
JoinedStays ==
    \A m \in joined : m.key \notin suspectKeys \cup KeysInHand => m \in peers

\* RemovePeer deletes by name what was looked up some steps before.  Still a row
\* goes only by a DELETE that looked up that very row, with its key and address,
\* unless requests for that row overlapped (then a later holder of the name may
\* go), one of them failed, or its key is shared.
DeletesWhatItLookedUp ==
    [][\A r \in peers \ peers' :
          r.key \notin suspectKeys =>
              \E q \in Handlers : Deleting(q) /\ Row(q) = r]_vars

\* The README's first paragraph: the server allocates IPs and configures
\* WireGuard peers.  One that was told it joined, and is in the table, is routed.
JoinedIsRouted ==
    (Quiet /\ link) => \A m \in joined \cap peers : wg[m.key] = m.ip

\* README, DELETE /peers/{name}: all its firewall rules are removed.
DeletedPeerLeavesNoRules ==
    [][\A m \in joined \ joined' :
          \A r \in rules' : m.ip \notin {SrcIP[r.text], DstIP[r.text]}]_vars

-----------------------------------------------------------------------------
(* Why these hold: what is known of a rule or a peer at each step of the    *)
(* handler at work on it, and of those that no handler is at work on.       *)

OnRow(p) == h[p].pc = "insert" \/ Joining(p) \/ Deleting(p)

\* What a program counter says of the locals of its handler.
LocalInv ==
    \A p \in Handlers :
        /\ OnRow(p) => h[p].name # NoName /\ h[p].key # NoKey /\ h[p].ip # NoIP
        /\ OnRule(p) => h[p].text # NoText
        /\ h[p].todo # {} => h[p].pc \in {"purge", "unfilter"}
        /\ \A t \in h[p].todo : SrcIP[t] = h[p].ip

\* The ids and the texts of firewall_rules are unique, and an id is not given
\* away again while a handler may still delete by it.
RuleRowInv ==
    /\ \A r, s \in rules : (r.id = s.id \/ r.text = s.text) => r = s
    /\ \A r \in rules : r.id < nextId
    /\ \A p \in Handlers : h[p].pc \in {"unmap", "unlist"} =>
          /\ h[p].id < nextId
          /\ \A r \in rules : r.id = h[p].id => r.text = h[p].text

Enforced(t) == MapKey[t] \in xdp

\* How far handler p has come with rule t, which is its own.
RuleProgress(p, t) ==
    LET row == [id |-> h[p].id, text |-> t] IN
    /\ h[p].pc = "filter" => Stored(t) /\ ~ Enforced(t)
    /\ h[p].pc = "unmap" => row \in rules /\ Enforced(t)
    /\ h[p].pc = "unlist" => row \in rules /\ ~ Enforced(t)
    /\ h[p].pc \in {"unconfigure", "select", "purge"} => (Stored(t) <=> Enforced(t))
    /\ h[p].pc = "purge" => (t \in h[p].todo <=> Stored(t))
    /\ h[p].pc = "unfilter" => ~ Stored(t) /\ (t \in h[p].todo <=> Enforced(t))

\* One handler at most is at work on t, and has come so far; else the filter
\* agrees with the table.
RuleKept(t) ==
    /\ \A p, q \in Handlers : t \in RulesOf(p) \cap RulesOf(q) => p = q
    /\ \A p \in Handlers : t \in RulesOf(p) => RuleProgress(p, t)
    /\ t \notin RulesInHand => (Stored(t) <=> Enforced(t))

\* The invariant behind RulesEnforced and ImplementsLedger.
RuleInv ==
    /\ TypeOK /\ LocalInv /\ RuleRowInv
    /\ \A t \in RuleTexts \ suspectRules : RuleKept(t)

\* Whatever speaks of a peer: rows, requests at work on one, and answers.
Claims == peers \cup {Row(p) : p \in {q \in Handlers : Joining(q) \/ Deleting(q)}}
                \cup joined

\* All that speaks of a key not suspect speaks of one row; no two rows share a
\* name or an address.
ClaimInv ==
    /\ \A a, b \in Claims : (a.key = b.key /\ a.key \notin suspectKeys) => a = b
    /\ \A a, b \in peers : (a.name = b.name \/ a.ip = b.ip) => a = b

\* A row that came under the hands of a request for an earlier peer of its
\* name or address is suspect.
OverlapInv ==
    \A p \in Handlers, r \in peers :
        /\ Joining(p) \/ Deleting(p)
        /\ r.name = h[p].name \/ r.ip = h[p].ip
        /\ r.key # h[p].key
        => r.key \in suspectKeys

\* How far the one handler at work on a peer has come with it.
PeerProgress(p) ==
    /\ \A q \in Handlers : (h[q].key = h[p].key /\ (Joining(q) \/ Deleting(q))) => q = p
    /\ Row(p) \in peers
    /\ Deleting(p) => h[p].key \in ValidKeys
    /\ IF h[p].pc = "unconfigure" THEN link => wg[h[p].key] = h[p].ip
                                  ELSE wg[h[p].key] \notin IPs

ProgressInv ==
    \A p \in Handlers :
        ((Joining(p) \/ Deleting(p)) /\ h[p].key \notin suspectKeys) => PeerProgress(p)

\* A stored peer has a key that parses, or it was never put on the interface.
ValidInv ==
    \A r \in peers : r.key \in suspectKeys \cup KeysInHand \cup ValidKeys

LinkInv == ~ link => \A k \in Keys : wg[k] = NoPeer

\* The invariant behind PeersRouted, JoinedStays and DeletesWhatItLookedUp.
PeerInv ==
    /\ TypeOK /\ LocalInv
    /\ ClaimInv /\ OverlapInv /\ ProgressInv /\ ValidInv /\ LinkInv
    /\ PeersRouted /\ JoinedStays
=============================================================================
