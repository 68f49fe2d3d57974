# TLA+ models of wgxdp

wgxdp manages a WireGuard overlay network: a server (`wgxdp-server`) with a
REST API, a SQLite database, a WireGuard interface and an XDP packet filter, a
command-line client (`wgxdp join`) and a web UI. These modules model the parts
of it whose correctness depends on what happens in which order, check them with
TLC on small instances, and prove the central properties with TLAPS for all
instances. Paths below are relative to `src/`.

## 1. The system

| Part | State | Operations | Hard because |
|---|---|---|---|
| Device authorization flow (`internal/handlers_device.go`, `internal/database.go`) | table `device_codes`: status, token, expiry, who decided | `POST /device/code`, `POST /device/token`, `POST /device/verify`, the token check of `POST /join`, the clean-up goroutine | two users decide at once; expiry; lost and repeated requests; restarts |
| Join client (`cmd/wgxdp/main.go`) | its code, token, deadline | ask for a code, poll, join once | its clock and the server's; every answer may be an error |
| Peers (`internal/handlers_peers.go`) | table `peers`, unique name and address | `POST /join` from the address on, `DELETE /peers/{name}` | several statements and a kernel call, no lock, no transaction |
| Firewall rules (`internal/handlers_rules.go`) | table `firewall_rules`, unique 4-tuple | `POST /rules`, `DELETE /rules/{id}` | table and eBPF map are written one after the other |
| WireGuard device (`wireguard/`) | the interface, its peers and allowed IPs, a key file | add and remove a peer, set up, remove | an error removes the whole interface, or leaves it as it was; an address belongs to one peer, a key has one address |
| Firewall service and XDP program (`firewall/`) | the map `peer_rules`, 1024 entries | add and remove a key; one decision per packet | key encoding; capacity |
| Start and shutdown (`cmd/wgxdp-server/main.go`) | - | create the interface, restore peers, attach XDP, restore rules, serve; on a signal remove the interface | failures halfway; requests served while the interface goes |
| Routing, authentication (`internal/server.go`, `internal/middleware.go`) | none | 401 for a request without a user | the session is the proxy's, and may end at any time |
| Web UI (`web/`) | the URL, the fields of each view, the redirect guard, a service worker's cache | fetch, show, change; sign in again | answers that arrive after the user moved on; many requests meet a lost session |
| Configuration (`config/`) | - | read once | - |

How they interact: the client talks HTTP to the flow and to `/join`; users
decide codes and manage peers and rules from the web UI; handlers run in a
goroutine each and share only the database, the interface and the map. Every
SQL statement is atomic by itself (SQLite serializes writers), nothing spans
two of them. The tables survive the process; interface and map are rebuilt from
them when it starts.

What makes each part correct:

* flow: a code is decided at most once and admits at most one device, and only
  one that asked for it in time and that a user asked to approve; users are told the
  truth; rows and clients do not linger;
* peers: who joined has its row and its address on the interface
  until it is deleted; no request harms another peer;
* rules: the filter passes exactly what the table lists;
* restart: whatever a crash left half done is made whole by the start;
* web UI: what a page shows, and changes, is what its URL and its display say; no
  page loads for ever; a lost session leads to the sign-in page, without a loop.

## 2. The modules

| Module | What it is | Source |
|---|---|---|
| `DeviceGrant` | abstract: what the flow promises, a status per code and the join it admitted | - |
| `DeviceFlow` | the flow, statement by statement, with clients, users, clock, clean-up, restarts | `handlers_device.go`, `database.go:218-333, 431-457`, `handlers_peers.go:132-180`, `server.go:67-75`, `cmd/wgxdp/main.go` |
| `DeviceFlowProofs` | theorems about `DeviceFlow` | - |
| `Overlay` | peers, rules, interface, map, concurrent handlers, failures, shutdown, restart | `handlers_peers.go`, `handlers_rules.go`, `database.go`, `firewall/service.go`, `wireguard/`, `cmd/wgxdp-server/main.go` |
| `OverlayProofs` | theorems about the types and the rules of `Overlay` | - |
| `OverlayPeerProofs` | theorems about the peers of `Overlay`, on top of `OverlayProofs` | - |
| `XdpFilter` | the map key of a rule, the map key of a packet, the decision | `firewall/c/program.c`, `firewall/service.go`, `handlers_rules.go` |
| `XdpFilterProofs` | theorems about `XdpFilter` | - |
| `IPAlloc` | the search for a free address | `database.go:161-216` |
| `IPAllocProofs` | theorems about `IPAlloc` | - |
| `ServerLifecycle` | the server process from its start to its end, and the next one | `cmd/wgxdp-server/main.go`, `wireguard/device.go`, `wireguard/utils.go`, `firewall/service.go:34-80`, `server.go:30-90` |
| `ServerLifecycleProofs` | theorems about `ServerLifecycle` | - |
| `RuleLedger` | abstract: what the server promises of one rule, in the table and in the filter | - |
| `ApiSession` | requests of a page, the lost session, the redirect and its guard | `web/api.js`, `web/sw.js`, `middleware.go` |
| `WebViews` | the router and the views, on top of `ApiSession` | `web/index.html`, `web/components/` |
| `WebViewsProofs` | theorems about `WebViews`, with `ApiSession` | - |
| `MCDeviceFlow`, `MCOverlay`, `MCXdpFilter` | instances for TLC: symmetry, small addresses and rules | - |

`DeviceFlow` and `Overlay` meet in `JoinHandler`: `DeviceFlow` has its first
half (`ConsumeAccessToken`), `Overlay` the rest. `DeviceFlow!FinishJoin` stands
for that rest and may succeed or fail; `Overlay!NextAvailableIP` is a join that
has passed the token check. The two halves share no variable. Three
modules detail what `Overlay` takes as one step or one value: `IPAlloc` its
`NextAvailableIP`, `XdpFilter` its `MapKeys`, `ServerLifecycle` its `Restart` and
`Shutdown`. The web UI meets the server in the requests only: `ApiSession!Answer` is what
`requireAuth` makes of each, and what a handler replies is any success or error.

### DeviceFlow

State: `rows` is the table (a deleted row keeps its last contents, so that
properties can speak of it; `Live` says whether it is there), `client` the
`wgxdp join` processes, `join` the `/join` requests, `admin` the verify handlers
from their lookup to their reply, `now` the clock in seconds (`time.Now().Unix()`),
`asked` the approvals that passed the handler's checks and `verdicts` the replies users
have seen (observers, no guard reads them), and `took` in a join request the row it
consumed (likewise).

Steps follow the code's own: a handler that issues two statements, and then replies, is
three actions (`VerifyLookup`, then `ApproveDeviceCode` or `DenyDeviceCode`, then
`VerifyReply`; the process may end before the last, which leaves a decided row that nobody
was told about), one that reads the clock before its statement is two (`JoinHandler` takes
the `stamp`, `ConsumeAccessToken` deletes by it) or uses any earlier time
(`CreateDeviceCode`, `CleanExpiredDeviceCodes`). A statement may fail, in the disjunct that leaves the table alone.
The client's poll and the server's handler are one step, `DeviceTokenHandler`,
because the handler only reads: an answer that travels long is the client acting
late. `ClientGivesUp` is everything that makes `runJoin` return an error;
the handler it waited for goes on.

### Overlay

State: `peers`, `rules` (tables), `wg` (the interface's peers and allowed IPs),
`link` (whether the interface exists), `xdp` (keys of the map), `h` (a program
counter and locals per handler). A program counter names the step that comes
next. `todo` holds the rules `RemoveRulesForPeer` returned. `joined`,
`suspectKeys` and `suspectRules` are observers. Nothing keeps a key from being
presented again: `public_key` is not UNIQUE, and two rows may have one. `joins`
counts the joins for the bound `MaxJoins`.

`suspect...` records where the code makes no promise that could hold: a rule or
a peer that two requests worked on at the same time, or that a request left half
done when it answered 500, and keys that two rows share (the interface has one peer
for both). A restart takes out of it what it puts in place. The safety properties exempt those and claim
everything for all others. What really happens in the exempted cases is shown
by the runs that expect a violation and in section 5.

`apply` fails in two ways. When the kernel refuses a configuration it removes the
interface, and every later call fails because there is none (`ApplyFails`; `Apply`
requires `link`). When there is no wgctrl client it returns before it has touched the
interface (`NoClient`): the row of a join is in the table and its key is not on the
interface, and a deletion ends with everything as it was. `Configured` is the kernel's
rules that an allowed IP belongs to the peer it was set for last, and that the address of a
key replaces its earlier one. `StatementFails` and `MapFails` are the failures of SQL
statements and of operations on the map; the loop of `DeletePeer` ignores the latter.
`Shutdown` is the goroutine of `NewDevice` that removes the interface while requests are still
served. `Restart` is the end of the process, at any point, and its start: a fresh map with
as many stored rules as fit, and a fresh interface with the stored peers whose key parses, or
with some of them only (`kept`, counted as a failure), because `main` logs a peer that cannot
be restored and goes on. Of several rows with one key the one restored last stands.

`RuleLedger` says the same of a rule as a promise, without counters or observers: a
rule is idle, being created, being deleted, or in doubt, and listed and enforced agree
when it is idle. `Overlay` implements it for each rule (`ImplementsLedger`) with
`RuleWork` as the mapping: what the handlers' program counters, the pending `todo` sets
and `suspectRules` say of the rule. The ledger has no step that brings a rule into doubt
without a request of its own under way, except a restart that finds no room for it in
the map, and a rule leaves doubt by a restart only.

### XdpFilter

A rule is what the user wrote: addresses as text (IPv4, IPv4-mapped, IPv6), port and
protocol as any integers. `getRuleKey` makes the map key of it, as the bytes that the
Go struct has in memory, and `packetKey` makes the key of a packet, as the bytes the
program puts on its stack; `filter` is the program, branch by branch. The subnet is one
that `net.ParseCIDR` returns: its address is masked, and a byte of its mask is ones and
then zeros.
`FilterMatchesRules` compares it with the rules as written and with the subnet as a
prefix, neither of which goes through a key. Addresses have two bytes instead of four
and the byte order of the host is a constant. The branch `ihl > 15` of the program is
left out, since the field has four bits. Requests are single steps here.

### IPAlloc

One search. `base`, `size` are the subnet, `used` what the query returned; `candidate`
is computed modulo `Top`, which stands for 2^32.

### ServerLifecycle

State: `pc`, the next step of `main`; `link` and `attached`, what the kernel
has; `keyFile` and `key`; the two goroutines (`ctx`, `remover`) and the listener.
A process is started, fails at any step of the start (`Fatal`), is killed (`Crash`),
or ends by a signal; the kernel drops the XDP program with its process and keeps the
interface, and the next process finds it. `setupKeys` is three steps, because the key
file is created before it is written, and `ensureLink` two, because the interface left
behind is deleted before the new one is added. `BringUp` is the three steps from the address
to the route. `RestorePeers` leaves the interface with the peers that could be restored, or
without itself when the kernel refused one; which peers those are is in `Overlay`. In the
second case `firewall.New` finds no interface and the start ends. `ServeJoin` is what a
request can do to the interface: use it, or remove it by a failing configuration.

### ApiSession

State: `session`, whether the proxy passes a user on; `redirected`, the loop guard of
`sessionStorage`, set and not yet 5 seconds old; `page`, the document (open, `leaving`
once `location.assign` was called, away at the sign-in page); `call`, the requests of the
document. A request goes `sent`, `served` or `refused` (`Answer`, which is
`requireAuth`), and then `Succeed`, `Throw` or `Fail` (which may be a success whose
body does not parse, after the guard was cleared), or `LoseSession`, where
`handleSessionLost` awaits the body of the reply, and `Redirect`, after which it never
settles (`hung`). Requests are answered in any order. A document that is leaving still
runs its scripts. `Cached`, `Leave`, `SignIn`, `Bounce` are the ways of a navigation:
the worker answers it when it is installed and the URL is of its origin, otherwise the
proxy does; the model takes either each time, as it knows neither the installation nor the
configured URL. `armed` is an observer: nothing was redirected since the last success.

### WebViews

State: `url` and `link` (the location, and the code in it), `detail` (`PeerDetail`: the
peer of the handlers, the peer and the rules on display), `approve` (`DeviceApprove`),
`crossed`. Every handler is two steps, up to its `await` (`Visit`, `TypeCode`,
`HandleAction`, `ChangePeer`) and from there (`After...`), and the second one works on
the fields as they are by then, as the code does. A request may be followed by another
one in its slot. `loadData` waits for three requests together, which is one here. A view
that is hidden keeps nothing but `loading`: the router sets its other fields anew before it
shows it again. The decisions of a code page go through `this.code`, the display shows
`info`, and the model keeps the two apart.

`crossed` is an observer: a view is in it from the time it asks a second, different question
while one is in flight, until it asks one with none in flight. The code drops no late
answer, so that the later answer wins; two properties exempt those views and section 5
describes what happens in them.

## 3. Runs

| Run | Expect | Instance | What it shows |
|---|---|---|---|
| `device_flow_one_code` | pass, 469k states | 1 client, 2 users, 1 code, 2 join requests, lifetime 2, clock to 3, 1 restart | everything at once on one code: safety, refinement of `DeviceGrant`, liveness |
| `device_flow_two_codes` | pass, 1.6M states | 2 clients, 1 user, 2 codes and tokens, 2 requests, lifetime 2, clock to 2, 1 restart | codes, tokens and requests are not confused: the inductive invariant |
| `device_flow_denied` | violation | 1 client, 2 users, 1 code | a user told "Denied", and the device joins |
| `overlay_rules` | pass, 655k states | 3 handlers, 3 rules of which one has no map key, a map of 1 entry, 1 peer, 2 row ids, 1 failure, 1 restart | the filter holds the stored rules; refinement of `RuleLedger`; the inductive invariant of rules |
| `overlay_peers` | pass, 1.7M states | 3 handlers, 3 keys of which one does not parse, any of them used again, 3 joins, 2 addresses, 2 names, 1 failure, 1 restart | interface and table agree; peers do not disturb each other; the inductive invariant of peers |
| `overlay_stolen_address` | violation | 2 handlers, 2 keys, 1 address | a deleted peer takes the address of its successor |
| `overlay_inbound_rules` | violation | 1 handler, 1 rule | rules to a deleted peer stay |
| `xdp_filter_rules` | pass, 1.5k states | 3 address texts (IPv4, IPv4-mapped, IPv6), 3 ports, 2 protocols, up to 2 rules; 2592 packets with 4 source and 4 destination addresses | the program passes what the rules name |
| `ip_alloc` | pass, 9k states | 8 addresses, subnets of 1, 2, 4 and 8, every set of used addresses | the search is right and ends |
| `server_lifecycle` | pass, 1.1k states | 3 processes, 2 keys | filtered while serving, one key, clean exit |
| `web_views` | pass, 110k states | 2 peers, 2 codes (one in a link), 2 requests in flight | views and late answers; lost sessions; liveness; the inductive invariant of views |
| `web_sign_in` | violation | the same | a lost session never reaches the sign-in page |

Bounds and why they are enough. A race on a code takes two users, one client
and the same request twice; a third adds no new pair of steps. A lifetime of two
ticks has a time before, at and after the expiry, and a clock of three lets the
clean-up run afterwards; the 600 and 5 seconds of the code are `Expiry` and
`Interval`. `RepeatedJoin` leaves one request for the client itself, so the
repeats never keep it from joining. In `Overlay` two handlers make every race
and the third is the bystander that the properties protect (or the one that
takes a freed address or name), and three joins let an address, a name or a key be
used again while the requests for its first holder are still on their way; `MapSize` 1 makes the map overflow with the
second rule; two ids allow a rule to be deleted and added again, or two rules at
once. One failure and one restart are each allowed at every point. In `WebViews` two
requests in flight are one that is late and one it is late for; a third asks the same
of the pair. A user with both in flight waits: the page can send no more than `MaxCalls`,
which the browser does not limit. `Visit` goes one page at a time and remembers no
history. `WindowPasses`, the end of the guard's 5 seconds, may come at any time. The
packets of `XdpFilter` have a size just below and at each bound the program tests, with
and without options, an address inside the subnet, the first one after it and one with
its bytes reversed; port 20480 is 80 with its bytes swapped. In `IPAlloc` a subnet of
eight has several free addresses, gaps, and a last candidate; size 1 and 2 are /32 and
/31. Three processes make a key file that is written, used and read again, and an
interface left behind twice. `CHECK_DEADLOCK FALSE` is set
because a bounded instance ends: all codes used, all clients done, no id left.

Symmetry is used only where no liveness property is checked, and only on sets
whose members the instance treats alike (in `MCOverlay` not the key that does
not parse, nor the rules, which have addresses).

Fairness (`DeviceFlow!Fairness`) covers what runs by itself: the clock, the
client process, the handlers, and the clean-up, whose ticker fires every ten
minutes for as long as the process lives. No fairness is assumed of users, of
repeated requests, of failures or of restarts.
In `ServerLifecycle` it covers `main`, `shutdownHandler` and the goroutine that removes
the interface, and in `IPAlloc` the loop. In `WebViews` it covers the server's answers,
the delivery of each answer to the page, and navigations under way; none is assumed of users,
of a sign-in or of the session. (The browser rejects a `fetch` whose connection breaks;
a connection that stays open and silent is not covered.) A clean-up whose DELETE fails is
tried again by the next tick of the ticker, which is what weak fairness of a
successful one says.

The properties, apart from one type invariant per module:

* `HandedTokenStays`, `ApprovedReplyTruthful`: the `AND status = 'pending'` of the
  two UPDATEs is what makes the unlocked check-then-act of `deviceVerifyPost`
  safe; without it a late decision takes a token away that a client holds.
* `OneAdmissionPerCode`: the DELETE of `ConsumeAccessToken`.
* `AdmissionIsEarned`: behind whoever passes the token check are the client that asked for the
  code, in time, and a user whose request to approve that code passed the checks, who is the
  one the row names. That this user was told "Approved" is not claimed: the process may end
  between the UPDATE and the reply, and the client joins after the restart.
* `DeadlineCoversLifetime`: the client's deadline is not before the server's.
* `RowsAreCleaned`, `ClientsTerminate`: liveness.
* `ImplementsGrant`: the flow refines `DeviceGrant`, with a row's `status` as the
  grant's, a deleted row being redeemed if a join took it and lapsed otherwise.
* `RulesEnforced`, `PeersRouted`: map and interface mirror the tables, for all rules and peers
  but those that overlapping or failing requests, or a shared key, concern themselves.
* `ImplementsLedger`: a rule's disagreement between table and filter has a cause of its
  own, also across failures and restarts.
* `RuleInv`, `PeerInv`, `ViewInv`, `IndInv`: the inductive invariants of section 4.
* `JoinedStays`, `DeletesWhatItLookedUp`: one request never harms another's peer. `RemovePeer`
  deletes by a name that was looked up several steps before; a row outside `suspectKeys` goes
  only by a request that looked up that very row, with its key and address. It rests on
  UNIQUE(name) and on the row of a request staying until that request removes it; the mutant
  without the constraint breaks it.
* `FilterMatchesRules`: table, encoding of the key and program agree on every packet.
* `LowestFree`, `Terminates`: the search against its definition.
* `ServedIsFiltered`: between a signal, peers that cannot be restored and joins that
  fail, requests are never served over an interface without its filter. Whether all peers are
  on it is not its subject (they need not be).
* `KeyIsStable`: clients of all processes know the key that the file keeps.
* `CleanExit`, `SignalEnds`: a signal at any step, also before the interface exists,
  ends the process without it; the goroutine that removes it does not hold up the exit
  when it is gone already.
* `PageShowsItsPeer`: the peer and the rules on display, and the peer that changes go to, are
  those of the URL, whatever answers of earlier pages come in.
* `CodeShownIsDecided`: Approve and Deny post the code the user sees.
* `SpinnersEnd`: each "Loading..." is followed by content, or left.
* `ReloadsEnd`, `LostSessionRedirects`: the guard keeps a page without a session from
  leaving and coming back for ever, whatever its user clicks, unless 5 seconds pass in
  between each time, and no success leaves it set, so that the next loss is followed by a
  redirect again.

## 4. Proofs

Every safety invariant, action property and refinement that a passing run checks is also a
theorem, for every value of the constants that the named assumptions allow. The bounds of the
models (clock, ids, failures, restarts, rules in the table, requests of a page) are constants too.

| Module | Theorem | States |
|---|---|---|
| `DeviceFlowProofs` | `TypeCorrect` | `Spec => []TypeOK` |
| | `Invariant` | `Spec => []IndInv` |
| | `SingleUse` | `Spec => []OneAdmissionPerCode` |
| | `TokensStay` | `Spec => []HandedTokenStays` |
| | `Earned` | `Spec => []AdmissionIsEarned` |
| | `ApprovedIsTrue` | `Spec => []ApprovedReplyTruthful` |
| | `Implementation` | `Spec => ImplementsGrant` |
| | `DeadlinesCover` | `Spec => []DeadlineCoversLifetime` |
| `OverlayProofs` | `OverlayTyped` | `Spec => []TypeOK` |
| | `RulesKept` | `DistinctKeys /\ Spec => []RuleInv` |
| | `OverlayRulesEnforced` | `DistinctKeys /\ Spec => []RulesEnforced` |
| | `OverlayImplementsLedger` | `DistinctKeys /\ Spec => ImplementsLedger` |
| `OverlayPeerProofs` | `PeersKept` | `Spec => []PeerInv` |
| | `OverlayPeersRouted` | `Spec => []PeersRouted` |
| | `OverlayJoinedStays` | `Spec => []JoinedStays` |
| | `OverlayDeletesWhatItLookedUp` | `Spec => DeletesWhatItLookedUp` |
| `XdpFilterProofs` | `FilterTyped` | `Spec => []TypeOK` |
| | `FilterKeys` | `WellWritten /\ Spec => []KeysMirror` |
| | `FilterDecidesByRules` | `WellWritten /\ Spec => []FilterMatchesRules` |
| `ServerLifecycleProofs` | `LifecycleInv` | `Spec => []IInv` |
| | `LifecycleTyped` | `Spec => []TypeOK` |
| | `LifecycleServedIsFiltered` | `Spec => []ServedIsFiltered` |
| | `LifecycleKeyIsStable` | `Spec => []KeyIsStable` |
| | `LifecycleCleanExit` | `Spec => []CleanExit` |
| `WebViewsProofs` | `ViewsTyped` | `Spec => []TypeOK` |
| | `ViewsKept` | `Spec => []ViewInv` |
| | `PagesShowTheirPeers` | `Spec => []PageShowsItsPeer` |
| | `ShownCodesAreDecided` | `Spec => []CodeShownIsDecided` |
| `IPAllocProofs` | `Allocation` | `Spec => []LowestFree` |

### Assumptions and hypotheses

The assumptions say that bounds are naturals (some positive), that the "none" values are not
members of their sets, and what fits together (`OverlayAssumption`, `ViewAssumption`); TLC
evaluates each of them in the runs. Two theorems have hypotheses beyond them:

* `DistinctKeys`: no two rules share a map key. Where two do (ports that are equal modulo
  2^16, protocols modulo 2^8, an address also written as `::ffff:a.b.c.d`; section 5), deleting one
  switches the other off, and `RulesEnforced` is false. Rules without a key are allowed.
* `WellWritten`: the host is little-endian, ports and protocols are in their ranges, and no
  address is written in two ways. It is what `DistinctKeys` comes from: `KeyTellsTheRule`
  proves that under it `getRuleKey` is injective. The instances of TLC satisfy both. On a
  big-endian host `FilterMatchesRules` is false (section 5). `FilterTyped` needs neither.

### DeviceFlow

That a token is drawn afresh is in the model, `t \in Tokens \ Issued`: 32 random bytes.
None of the properties is inductive. `OneAdmissionPerCode` holds because a row a
request took is deleted (`TakenInv`) and a DELETE finds at most one row, since a
token belongs to one row (`TokenInv`). `HandedTokenStays` needs that the client's
token is that of its code (`ClientInv`) and that a row which has a token leaves the
table only by a join or after its lifetime (`ApprovalInv`). `AdmissionIsEarned`
needs that a request presents its client's token (`JoinInv`), and that the user a row with a
token names asked to approve it, which comes from the lookup of the same handler
(`ApprovalInv`). `ApprovedReplyTruthful` needs that whoever was told "Approved", or is about
to be, is the one the row names (`VerdictInv`). `IndInv` is their conjunction with the types; it is also an
invariant of the run `device_flow_two_codes`. The proof that a step keeps it has
one step per action. `RowsUntouched` carries the parts about rows across the
actions that do not write them. For `Implementation`, `GrantStutter` does the same:
a step that changes no status and takes no code is a stutter of `DeviceGrant`; the
other five actions are shown to be `Request`, `Decide`, `Redeem` or `Lapse`.
`DeadlineCoversLifetime` needs that a client's row has been written and that its lifetime
began in the past (`DeadlineInv`), as the client counts from a later time; no other step gives a
written row another lifetime (`RowsKept`).

### Overlay: rules

`RulesEnforced` speaks of the rules nobody works on. `RuleInv` says in addition what holds of a
rule outside `suspectRules` while a handler works on it: there is one such handler at most, and
table and map stand as its program counter says (`RuleProgress`; between `unmap` and `unlist`
of a DELETE, say, the row is there and the key is not). It also needs that ids are not
given away again while a handler may delete by one (`RuleRowInv`). A handler's step is shown to be
a `RuleStep`: each rule outside the suspects is left alone by it (`Elsewhere`), or is that
handler's own and keeps `RuleProgress` (`Here`). `RuleStepKeeps` makes `RuleKept` of that,
and `HandlerMovesLedger` makes of the same facts, with what became of the suspects, a step of
`RuleLedger` for each rule by itself, and hence of the whole ledger. `DistinctKeys` enters where a
key is taken from the map: it is that of no other rule.

### Overlay: peers

The invariant is `PeerInv`. Whatever speaks of a key outside `suspectKeys`, rows, requests and
answers, speaks of one row (`ClaimInv`), and no two rows share a name or an address. The
handler at work on such a key is the only one and has its row, and its address on the interface,
as far as its program counter says (`ProgressInv`). A stored key that does not parse is suspect
or in hand (`ValidInv`), and an interface that is gone has no peers (`LinkInv`). The part that
makes it inductive is `OverlapInv`: a row that came under the hands of a request for an
earlier holder of its name or address is suspect. Without it, `DELETE /peers`, which looks up by
name and deletes by name several steps later, could take a row that no one has in hand; with it
`RemovedRows` shows that what it takes outside `suspectKeys` is the row it looked up, which is
`DeletesWhatItLookedUp`. A key presented again becomes suspect in the step that inserts its
second row, so that `ClaimInv` asks nothing of it; a restart settles the keys that one row has.
`ClaimsFrom` and `KeyFacts` carry these facts from one state to the next, and there is one lemma
for each kind of step. No hypothesis is needed.

### XdpFilter

Three facts make `FilterMatchesRules`: the map holds the keys of the stored rules and no others
(`FilterKeys`, by `KeyTellsTheRule`); a packet has the key of a rule exactly when the rule names it
(`KeyOfPacket`, since the key of a rule is its bytes as on the wire, `KeyWritten`); and the
masked comparison of the program is membership of the subnet (`ForeignIsOutside`, byte by byte
in `MaskedByte`, one case for each byte a mask can have).

### ServerLifecycle, WebViews, IPAlloc

`IInv` adds to the properties what the steps between know: at which steps the key is that of the
file, or there is no file yet (`KeyInv`), where the goroutine that removes the interface stands
(`RemoverInv`), and that the interface carries the filter from its step on, or is gone
(`FilterInv`).

`ViewInv` says that unless the view has crossed its questions, a lookup in flight is of the peer of
the URL (`FindInv`) and what is on the page came of one (`DetailInv`); and that what is in flight
about a code is about the one at hand, and while the looked up code is another one the
view is loading and no decision is in flight (`CodeInv`). `CrossingTells` is what the observer
gives: a view outside `crossed` that asks has no other question in flight. `StepKinds`
splits a step into five kinds, and `AsksOnly` says what each puts in flight.

`Allocation` is proved from `AddressAssumption` (the address space is not empty, subnets are no
larger than it, `NoIP` is no number). The invariant is that every usable address below the
candidate is used, and that the candidate is between network + 2 and the broadcast address, or the
subnet has no usable address at all; `NoWrap` shows that the additions modulo `Top` do not wrap.

### Only model-checked

Liveness under fairness is out of the prover's reach: `RowsAreCleaned`, `ClientsTerminate`,
`Terminates`, `SignalEnds`, `SpinnersEnd`, `ReloadsEnd` and `LostSessionRedirects`. The
counterexamples of section 5 are found by TLC.

## 5. What the code does otherwise than said

Shown by a run:

* `handlers_device.go:236` replies "The device request has been denied." without
  looking at whether it was (`device_flow_denied`).
* `/join` configures the interface after its row is in, with no lock against
  `DELETE /peers`: a peer deleted in between is configured all the same and takes
  the address from the next holder (`overlay_stolen_address`).
* `DELETE /peers` keeps the rules that lead to the peer (`overlay_inbound_rules`),
  where `README.md:120` says all associated rules are removed.
* The service worker answers every navigation with the cached start page, also the reload
  or the `auth_redirect_url` by which a lost session is to reach the proxy's sign-in page
  (`web_sign_in`), where `api.js:39` says the user is bounced there. A cross-origin
  `auth_redirect_url` does get through.

Met while modelling, within what the safety properties exempt:

* Two stored rules can share one map key: ports are cut to 16 bits, protocols to 8
  (`service.go:128`), and `::ffff:a.b.c.d` is `a.b.c.d`, while the UNIQUE constraint compares
  the values as given. Deleting one of ports 80 and 65616 unloads the other.
  `FilterMatchesRules` is checked where keys are distinct.
* A process that ends between the creation of its first key file (`utils.go:121`) and the
  writing of the key leaves an empty one, and no later process starts (`StatKeyFile` is then
  followed by `Fatal` only), where `README.md:147` says the key is persisted.
* A rule with an IPv6 address is stored, not loaded, and answered with 500; `DELETE
  /rules/{id}` then answers 500 too, before the row is deleted, where the comment at
  `handlers_rules.go:108` says best effort.
* On a big-endian host no rule with an asymmetric address would match: `getRuleKey`
  reads the address as little-endian and the map takes it in host order (with
  `LittleEndianHost = FALSE`, `FilterMatchesRules` fails). The comment at
  `service.go:24` speaks of host byte order.
* The start brings the interface up with its peers before it attaches the XDP program,
  and a killed process leaves them up without it: until the next start reaches
  `firewall.New`, peers reach each other unfiltered. `ServedIsFiltered` therefore speaks of
  the time from the rules on.
* A stored peer whose configuration the kernel refuses at the start takes the interface with
  it, so that start ends in `firewall.New`. One whose key does not parse, or that
  meets no wgctrl client, is logged and skipped (`main.go:85`): the server then serves some of
  its peers, until the next start.
* A join that meets no wgctrl client (`utils.go:18`) answers 500 and leaves its row, listed
  and without a route; a restart puts it on the interface.
* `public_key` is not UNIQUE and `/join` asks only that it be there
  (`handlers_peers.go:167`): a key presented under two names gets two rows, two addresses and
  one peer of the interface, which has the address configured last. The first row is listed and
  not routed, and deleting either takes the key from the interface. Such keys are in
  `suspectKeys`.
* Two `DELETE`s of one name that overlap: both look the row up, the first removes it, a client
  joins under the name, and the second removes the row of that client, by name. The key
  it takes from the interface is the old one, so the new peer goes on with no row.
* A process that ends between the UPDATE of an approval (`handlers_device.go:224`) and its reply
  leaves an approved code nobody was told about; the user sees an error, and the device joins.
* A listener that cannot listen is logged, and the process waits for a signal.
* The allocation assumes that the server is network + 1, whatever `wg_interface_ip` says,
  and in a /31 or /32 at the very top of the address space its first candidate wraps
  around to an address outside the subnet. `SubnetOf` leaves those out.
* At the second `expires_at` itself, `/device/token` hands out the token
  (`ExpiresAt < now`) and `/join` refuses it (`expires_at > now`).
* The token is spent before the join does its work, so a join that then fails (no
  address, name taken, interface gone) cannot be retried with it.
* Requests for one rule that overlap: `POST /rules` inserts the row; `DELETE
  /rules/{id}` looks it up and removes the key, not there yet; `POST` puts the key
  into the map; `DELETE` deletes the row. The map passes traffic no row explains,
  until a restart.
* A key that `wgtypes.ParseKey` rejects gets a row and an address and then a 500; the
  peer is listed and `DELETE /peers` answers 500 to it before it touches the row.
* A peer named "peer-<ip>" by its user blocks the join that is assigned that address
  without a name of its own, until the address is no longer the lowest free one.
* In the web UI no late answer is dropped. Two peers opened one after the other: when the
  first lookup is answered last, its peer is shown under the URL of the second, and "Delete
  Peer" deletes it. Two codes looked up one after the other: the display shows `info` of the
  later answer and Approve posts `this.code`, another one. A decision that succeeds late, a
  deletion, or a lookup of a peer that fails late, takes the user from the page they are on
  by then to the start page (the deletion not if that is a peer page still loading:
  `this.peer.name` throws there, `peer-detail.js:412`, and an error is shown for a
  deletion that was done).
* A decision that is answered while the next code is being looked up resets `loading`, and
  the form is shown before the answer is there.
* When two requests meet 401 and the first has redirected before the second looks at the
  guard, the second throws and shows a toast over the page that is leaving, which
  `api.js:45-47` means to avoid.
* `{path}` of `auth_redirect_url` is replaced with the URI of the API request, such as
  `/peers`, not with that of the page: the user comes back to another page, or to JSON.
* `wgxdp join` polls without a timeout of its own (`cmd/wgxdp/main.go:206`): on a connection
  that neither answers nor breaks it waits beyond its deadline. `ClientsTerminate` assumes
  that every request is answered or fails.

## 6. Plan

Done: all modules of section 2, and a theorem for every safety invariant, action property and
refinement of the passing runs.

Next:

1. The safety part of the progress properties, as far as it needs no fairness: that a client past
   its deadline has no step but the one that ends it, and that `IPAlloc`'s candidate only
   grows.
2. `Overlay` without `DistinctKeys`: what holds of rules that share a key.

## 7. Not modelled

Configuration (read once), the table of routes (no state), what the listing endpoints
return (read only), the markup, toasts and asset cache of the web UI, the generated eBPF
loaders, the printed client
configuration, HTTP and JSON decoding (requests that do not parse change nothing).
Kernel, SQLite and clock are modelled from how the code uses them: a statement is atomic
and may fail; an allowed IP belongs to one peer; the clock does not run backwards; an
interface that exists can be deleted.
