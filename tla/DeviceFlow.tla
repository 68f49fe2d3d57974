---------------------------- MODULE DeviceFlow ----------------------------
(***************************************************************************)
(* The OAuth2 device authorization flow: the device_codes table, the       *)
(* handlers of /device/code, /device/token, /device/verify and the token   *)
(* check of /join, the ten-minute clean-up goroutine and the polling       *)
(* client of `wgxdp join`.                                                 *)
(*                                                                         *)
(* Every SQL statement is one atomic step (SQLite serializes statements);  *)
(* a handler that issues several, or that reads the clock before it        *)
(* issues one, is several steps, so that other requests, the clean-up, the *)
(* clock and a restart fall in between.  A statement may fail (database    *)
(* locked, disk full), which leaves the table as it was.  The table        *)
(* survives a restart, the requests in flight do not.                      *)
(***************************************************************************)
EXTENDS Integers, FiniteSets

CONSTANTS
    Clients,      \* runs of `wgxdp join`
    Admins,       \* users acting on /device/verify
    Codes,        \* the device_code/user_code pairs CreateDeviceCode can draw
    Tokens,       \* the access tokens ApproveDeviceCode can draw
    JoinReqs,     \* POST /join requests
    NoCode, NoToken, NoClient, Nobody,
    Expiry,       \* deviceCodeExpiry, in ticks
    Interval,     \* deviceCodePollInterval, in ticks
    MaxTime,      \* bound: the clock stops here
    MaxRestarts   \* bound: restarts of the server

ASSUME TimeAssumption ==
    /\ Expiry \in Nat \ {0}
    /\ Interval \in Nat \ {0}
    /\ MaxTime \in Nat
    /\ MaxRestarts \in Nat

ASSUME SentinelAssumption ==
    /\ NoCode \notin Codes
    /\ NoToken \notin Tokens
    /\ NoClient \notin Clients
    /\ Nobody \notin Admins

VARIABLES
    now,       \* Unix time, in ticks
    rows,      \* the device_codes table; a deleted row keeps its last contents
    client,    \* the client processes
    join,      \* the /join handlers, up to the token check and its outcome
    admin,     \* the POST /device/verify handlers
    asked,     \* the approvals asked for: user and code, past the checks
    verdicts,  \* what the verify handler has told the admins
    restarts

vars == <<now, rows, client, join, admin, asked, verdicts, restarts>>

Time == 0 .. MaxTime + Expiry + Interval

RowStatus == {"unused", "pending", "approved", "denied", "deleted"}
ClientPc  == {"idle", "requested", "loop", "sleep", "joining", "awaiting",
              "joined", "failed"}
JoinPc    == {"idle", "stamped", "consumed", "ended"}
Actions   == {"approve", "deny"}

Row    == [status : RowStatus, token : Tokens \cup {NoToken},
           by : Admins \cup {Nobody}, expires : Time]
Client == [pc : ClientPc, code : Codes \cup {NoCode},
           token : Tokens \cup {NoToken}, wake : Time, deadline : Time]
\* "own": sent by the client itself and awaited by it; otherwise a repeat.
\* "took": the code whose row this request consumed.
Join   == [pc : JoinPc, client : Clients \cup {NoClient}, own : BOOLEAN,
           token : Tokens \cup {NoToken}, stamp : Time,
           took : Codes \cup {NoCode}]
\* "replying": the statement is behind it, the reply is not written yet.
Admin  == [pc : {"idle", "deciding", "replying"}, code : Codes \cup {NoCode},
           action : Actions]
Verdict == [by : Admins, code : Codes, reply : {"Approved", "Denied"}]

IdleAdmin == [pc |-> "idle", code |-> NoCode, action |-> "deny"]

Live(d) == rows[d].status \in {"pending", "approved", "denied"}

Issued == {rows[d].token : d \in Codes} \ {NoToken}

-----------------------------------------------------------------------------
Init ==
    /\ now = 0
    /\ rows = [d \in Codes |-> [status |-> "unused", token |-> NoToken,
                                by |-> Nobody, expires |-> 0]]
    /\ client = [c \in Clients |-> [pc |-> "idle", code |-> NoCode,
                                    token |-> NoToken, wake |-> 0,
                                    deadline |-> 0]]
    /\ join = [j \in JoinReqs |-> [pc |-> "idle", client |-> NoClient,
                                   own |-> FALSE, token |-> NoToken,
                                   stamp |-> 0, took |-> NoCode]]
    /\ admin = [a \in Admins |-> IdleAdmin]
    /\ asked = {}
    /\ verdicts = {}
    /\ restarts = 0

-----------------------------------------------------------------------------
(* The client asks for a code and polls for its token.                     *)

\* POST /device/code: the clock is read before the INSERT, which may have
\* waited since then; the row is in the table before the reply arrives.
CreateDeviceCode(c, d, stamp) ==
    /\ client[c].pc = "idle"
    /\ rows[d].status = "unused"
    /\ stamp <= now
    /\ rows' = [rows EXCEPT ![d].status = "pending",
                            ![d].expires = stamp + Expiry]
    /\ client' = [client EXCEPT ![c].pc = "requested", ![c].code = d]
    /\ UNCHANGED <<now, join, admin, asked, verdicts, restarts>>

\* The client counts its own deadline from the moment the reply arrives.
ReceiveDeviceCodeShort(c) ==
    /\ client[c].pc = "requested"
    /\ client' = [client EXCEPT ![c].pc = "loop",
                                ![c].deadline = now + Expiry - Interval]
    /\ UNCHANGED <<now, rows, join, admin, asked, verdicts, restarts>>

ReceiveDeviceCode(c) ==
    /\ client[c].pc = "requested"
    /\ client' = [client EXCEPT ![c].pc = "loop",
                                ![c].deadline = now + Expiry]
    /\ UNCHANGED <<now, rows, join, admin, asked, verdicts, restarts>>

\* for time.Now().Before(deadline) { time.Sleep(interval) ...
PollLoop(c) ==
    /\ client[c].pc = "loop"
    /\ client' = IF now < client[c].deadline
                 THEN [client EXCEPT ![c].pc = "sleep",
                                     ![c].wake = now + Interval]
                 ELSE [client EXCEPT ![c].pc = "failed"]
    /\ UNCHANGED <<now, rows, join, admin, asked, verdicts, restarts>>

\* The handler's test for a code it reports as expired_token.
ReportedExpired(d) == ~ Live(d) \/ rows[d].expires < now

\* One poll: the handler reads the row and the clock and answers, and the
\* client acts on the answer.  A late answer is the client acting late.
DeviceTokenHandler(c) ==
    LET d == client[c].code IN
    /\ client[c].pc = "sleep"
    /\ now >= client[c].wake
    /\ \/ /\ ReportedExpired(d)
          /\ client' = [client EXCEPT ![c].pc = "failed"]
       \/ /\ ~ ReportedExpired(d)
          /\ rows[d].status = "pending"
          /\ client' = [client EXCEPT ![c].pc = "loop"]
       \/ /\ ~ ReportedExpired(d)
          /\ rows[d].status = "denied"
          /\ client' = [client EXCEPT ![c].pc = "failed"]
       \/ /\ ~ ReportedExpired(d)
          /\ rows[d].status = "approved"
          /\ client' = [client EXCEPT ![c].pc = "joining",
                                      ![c].token = rows[d].token]
    /\ UNCHANGED <<now, rows, join, admin, asked, verdicts, restarts>>

\* The user stops the client, a request or its answer is lost, or the answer
\* is an error: runJoin returns and never retries.  The handler it waited for
\* goes on.
ClientGivesUp(c) ==
    /\ client[c].pc \in {"requested", "loop", "sleep", "joining", "awaiting"}
    /\ client' = [client EXCEPT ![c].pc = "failed"]
    /\ UNCHANGED <<now, rows, join, admin, asked, verdicts, restarts>>

-----------------------------------------------------------------------------
(* POST /join, up to the token check and its outcome.                      *)

\* The request reaches the server: ConsumeAccessToken reads the clock for
\* its DELETE, which may then wait for the database.
StampedWithDeviceCode(j, c, own) ==
    [join EXCEPT ![j] = [pc |-> "stamped", client |-> c, own |-> own,
                         token |-> client[c].code, stamp |-> now,
                         took |-> NoCode]]

Stamped(j, c, own) ==
    [join EXCEPT ![j] = [pc |-> "stamped", client |-> c, own |-> own,
                         token |-> client[c].token, stamp |-> now,
                         took |-> NoCode]]

JoinHandler(j, c) ==
    /\ join[j].pc = "idle"
    /\ client[c].pc = "joining"
    /\ join' = Stamped(j, c, TRUE)
    /\ client' = [client EXCEPT ![c].pc = "awaiting"]
    /\ UNCHANGED <<now, rows, admin, asked, verdicts, restarts>>

Unsent == {c \in Clients : client[c].pc \in {"idle", "requested", "loop",
                                              "sleep", "joining"}}

\* The same request once more: a token that was handed out is presented again.
\* Bound: every client that may still send its own keeps a request for that.
RepeatedJoin(j, c) ==
    /\ join[j].pc = "idle"
    /\ client[c].token # NoToken
    /\ client[c].pc \in {"awaiting", "joined", "failed"}
    /\ Cardinality({i \in JoinReqs : join[i].pc = "idle"}) > Cardinality(Unsent)
    /\ join' = Stamped(j, c, FALSE)
    /\ UNCHANGED <<now, rows, client, admin, asked, verdicts, restarts>>

\* What the client of request j does on the answer, if it still waits for it.
Answer(j, pc) ==
    client' = IF join[j].own /\ client[join[j].client].pc = "awaiting"
              THEN [client EXCEPT ![join[j].client].pc = pc]
              ELSE client

\* WHERE access_token = ? AND status = 'approved' AND expires_at > ?
ConsumableEver(d, token, stamp) ==
    /\ rows[d].status = "approved"
    /\ rows[d].token = token

Consumable(d, token, stamp) ==
    /\ rows[d].status = "approved"
    /\ rows[d].token = token
    /\ rows[d].expires > stamp

\* What a successful DELETE does to the row.
SpendNothing(d) == UNCHANGED rows

Spend(d) == rows' = [rows EXCEPT ![d].status = "deleted"]

\* The DELETE; 401 when it deletes nothing, 500 when it fails.
ConsumeAccessToken(j) ==
    LET hit == {d \in Codes : Consumable(d, join[j].token, join[j].stamp)} IN
    /\ join[j].pc = "stamped"
    /\ \/ \E d \in hit :
             /\ Spend(d)
             /\ join' = [join EXCEPT ![j].pc = "consumed", ![j].took = d]
             /\ UNCHANGED client
       \/ /\ join' = [join EXCEPT ![j].pc = "ended"]
          /\ Answer(j, "failed")
          /\ UNCHANGED rows
    /\ UNCHANGED <<now, admin, asked, verdicts, restarts>>

\* The rest of JoinHandler (module Overlay): 200, or 500 with the token spent.
FinishJoin(j) ==
    /\ join[j].pc = "consumed"
    /\ join' = [join EXCEPT ![j].pc = "ended"]
    /\ Answer(j, "joined") \/ Answer(j, "failed")
    /\ UNCHANGED <<now, rows, admin, asked, verdicts, restarts>>

-----------------------------------------------------------------------------
(* POST /device/verify.                                                    *)

\* The handler reads the row and checks it: 404 and 409 change nothing.
VerifyLookup(a, d, action) ==
    /\ admin[a].pc = "idle"
    /\ rows[d].status = "pending"
    /\ rows[d].expires >= now
    /\ admin' = [admin EXCEPT ![a] = [pc |-> "deciding", code |-> d,
                                      action |-> action]]
    /\ asked' = IF action = "approve" THEN asked \cup {<<a, d>>} ELSE asked
    /\ UNCHANGED <<now, rows, client, join, verdicts, restarts>>

\* WHERE user_code = ? AND status = 'pending', in both UPDATEs.
DenyMatchesDecided(d) == Live(d)

ApproveMatches(d) == rows[d].status = "pending"
DenyMatches(d)    == rows[d].status = "pending"

StatementDone(a) == admin' = [admin EXCEPT ![a].pc = "replying"]

\* The UPDATE; 500 when no row matches any more, or the statement fails.
ApproveDeviceCode(a) ==
    LET d == admin[a].code IN
    /\ admin[a].pc = "deciding"
    /\ admin[a].action = "approve"
    /\ \/ /\ ApproveMatches(d)
          /\ \E t \in Tokens \ Issued :
                rows' = [rows EXCEPT ![d].status = "approved",
                                     ![d].token = t, ![d].by = a]
          /\ StatementDone(a)
       \/ /\ admin' = [admin EXCEPT ![a] = IdleAdmin]
          /\ UNCHANGED rows
    /\ UNCHANGED <<now, client, join, asked, verdicts, restarts>>

\* The UPDATE, after which neither a missing row nor an error is looked at.
DenyDeviceCode(a) ==
    LET d == admin[a].code IN
    /\ admin[a].pc = "deciding"
    /\ admin[a].action = "deny"
    /\ \/ /\ DenyMatches(d)
          /\ rows' = [rows EXCEPT ![d].status = "denied", ![d].by = a]
       \/ UNCHANGED rows
    /\ StatementDone(a)
    /\ UNCHANGED <<now, client, join, asked, verdicts, restarts>>

ReplyTo(action) == IF action = "approve" THEN "Approved" ELSE "Denied"

\* The reply, a step of its own: the process may end before it.
VerifyReply(a) ==
    /\ admin[a].pc = "replying"
    /\ verdicts' = verdicts \cup
           {[by |-> a, code |-> admin[a].code, reply |-> ReplyTo(admin[a].action)]}
    /\ admin' = [admin EXCEPT ![a] = IdleAdmin]
    /\ UNCHANGED <<now, rows, client, join, asked, restarts>>

-----------------------------------------------------------------------------
(* The clean-up goroutine, restarts, and the clock.                        *)

\* WHERE expires_at < ?
LapsedUndecided(d, stamp) ==
    rows[d].status = "pending" /\ rows[d].expires < stamp

Lapsed(d, stamp) == Live(d) /\ rows[d].expires < stamp

\* The clock is read before the DELETE, which may have waited since then.
CleanExpiredDeviceCodes(stamp) ==
    /\ stamp <= now
    /\ \E d \in Codes : Lapsed(d, stamp)
    /\ rows' = [d \in Codes |-> IF Lapsed(d, stamp)
                                THEN [rows[d] EXCEPT !.status = "deleted"]
                                ELSE rows[d]]
    /\ UNCHANGED <<now, client, join, admin, asked, verdicts, restarts>>

\* The process ends and is started again: every request in flight is cut off
\* and its client sees the connection fail; the database stays.
RestartUnnoticed ==
    /\ restarts < MaxRestarts
    /\ restarts' = restarts + 1
    /\ admin' = [a \in Admins |-> IdleAdmin]
    /\ join' = [j \in JoinReqs |->
                   IF join[j].pc \in {"stamped", "consumed"}
                   THEN [join[j] EXCEPT !.pc = "ended"]
                   ELSE join[j]]
    /\ UNCHANGED <<now, rows, client, asked, verdicts>>

Restart ==
    /\ restarts < MaxRestarts
    /\ restarts' = restarts + 1
    /\ admin' = [a \in Admins |-> IdleAdmin]
    /\ join' = [j \in JoinReqs |->
                   IF join[j].pc \in {"stamped", "consumed"}
                   THEN [join[j] EXCEPT !.pc = "ended"]
                   ELSE join[j]]
    /\ client' = [c \in Clients |->
                     IF client[c].pc \in {"requested", "awaiting"}
                     THEN [client[c] EXCEPT !.pc = "failed"]
                     ELSE client[c]]
    /\ UNCHANGED <<now, rows, asked, verdicts>>

Tick ==
    /\ now < MaxTime
    /\ now' = now + 1
    /\ UNCHANGED <<rows, client, join, admin, asked, verdicts, restarts>>

-----------------------------------------------------------------------------
ClientStep(c) ==
    \/ ReceiveDeviceCode(c)
    \/ PollLoop(c)
    \/ DeviceTokenHandler(c)
    \/ \E j \in JoinReqs : JoinHandler(j, c)

JoinStep(j) == ConsumeAccessToken(j) \/ FinishJoin(j)

VerifyStep(a) == ApproveDeviceCode(a) \/ DenyDeviceCode(a) \/ VerifyReply(a)

Next ==
    \/ \E c \in Clients, d \in Codes, stamp \in 0 .. MaxTime :
          CreateDeviceCode(c, d, stamp)
    \/ \E c \in Clients : ClientStep(c) \/ ClientGivesUp(c)
    \/ \E j \in JoinReqs, c \in Clients : RepeatedJoin(j, c)
    \/ \E j \in JoinReqs : JoinStep(j)
    \/ \E a \in Admins, d \in Codes, action \in Actions :
          VerifyLookup(a, d, action)
    \/ \E a \in Admins : VerifyStep(a)
    \/ \E stamp \in 0 .. MaxTime : CleanExpiredDeviceCodes(stamp)
    \/ Restart
    \/ Tick

Spec == Init /\ [][Next]_vars

\* The clock advances, the client process and the handlers run on, and the
\* ticker of the clean-up fires; users, repeats, failures and restarts are
\* under no obligation.
Fairness ==
    /\ WF_vars(Tick)
    /\ \A c \in Clients : WF_vars(ClientStep(c))
    /\ \A j \in JoinReqs : WF_vars(JoinStep(j))
    /\ \A a \in Admins : WF_vars(VerifyStep(a))
    /\ WF_vars(CleanExpiredDeviceCodes(now))

FairSpec == Spec /\ Fairness

-----------------------------------------------------------------------------
TypeOK ==
    /\ now \in 0 .. MaxTime
    /\ rows \in [Codes -> Row]
    /\ client \in [Clients -> Client]
    /\ join \in [JoinReqs -> Join]
    /\ admin \in [Admins -> Admin]
    /\ asked \subseteq Admins \X Codes
    /\ verdicts \subseteq Verdict
    /\ restarts \in 0 .. MaxRestarts

Taken(d) == \E j \in JoinReqs : join[j].took = d

\* A token that DeviceTokenHandler handed to a client stays good: until the
\* code's lifetime is over, the row still carries that token and is approved,
\* unless a join request has used it up.  No late approve or deny by another
\* user, and no clean-up, takes it away.
HandedTokenStays ==
    \A c \in Clients :
        LET d == client[c].code IN
        (client[c].token # NoToken /\ now <= rows[d].expires) =>
            /\ rows[d].token = client[c].token
            /\ rows[d].status = "approved" \/ Taken(d)

\* ConsumeAccessToken admits at most one join request per device code, also
\* when the same request arrives several times and a restart cuts one off.
OneAdmissionPerCode ==
    \A i, j \in JoinReqs :
        (join[i].took = join[j].took /\ join[i].took # NoCode) => i = j

\* A join request that passed the token check came from the client that asked
\* for the code, while the code's lifetime still ran, and the row names a user
\* whose request to approve that very code passed the handler's checks; a user
\* who only denied it, or decided another code, is never the one it names.
\* (That user need not have been told: the process may end before the reply.)
AdmissionIsEarned ==
    \A j \in JoinReqs :
        LET d == join[j].took IN
        d # NoCode =>
            /\ client[join[j].client].code = d
            /\ join[j].stamp < rows[d].expires
            /\ <<rows[d].by, d>> \in asked

\* The verify handler tells at most one user "Approved" for a code, however
\* many decide it at once, and what it tells is so: the row records that user
\* and stays approved until it is used up or its lifetime is over.
ApprovedReplyTruthful ==
    \A v \in verdicts : v.reply = "Approved" =>
        /\ rows[v.code].by = v.by
        /\ \/ rows[v.code].status = "approved"
           \/ Taken(v.code)
           \/ rows[v.code].expires < now

\* The reply "Denied" of the verify handler, taken at its word: no client
\* gets into the network on a code that a user was told is denied.
DeniedMeansDenied ==
    \A v \in verdicts : v.reply = "Denied" => ~ Taken(v.code)

\* The client counts its deadline from the server's reply, so it gives up on
\* its own account only when the code is no longer good.
DeadlineCoversLifetime ==
    \A c \in Clients :
        client[c].pc \in {"loop", "sleep"} =>
            rows[client[c].code].expires <= client[c].deadline

\* Every row of the table leaves it: by a join or by the clean-up.
RowsAreCleaned ==
    \A d \in Codes :
        (Live(d) /\ rows[d].expires < MaxTime) ~> ~ Live(d)

\* A client that polls comes to an end, whatever is decided or restarted.
\* Bound: its deadline is within the clock's.
ClientsTerminate ==
    \A c \in Clients :
        (client[c].pc = "loop" /\ client[c].deadline + Interval <= MaxTime)
            ~> client[c].pc \in {"joined", "failed"}

-----------------------------------------------------------------------------
(* The inductive invariant behind the safety properties.                   *)

\* Whoever acts on a code has one.
CodeInv ==
    /\ \A c \in Clients : client[c].pc # "idle" <=> client[c].code # NoCode
    /\ \A a \in Admins : admin[a].pc # "idle" => admin[a].code # NoCode

Typed == TypeOK /\ CodeInv

\* A join request takes a code once, and the code's row is gone from then on.
TakenInv ==
    \A j \in JoinReqs :
        /\ join[j].pc \in {"idle", "stamped"} => join[j].took = NoCode
        /\ join[j].took # NoCode => rows[join[j].took].status = "deleted"

\* A row has a token from its approval on, and no other row has the same.
TokenInv ==
    /\ \A d \in Codes : rows[d].status \in {"unused", "pending", "denied"} =>
           rows[d].token = NoToken
    /\ \A d \in Codes : rows[d].status = "approved" => rows[d].token # NoToken
    /\ \A d, e \in Codes :
           (rows[d].token = rows[e].token /\ rows[d].token # NoToken) => d = e

\* A user whose approval is at its UPDATE asked for it, so whoever a row with a
\* token names did; that row left the table by a join request, or by the
\* clean-up after its lifetime.
ApprovalInv ==
    /\ \A a \in Admins :
           (admin[a].pc = "deciding" /\ admin[a].action = "approve") =>
               <<a, admin[a].code>> \in asked
    /\ \A d \in Codes : rows[d].token # NoToken =>
           /\ <<rows[d].by, d>> \in asked
           /\ \/ rows[d].status = "approved"
              \/ Taken(d)
              \/ rows[d].expires < now

\* The row a user is told, or about to be told, "Approved" for names that user.
VerdictInv ==
    /\ \A v \in verdicts : v.reply = "Approved" =>
           /\ rows[v.code].token # NoToken
           /\ rows[v.code].by = v.by
    /\ \A a \in Admins :
           (admin[a].pc = "replying" /\ admin[a].action = "approve") =>
               /\ rows[admin[a].code].token # NoToken
               /\ rows[admin[a].code].by = a

\* A client's token is that of the code it asked for.
ClientInv ==
    \A c \in Clients :
        /\ client[c].pc \in {"idle", "requested", "loop", "sleep"} =>
               client[c].token = NoToken
        /\ client[c].pc \in {"joining", "awaiting", "joined"} =>
               client[c].token # NoToken
        /\ client[c].token # NoToken =>
               /\ client[c].code \in Codes
               /\ rows[client[c].code].token = client[c].token

\* A join request presents the token of its client.
JoinInv ==
    \A j \in JoinReqs :
        /\ join[j].pc # "idle" =>
               /\ join[j].client \in Clients
               /\ join[j].token = client[join[j].client].token
               /\ join[j].token # NoToken
        /\ join[j].took # NoCode =>
               /\ rows[join[j].took].token = join[j].token
               /\ join[j].stamp < rows[join[j].took].expires

IndInv ==
    /\ Typed
    /\ TakenInv
    /\ OneAdmissionPerCode
    /\ TokenInv
    /\ ApprovalInv
    /\ VerdictInv
    /\ ClientInv
    /\ JoinInv

-----------------------------------------------------------------------------
(* The abstract grant: a row's status, and the request that took it.       *)

grantStatus ==
    [d \in Codes |->
        IF rows[d].status = "unused" THEN "none"
        ELSE IF rows[d].status # "deleted" THEN rows[d].status
        ELSE IF Taken(d) THEN "redeemed"
        ELSE "lapsed"]

grantRedeemedBy == [d \in Codes |-> {j \in JoinReqs : join[j].took = d}]

Grant == INSTANCE DeviceGrant
            WITH status <- grantStatus, redeemedBy <- grantRedeemedBy

\* The tables and handlers implement the grant: decided at most once, and an
\* approval is redeemed by at most one join request.
ImplementsGrant == Grant!Spec
=============================================================================
