-------------------------- MODULE DeviceFlowProofs --------------------------
(* Proofs about DeviceFlow, for any number of clients, users and codes. *)
EXTENDS DeviceFlow, TLAPS

-----------------------------------------------------------------------------
(* Typing. *)

LEMMA InitTyped == Init => Typed
BY TimeAssumption DEF Init, Typed, TypeOK, CodeInv, Row, Client, Join, Admin, RowStatus,
       ClientPc, JoinPc, Actions, IdleAdmin, Verdict, Time

\* The times a step writes are within the bounds of the clock.
LEMMA Times == ASSUME TypeOK
               PROVE  now \in Time /\ now + Expiry \in Time /\ now + Interval \in Time
BY TimeAssumption DEF TypeOK, Time

LEMMA NextTyped == Typed /\ [Next]_vars => Typed'
<1>s. SUFFICES ASSUME Typed, [Next]_vars PROVE Typed'
  OBVIOUS
<1>a. TypeOK
  BY <1>s DEF Typed
<1>b. CodeInv
  BY <1>s DEF Typed
<1>0. now \in Time /\ now + Expiry \in Time /\ now + Interval \in Time
  BY <1>a, Times
<1>1. ASSUME NEW c \in Clients, NEW d \in Codes, NEW stamp \in 0 .. MaxTime,
             CreateDeviceCode(c, d, stamp)
      PROVE  Typed'
  <2>1. rows' \in [Codes -> Row]
    <3> DEFINE new == [rows[d] EXCEPT !.status = "pending", !.expires = stamp + Expiry]
    <3>1. rows' = [rows EXCEPT ![d] = new]
      BY <1>1 DEF CreateDeviceCode
    <3>2. stamp + Expiry \in Time
      BY TimeAssumption DEF Time
    <3>3. new \in Row
      BY <1>a, <3>2 DEF TypeOK, Row, RowStatus
    <3> QED
      BY <1>a, <3>1, <3>3 DEF TypeOK
  <2>2. client' \in [Clients -> Client]
    <3> DEFINE new == [client[c] EXCEPT !.pc = "requested", !.code = d]
    <3>1. client' = [client EXCEPT ![c] = new]
      BY <1>1 DEF CreateDeviceCode
    <3>2. new \in Client
      BY <1>a DEF TypeOK, Client, ClientPc
    <3> QED
      BY <1>a, <3>1, <3>2 DEF TypeOK
  <2>3. CodeInv'
    BY <1>a, <1>b, <1>1, SentinelAssumption DEF CreateDeviceCode, TypeOK, CodeInv, Client, Admin
  <2> QED
    BY <1>a, <1>1, <2>1, <2>2, <2>3 DEF CreateDeviceCode, TypeOK, Typed
<1>2. ASSUME NEW c \in Clients, ReceiveDeviceCode(c) PROVE Typed'
  <2>1. client' \in [Clients -> Client]
    <3> DEFINE new == [client[c] EXCEPT !.pc = "loop", !.deadline = now + Expiry]
    <3>1. client' = [client EXCEPT ![c] = new]
      BY <1>2 DEF ReceiveDeviceCode
    <3>2. new \in Client
      BY <1>a, <1>0 DEF TypeOK, Client, ClientPc
    <3> QED
      BY <1>a, <3>1, <3>2 DEF TypeOK
  <2>2. CodeInv'
    BY <1>a, <1>b, <1>2 DEF ReceiveDeviceCode, TypeOK, CodeInv, Client, Admin
  <2> QED
    BY <1>a, <1>2, <2>1, <2>2 DEF ReceiveDeviceCode, TypeOK, Typed
<1>3. ASSUME NEW c \in Clients, PollLoop(c) PROVE Typed'
  <2>1. client' \in [Clients -> Client]
    <3>1. CASE now < client[c].deadline
      <4> DEFINE new == [client[c] EXCEPT !.pc = "sleep", !.wake = now + Interval]
      <4>1. client' = [client EXCEPT ![c] = new]
        BY <1>3, <3>1 DEF PollLoop
      <4>2. new \in Client
        BY <1>a, <1>0 DEF TypeOK, Client, ClientPc
      <4> QED
        BY <1>a, <4>1, <4>2 DEF TypeOK
    <3>2. CASE ~ (now < client[c].deadline)
      BY <1>a, <1>3, <3>2 DEF PollLoop, TypeOK, Client, ClientPc
    <3> QED
      BY <3>1, <3>2
  <2>2. CodeInv'
    BY <1>a, <1>b, <1>3 DEF PollLoop, TypeOK, CodeInv, Client, Admin
  <2> QED
    BY <1>a, <1>3, <2>1, <2>2 DEF PollLoop, TypeOK, Typed
<1>4. ASSUME NEW c \in Clients, DeviceTokenHandler(c) PROVE Typed'
  <2>1. client' \in [Clients -> Client]
    <3>1. client[c].pc = "sleep" => client[c].code \in Codes
      BY <1>a, <1>b DEF TypeOK, CodeInv, Client
    <3>2. client[c].code \in Codes =>
             rows[client[c].code].token \in Tokens \cup {NoToken}
      BY <1>a DEF TypeOK, Row
    <3>3. \/ client' = [client EXCEPT ![c].pc = "failed"]
          \/ client' = [client EXCEPT ![c].pc = "loop"]
          \/ client' = [client EXCEPT ![c].pc = "joining",
                                      ![c].token = rows[client[c].code].token]
      BY <1>4 DEF DeviceTokenHandler
    <3>4. rows[client[c].code].token \in Tokens \cup {NoToken}
      BY <1>4, <3>1, <3>2 DEF DeviceTokenHandler
    <3> QED
      BY <1>a, <3>3, <3>4 DEF TypeOK, Client, ClientPc
  <2>2. CodeInv'
    BY <1>a, <1>b, <1>4 DEF DeviceTokenHandler, TypeOK, CodeInv, Client, Admin
  <2> QED
    BY <1>a, <1>4, <2>1, <2>2 DEF DeviceTokenHandler, TypeOK, Typed
<1>5. ASSUME NEW c \in Clients, NEW j \in JoinReqs, JoinHandler(j, c) PROVE Typed'
  <2>1. join' \in [JoinReqs -> Join]
    <3>1. now \in Time /\ client[c].token \in Tokens \cup {NoToken}
      BY <1>a, <1>0 DEF TypeOK, Client
    <3> QED
      BY <1>a, <3>1, <1>5 DEF JoinHandler, Stamped, TypeOK, Join, JoinPc
  <2>2. client' \in [Clients -> Client]
    BY <1>a, <1>5 DEF JoinHandler, TypeOK, Client, ClientPc
  <2>3. CodeInv'
    BY <1>a, <1>b, <1>5 DEF JoinHandler, Stamped, TypeOK, CodeInv, Client, Admin
  <2> QED
    BY <1>a, <1>5, <2>1, <2>2, <2>3 DEF JoinHandler, TypeOK, Typed
<1>6. ASSUME NEW c \in Clients, ClientGivesUp(c) PROVE Typed'
  <2>1. client' \in [Clients -> Client]
    BY <1>a, <1>6 DEF ClientGivesUp, TypeOK, Client, ClientPc
  <2>2. CodeInv'
    BY <1>a, <1>b, <1>6 DEF ClientGivesUp, TypeOK, CodeInv, Client, Admin
  <2> QED
    BY <1>a, <1>6, <2>1, <2>2 DEF ClientGivesUp, TypeOK, Typed
<1>7. ASSUME NEW c \in Clients, NEW j \in JoinReqs, RepeatedJoin(j, c) PROVE Typed'
  <2>1. join' \in [JoinReqs -> Join]
    <3>1. now \in Time /\ client[c].token \in Tokens \cup {NoToken}
      BY <1>a, <1>0 DEF TypeOK, Client
    <3> QED
      BY <1>a, <3>1, <1>7 DEF RepeatedJoin, Stamped, TypeOK, Join, JoinPc
  <2>2. CodeInv'
    BY <1>a, <1>b, <1>7 DEF RepeatedJoin, Stamped, TypeOK, CodeInv, Client, Admin
  <2> QED
    BY <1>a, <1>7, <2>1, <2>2 DEF RepeatedJoin, TypeOK, Typed
<1>8. ASSUME NEW j \in JoinReqs, ConsumeAccessToken(j) PROVE Typed'
  <2>1. rows' \in [Codes -> Row]
    BY <1>a, <1>8 DEF ConsumeAccessToken, Spend, TypeOK, Row, RowStatus
  <2>2. join' \in [JoinReqs -> Join]
    BY <1>a, <1>8 DEF ConsumeAccessToken, TypeOK, Join, JoinPc
  <2>3. client' \in [Clients -> Client]
    <3>1. UNCHANGED client \/ Answer(j, "failed")
      BY <1>8 DEF ConsumeAccessToken
    <3> QED
      BY <1>a, <3>1 DEF Answer, TypeOK, Client, ClientPc
  <2>4. CodeInv'
    BY <1>a, <1>b, <1>8 DEF ConsumeAccessToken, Spend, Answer, TypeOK, CodeInv, Client, Admin
  <2> QED
    BY <1>a, <1>8, <2>1, <2>2, <2>3, <2>4 DEF ConsumeAccessToken, TypeOK, Typed
<1>9. ASSUME NEW j \in JoinReqs, FinishJoin(j) PROVE Typed'
  <2>1. join' \in [JoinReqs -> Join]
    BY <1>a, <1>9 DEF FinishJoin, TypeOK, Join, JoinPc
  <2>2. client' \in [Clients -> Client]
    <3>1. Answer(j, "joined") \/ Answer(j, "failed")
      BY <1>9 DEF FinishJoin
    <3> QED
      BY <1>a, <3>1 DEF Answer, TypeOK, Client, ClientPc
  <2>3. CodeInv'
    BY <1>a, <1>b, <1>9 DEF FinishJoin, Answer, TypeOK, CodeInv, Client, Admin
  <2> QED
    BY <1>a, <1>9, <2>1, <2>2, <2>3 DEF FinishJoin, TypeOK, Typed
<1>10. ASSUME NEW a \in Admins, NEW d \in Codes, NEW action \in Actions, VerifyLookup(a, d, action) PROVE Typed'
  <2>1. admin' \in [Admins -> Admin]
    BY <1>a, <1>10 DEF VerifyLookup, TypeOK, Admin, Actions
  <2>2. CodeInv'
    BY <1>a, <1>b, <1>10, SentinelAssumption DEF VerifyLookup, TypeOK, CodeInv, Client, Admin
  <2> QED
    BY <1>a, <1>10, <2>1, <2>2 DEF VerifyLookup, TypeOK, Typed
<1>11. ASSUME NEW a \in Admins, ApproveDeviceCode(a) PROVE Typed'
  <2>1. \/ admin' = [admin EXCEPT ![a] = IdleAdmin]
        \/ admin' = [admin EXCEPT ![a].pc = "replying"]
    BY <1>11 DEF ApproveDeviceCode, StatementDone
  <2>2. admin' \in [Admins -> Admin]
    BY <1>a, <2>1 DEF IdleAdmin, TypeOK, Admin, Actions
  <2>3. admin[a].code \in Codes
    BY <1>a, <1>b, <1>11 DEF ApproveDeviceCode, TypeOK, CodeInv, Admin
  <2>4. \/ UNCHANGED rows
        \/ \E t \in Tokens :
              rows' = [rows EXCEPT ![admin[a].code].status = "approved",
                                   ![admin[a].code].token = t,
                                   ![admin[a].code].by = a]
    BY <1>11 DEF ApproveDeviceCode
  <2>5. rows' \in [Codes -> Row]
    <3>1. CASE UNCHANGED rows
      BY <1>a, <3>1 DEF TypeOK
    <3>2. ASSUME NEW t \in Tokens,
                 rows' = [rows EXCEPT ![admin[a].code].status = "approved",
                                      ![admin[a].code].token = t,
                                      ![admin[a].code].by = a]
          PROVE  rows' \in [Codes -> Row]
      BY <1>a, <2>3, <3>2 DEF TypeOK, Row, RowStatus
    <3> QED
      BY <2>4, <3>1, <3>2
  <2>6. CodeInv'
    <3>1. UNCHANGED client /\ admin[a].pc = "deciding"
      BY <1>11 DEF ApproveDeviceCode
    <3>2. \A b \in Admins : /\ admin'[b].pc # "idle" => admin[b].pc # "idle"
                            /\ admin'[b].code = admin[b].code \/ admin'[b].pc = "idle"
      BY <1>a, <2>1, <3>1 DEF IdleAdmin, TypeOK, Admin
    <3> QED
      BY <1>b, <3>1, <3>2 DEF CodeInv
  <2> QED
    BY <1>a, <1>11, <2>2, <2>5, <2>6 DEF ApproveDeviceCode, TypeOK, Typed
<1>12. ASSUME NEW a \in Admins, DenyDeviceCode(a) PROVE Typed'
  <2>1. rows' \in [Codes -> Row]
    BY <1>a, <1>12 DEF DenyDeviceCode, TypeOK, Row, RowStatus
  <2>2. admin' \in [Admins -> Admin]
    BY <1>a, <1>12 DEF DenyDeviceCode, StatementDone, TypeOK, Admin, Actions
  <2>3. CodeInv'
    BY <1>a, <1>b, <1>12 DEF DenyDeviceCode, StatementDone, TypeOK, CodeInv, Client, Admin
  <2> QED
    BY <1>a, <1>12, <2>1, <2>2, <2>3 DEF DenyDeviceCode, TypeOK, Typed
<1>17. ASSUME NEW a \in Admins, VerifyReply(a) PROVE Typed'
  <2>1. admin' \in [Admins -> Admin]
    BY <1>a, <1>17 DEF VerifyReply, IdleAdmin, TypeOK, Admin, Actions
  <2>2. verdicts' \subseteq Verdict
    <3>1. admin[a].code \in Codes
      BY <1>a, <1>b, <1>17 DEF VerifyReply, TypeOK, CodeInv, Admin
    <3>2. ReplyTo(admin[a].action) \in {"Approved", "Denied"}
      BY DEF ReplyTo
    <3> QED
      BY <1>a, <1>17, <3>1, <3>2 DEF VerifyReply, TypeOK, Verdict
  <2>3. CodeInv'
    BY <1>a, <1>b, <1>17 DEF VerifyReply, IdleAdmin, TypeOK, CodeInv, Admin
  <2> QED
    BY <1>a, <1>17, <2>1, <2>2, <2>3 DEF VerifyReply, TypeOK, Typed
<1>13. ASSUME NEW stamp \in 0 .. MaxTime, CleanExpiredDeviceCodes(stamp) PROVE Typed'
  <2>1. rows' \in [Codes -> Row]
    BY <1>a, <1>0, <1>13 DEF CleanExpiredDeviceCodes, TypeOK, Row, RowStatus
  <2>2. CodeInv'
    BY <1>a, <1>b, <1>13 DEF CleanExpiredDeviceCodes, TypeOK, CodeInv, Client, Admin
  <2> QED
    BY <1>a, <1>13, <2>1, <2>2 DEF CleanExpiredDeviceCodes, TypeOK, Typed
<1>14. ASSUME Restart PROVE Typed'
  <2>1. admin' \in [Admins -> Admin]
    BY <1>a, <1>14 DEF Restart, TypeOK, Admin, IdleAdmin, Actions
  <2>2. join' \in [JoinReqs -> Join]
    <3>1. \A j \in JoinReqs : join[j] \in Join /\ [join[j] EXCEPT !.pc = "ended"] \in Join
      BY <1>a DEF TypeOK, Join, JoinPc
    <3> QED
      BY <3>1, <1>14 DEF Restart
  <2>3. client' \in [Clients -> Client]
    BY <1>a, <1>14 DEF Restart, TypeOK, Client, ClientPc
  <2>4. CodeInv'
    BY <1>a, <1>b, <1>14 DEF Restart, TypeOK, CodeInv, Client, IdleAdmin
  <2> QED
    BY <1>a, <1>14, <2>1, <2>2, <2>3, <2>4, TimeAssumption
       DEF Restart, TypeOK, Typed
<1>15. CASE Tick
  BY <1>a, <1>b, <1>15, TimeAssumption DEF Tick, TypeOK, CodeInv, Typed
<1>16. CASE UNCHANGED vars
  BY <1>a, <1>b, <1>16 DEF vars, TypeOK, CodeInv, Typed
<1> QED
  BY <1>s, <1>1, <1>2, <1>3, <1>4, <1>5, <1>6, <1>7, <1>8, <1>9, <1>10, <1>11,
     <1>12, <1>13, <1>14, <1>15, <1>16, <1>17
     DEF Next, ClientStep, JoinStep, VerifyStep

\* Every variable keeps its type in every behaviour of the flow.
THEOREM TypeCorrect == Spec => []TypeOK
<1>1. Typed => TypeOK
  BY DEF Typed
<1> QED
  BY <1>1, InitTyped, NextTyped, PTL DEF Spec

-----------------------------------------------------------------------------
(* The inductive invariant. *)

LEMMA InitIndInv == Init => IndInv
<1>s. SUFFICES ASSUME Init PROVE IndInv
  OBVIOUS
<1>1. Typed
  BY <1>s, InitTyped
<1>2. TakenInv /\ OneAdmissionPerCode /\ TokenInv /\ ClientInv /\ JoinInv
  BY <1>s, SentinelAssumption
     DEF Init, TakenInv, OneAdmissionPerCode, TokenInv, ClientInv, JoinInv
<1>3. ApprovalInv /\ VerdictInv
  BY <1>s DEF Init, IdleAdmin, ApprovalInv, VerdictInv
<1> QED
  BY <1>1, <1>2, <1>3 DEF IndInv

\* No handler of /device/verify goes on.
AdminsKept ==
    \A a \in Admins : admin'[a] = admin[a] \/ admin'[a].pc = "idle"

\* What holds of rows and verdicts is left alone by every step that writes
\* neither, lets no request take a code and no user's decision go on.
LEMMA RowsUntouched ==
    ASSUME IndInv, UNCHANGED <<rows, asked, verdicts>>, AdminsKept, now' \in Nat, now <= now',
           \A k \in JoinReqs : join'[k].took = join[k].took
    PROVE  TokenInv' /\ VerdictInv' /\ ApprovalInv' /\ OneAdmissionPerCode'
<1>1. TypeOK /\ TokenInv /\ VerdictInv /\ ApprovalInv /\ OneAdmissionPerCode
  BY DEF IndInv, Typed
<1>2. TokenInv' /\ VerdictInv'
  BY <1>1 DEF TokenInv, VerdictInv, AdminsKept
<1>3. OneAdmissionPerCode'
  BY <1>1 DEF OneAdmissionPerCode
<1>4. ASSUME NEW d \in Codes, rows[d].expires < now PROVE rows[d].expires < now'
  BY <1>1, <1>4 DEF TypeOK, Row, Time
<1>5. \A d \in Codes : Taken(d)' <=> Taken(d)
  BY DEF Taken
<1>6. ApprovalInv'
  BY <1>1, <1>4, <1>5 DEF ApprovalInv, AdminsKept
<1> QED
  BY <1>2, <1>3, <1>6

\* A step that moves no token and no user's name keeps what users are told true.
LEMMA VerdictsKept ==
    ASSUME TypeOK, CodeInv, VerdictInv, UNCHANGED <<verdicts, admin>>,
           \A d \in Codes : rows'[d].token = rows[d].token /\ rows'[d].by = rows[d].by
    PROVE  VerdictInv'
<1>1. \A v \in verdicts : v.code \in Codes
  BY DEF TypeOK, Verdict
<1>2. \A a \in Admins : admin[a].pc = "replying" => admin[a].code \in Codes
  BY DEF TypeOK, CodeInv, Admin
<1> QED
  BY <1>1, <1>2 DEF VerdictInv

LEMMA NextIndInv == IndInv /\ [Next]_vars => IndInv'
<1>s. SUFFICES ASSUME IndInv, [Next]_vars PROVE IndInv'
  OBVIOUS
<1>t. TypeOK /\ CodeInv
  BY <1>s DEF IndInv, Typed
<1>i. /\ TakenInv /\ OneAdmissionPerCode /\ TokenInv /\ ApprovalInv
      /\ VerdictInv /\ ClientInv /\ JoinInv
  BY <1>s DEF IndInv
<1>y. Typed'
  BY <1>s, NextTyped DEF IndInv
<1>1. ASSUME NEW c \in Clients, NEW d \in Codes, NEW stamp \in 0 .. MaxTime,
             CreateDeviceCode(c, d, stamp)
      PROVE  IndInv'
  <2>1. TakenInv'
    BY <1>t, <1>i, <1>1, SentinelAssumption
       DEF CreateDeviceCode, TypeOK, TakenInv, Row, Join
  <2>2. OneAdmissionPerCode'
    BY <1>t, <1>i, <1>1, SentinelAssumption
       DEF CreateDeviceCode, TypeOK, OneAdmissionPerCode, TakenInv, Join
  <2>3. TokenInv'
    BY <1>t, <1>i, <1>1, SentinelAssumption
       DEF CreateDeviceCode, TypeOK, TokenInv, Row
  <2>4. ApprovalInv'
    BY <1>t, <1>i, <1>1, SentinelAssumption
       DEF CreateDeviceCode, TypeOK, ApprovalInv, Row, TokenInv, Join, Taken
  <2>5. VerdictInv'
    <3>1. /\ \A e \in Codes : rows'[e].token = rows[e].token /\ rows'[e].by = rows[e].by
          /\ UNCHANGED <<verdicts, admin>>
      BY <1>t, <1>1 DEF CreateDeviceCode, TypeOK, Row
    <3> QED
      BY <1>t, <1>i, <3>1, VerdictsKept
  <2>6. ClientInv'
    BY <1>t, <1>i, <1>1, SentinelAssumption
       DEF CreateDeviceCode, TypeOK, ClientInv, Client, Row, CodeInv, TokenInv
  <2>7. JoinInv'
    BY <1>t, <1>i, <1>1, SentinelAssumption
       DEF CreateDeviceCode, TypeOK, JoinInv, Join, Client, ClientInv, Row, TokenInv, TakenInv, CodeInv
  <2> QED
    BY <1>y, <2>1, <2>2, <2>3, <2>4, <2>5, <2>6, <2>7 DEF IndInv
<1>2. ASSUME NEW c \in Clients, ReceiveDeviceCode(c) PROVE IndInv'
  <2>1. /\ UNCHANGED <<rows, asked, verdicts>> /\ AdminsKept
        /\ now' \in Nat /\ now <= now'
        /\ \A k \in JoinReqs : join'[k].took = join[k].took
    BY <1>t, <1>i, <1>2 DEF ReceiveDeviceCode, TypeOK, TakenInv, Join, AdminsKept
  <2>2. TokenInv' /\ VerdictInv' /\ ApprovalInv' /\ OneAdmissionPerCode'
    BY <1>s, <2>1, RowsUntouched
  <2>3. TakenInv'
    BY <1>t, <1>i, <1>2, SentinelAssumption
       DEF ReceiveDeviceCode, TypeOK, TakenInv, Row, Join
  <2>4. ClientInv'
    BY <1>t, <1>i, <1>2, SentinelAssumption
       DEF ReceiveDeviceCode, TypeOK, ClientInv, Client, Row, CodeInv, TokenInv
  <2>5. JoinInv'
    BY <1>t, <1>i, <1>2, SentinelAssumption
       DEF ReceiveDeviceCode, TypeOK, JoinInv, Join, Client, ClientInv, Row, TokenInv, TakenInv, CodeInv
  <2> QED
    BY <1>y, <2>2, <2>3, <2>4, <2>5 DEF IndInv
<1>3. ASSUME NEW c \in Clients, PollLoop(c) PROVE IndInv'
  <2>1. /\ UNCHANGED <<rows, asked, verdicts>> /\ AdminsKept
        /\ now' \in Nat /\ now <= now'
        /\ \A k \in JoinReqs : join'[k].took = join[k].took
    BY <1>t, <1>i, <1>3 DEF PollLoop, TypeOK, TakenInv, Join, AdminsKept
  <2>2. TokenInv' /\ VerdictInv' /\ ApprovalInv' /\ OneAdmissionPerCode'
    BY <1>s, <2>1, RowsUntouched
  <2>3. TakenInv'
    BY <1>t, <1>i, <1>3, SentinelAssumption
       DEF PollLoop, TypeOK, TakenInv, Row, Join
  <2>4. ClientInv'
    BY <1>t, <1>i, <1>3, SentinelAssumption
       DEF PollLoop, TypeOK, ClientInv, Client, Row, CodeInv, TokenInv
  <2>5. JoinInv'
    BY <1>t, <1>i, <1>3, SentinelAssumption
       DEF PollLoop, TypeOK, JoinInv, Join, Client, ClientInv, Row, TokenInv, TakenInv, CodeInv
  <2> QED
    BY <1>y, <2>2, <2>3, <2>4, <2>5 DEF IndInv
<1>4. ASSUME NEW c \in Clients, DeviceTokenHandler(c) PROVE IndInv'
  <2>1. /\ UNCHANGED <<rows, asked, verdicts>> /\ AdminsKept
        /\ now' \in Nat /\ now <= now'
        /\ \A k \in JoinReqs : join'[k].took = join[k].took
    BY <1>t, <1>i, <1>4 DEF DeviceTokenHandler, TypeOK, TakenInv, Join, AdminsKept
  <2>2. TokenInv' /\ VerdictInv' /\ ApprovalInv' /\ OneAdmissionPerCode'
    BY <1>s, <2>1, RowsUntouched
  <2>3. TakenInv'
    BY <1>t, <1>i, <1>4, SentinelAssumption
       DEF DeviceTokenHandler, TypeOK, TakenInv, Row, Join
  <2>4. ClientInv'
    <3>1. client[c].pc = "sleep" /\ client[c].token = NoToken
      BY <1>i, <1>4 DEF DeviceTokenHandler, ClientInv
    <3>2. client[c].code \in Codes
      BY <1>t, <3>1 DEF TypeOK, CodeInv, Client
    <3>3. \A k \in Clients : k # c => client'[k] = client[k]
      BY <1>t, <1>4 DEF DeviceTokenHandler, TypeOK
    <3>4. /\ client'[c].code = client[c].code
          /\ \/ client'[c].pc \in {"loop", "failed"} /\ client'[c].token = NoToken
             \/ /\ client'[c].pc = "joining"
                /\ client'[c].token = rows[client[c].code].token
                /\ rows[client[c].code].status = "approved"
      BY <1>t, <1>4, <3>1 DEF DeviceTokenHandler, TypeOK, Client
    <3> QED
      BY <1>i, <2>1, <3>2, <3>3, <3>4 DEF ClientInv, TokenInv
  <2>5. JoinInv'
    <3>1. client[c].token = NoToken
      BY <1>i, <1>4 DEF DeviceTokenHandler, ClientInv
    <3>2. \A k \in Clients : k # c => client'[k] = client[k]
      BY <1>t, <1>4 DEF DeviceTokenHandler, TypeOK
    <3>3. \A j \in JoinReqs : join'[j] = join[j]
      BY <1>4 DEF DeviceTokenHandler
    <3> QED
      BY <1>i, <2>1, <3>1, <3>2, <3>3 DEF JoinInv
  <2> QED
    BY <1>y, <2>2, <2>3, <2>4, <2>5 DEF IndInv
<1>5. ASSUME NEW c \in Clients, NEW j \in JoinReqs, JoinHandler(j, c) PROVE IndInv'
  <2>1. /\ UNCHANGED <<rows, asked, verdicts>> /\ AdminsKept
        /\ now' \in Nat /\ now <= now'
        /\ \A k \in JoinReqs : join'[k].took = join[k].took
    BY <1>t, <1>i, <1>5 DEF JoinHandler, Stamped, TypeOK, TakenInv, Join, AdminsKept
  <2>2. TokenInv' /\ VerdictInv' /\ ApprovalInv' /\ OneAdmissionPerCode'
    BY <1>s, <2>1, RowsUntouched
  <2>3. TakenInv'
    BY <1>t, <1>i, <1>5, SentinelAssumption
       DEF JoinHandler, Stamped, TypeOK, TakenInv, Row, Join
  <2>4. ClientInv'
    BY <1>t, <1>i, <1>5, SentinelAssumption
       DEF JoinHandler, Stamped, TypeOK, ClientInv, Client, Row, CodeInv, TokenInv
  <2>5. JoinInv'
    <3>1. client[c].token # NoToken
      BY <1>i, <1>5 DEF JoinHandler, ClientInv
    <3>2. \A k \in Clients : client'[k].token = client[k].token
      BY <1>t, <1>5 DEF JoinHandler, TypeOK, Client
    <3>3. \A k \in JoinReqs : k # j => join'[k] = join[k]
      BY <1>t, <1>5 DEF JoinHandler, Stamped, TypeOK
    <3>4. /\ join'[j].client = c /\ join'[j].token = client[c].token
          /\ join'[j].took = NoCode
      BY <1>t, <1>5 DEF JoinHandler, Stamped, TypeOK
    <3> QED
      BY <1>i, <2>1, <3>1, <3>2, <3>3, <3>4 DEF JoinInv
  <2> QED
    BY <1>y, <2>2, <2>3, <2>4, <2>5 DEF IndInv
<1>6. ASSUME NEW c \in Clients, ClientGivesUp(c) PROVE IndInv'
  <2>1. /\ UNCHANGED <<rows, asked, verdicts>> /\ AdminsKept
        /\ now' \in Nat /\ now <= now'
        /\ \A k \in JoinReqs : join'[k].took = join[k].took
    BY <1>t, <1>i, <1>6 DEF ClientGivesUp, TypeOK, TakenInv, Join, AdminsKept
  <2>2. TokenInv' /\ VerdictInv' /\ ApprovalInv' /\ OneAdmissionPerCode'
    BY <1>s, <2>1, RowsUntouched
  <2>3. TakenInv'
    BY <1>t, <1>i, <1>6, SentinelAssumption
       DEF ClientGivesUp, TypeOK, TakenInv, Row, Join
  <2>4. ClientInv'
    BY <1>t, <1>i, <1>6, SentinelAssumption
       DEF ClientGivesUp, TypeOK, ClientInv, Client, Row, CodeInv, TokenInv
  <2>5. JoinInv'
    BY <1>t, <1>i, <1>6, SentinelAssumption
       DEF ClientGivesUp, TypeOK, JoinInv, Join, Client, ClientInv, Row, TokenInv, TakenInv, CodeInv
  <2> QED
    BY <1>y, <2>2, <2>3, <2>4, <2>5 DEF IndInv
<1>7. ASSUME NEW c \in Clients, NEW j \in JoinReqs, RepeatedJoin(j, c) PROVE IndInv'
  <2>1. /\ UNCHANGED <<rows, asked, verdicts>> /\ AdminsKept
        /\ now' \in Nat /\ now <= now'
        /\ \A k \in JoinReqs : join'[k].took = join[k].took
    BY <1>t, <1>i, <1>7 DEF RepeatedJoin, Stamped, TypeOK, TakenInv, Join, AdminsKept
  <2>2. TokenInv' /\ VerdictInv' /\ ApprovalInv' /\ OneAdmissionPerCode'
    BY <1>s, <2>1, RowsUntouched
  <2>3. TakenInv'
    BY <1>t, <1>i, <1>7, SentinelAssumption
       DEF RepeatedJoin, Stamped, TypeOK, TakenInv, Row, Join
  <2>4. ClientInv'
    BY <1>t, <1>i, <1>7, SentinelAssumption
       DEF RepeatedJoin, Stamped, TypeOK, ClientInv, Client, Row, CodeInv, TokenInv
  <2>5. JoinInv'
    BY <1>t, <1>i, <1>7, SentinelAssumption
       DEF RepeatedJoin, Stamped, TypeOK, JoinInv, Join, Client, ClientInv, Row, TokenInv, TakenInv, CodeInv
  <2> QED
    BY <1>y, <2>2, <2>3, <2>4, <2>5 DEF IndInv
<1>8. ASSUME NEW j \in JoinReqs, ConsumeAccessToken(j) PROVE IndInv'
  <2>1. ASSUME NEW d \in Codes, Consumable(d, join[j].token, join[j].stamp),
               Spend(d), UNCHANGED client,
               join' = [join EXCEPT ![j].pc = "consumed", ![j].took = d]
        PROVE  IndInv'
    <3>1. /\ join[j].pc = "stamped" /\ join[j].took = NoCode
          /\ UNCHANGED <<now, asked, verdicts, admin>>
      BY <1>i, <1>8 DEF ConsumeAccessToken, TakenInv
    <3>2. /\ \A e \in Codes : /\ rows'[e].token = rows[e].token
                              /\ rows'[e].by = rows[e].by
                              /\ rows'[e].expires = rows[e].expires
                              /\ e # d => rows'[e].status = rows[e].status
          /\ rows[d].status = "approved" /\ rows'[d].status = "deleted"
          /\ rows[d].token = join[j].token /\ join[j].stamp < rows[d].expires
      BY <1>t, <2>1 DEF Consumable, Spend, TypeOK, Row
    <3>3. /\ \A k \in JoinReqs : k # j => join'[k] = join[k]
          /\ join'[j].pc = "consumed" /\ join'[j].took = d
          /\ join'[j].client = join[j].client /\ join'[j].token = join[j].token
          /\ join'[j].stamp = join[j].stamp
      BY <1>t, <2>1 DEF TypeOK, Join
    <3>4. \A k \in JoinReqs : join[k].took \in Codes \cup {NoCode}
      BY <1>t DEF TypeOK, Join
    <3>5. TakenInv'
      BY <1>i, <3>2, <3>3, <3>4 DEF TakenInv
    <3>6. OneAdmissionPerCode'
      BY <1>i, <3>2, <3>3 DEF OneAdmissionPerCode, TakenInv
    <3>7. TokenInv'
      BY <1>i, <3>2 DEF TokenInv
    <3>8. ApprovalInv'
      <4>1. Taken(d)' /\ \A e \in Codes : Taken(e) => Taken(e)'
        BY <3>1, <3>3, SentinelAssumption DEF Taken
      <4> QED
        BY <1>i, <3>1, <3>2, <4>1 DEF ApprovalInv
    <3>9. VerdictInv'
      BY <1>t, <1>i, <3>1, <3>2, VerdictsKept
    <3>10. ClientInv'
      BY <1>i, <2>1, <3>2 DEF ClientInv
    <3>11. JoinInv'
      <4>1. ASSUME NEW k \in JoinReqs, k # j
            PROVE  /\ join'[k].pc # "idle" =>
                         /\ join'[k].client \in Clients
                         /\ join'[k].token = client'[join'[k].client].token
                         /\ join'[k].token # NoToken
                   /\ join'[k].took # NoCode =>
                         /\ rows'[join'[k].took].token = join'[k].token
                         /\ join'[k].stamp < rows'[join'[k].took].expires
        <5>1. join'[k] = join[k]
          BY <3>3, <4>1
        <5>2. join[k].took # NoCode =>
                 /\ rows'[join[k].took].token = rows[join[k].took].token
                 /\ rows'[join[k].took].expires = rows[join[k].took].expires
          BY <3>2, <3>4
        <5> QED
          BY <1>i, <2>1, <5>1, <5>2 DEF JoinInv
      <4>2. /\ join'[j].client \in Clients
            /\ join'[j].token = client'[join'[j].client].token
            /\ join'[j].token # NoToken
        BY <1>i, <2>1, <3>1, <3>3 DEF JoinInv
      <4>3. /\ rows'[join'[j].took].token = join'[j].token
            /\ join'[j].stamp < rows'[join'[j].took].expires
        BY <3>2, <3>3
      <4> QED
        BY <4>1, <4>2, <4>3 DEF JoinInv
    <3> QED
      BY <1>y, <3>5, <3>6, <3>7, <3>8, <3>9, <3>10, <3>11 DEF IndInv
  <2>2. ASSUME join' = [join EXCEPT ![j].pc = "ended"], Answer(j, "failed"),
               UNCHANGED rows
        PROVE  IndInv'
    <3>1. /\ join[j].pc = "stamped" /\ join[j].took = NoCode
          /\ UNCHANGED <<now, asked, verdicts, admin>>
      BY <1>i, <1>8 DEF ConsumeAccessToken, TakenInv
    <3>2. \A k \in JoinReqs :
             /\ join'[k].client = join[k].client /\ join'[k].token = join[k].token
             /\ join'[k].stamp = join[k].stamp /\ join'[k].took = join[k].took
             /\ join'[k].pc = join[k].pc \/ (k = j /\ join'[k].pc = "ended")
      BY <1>t, <2>2 DEF TypeOK, Join
    <3>3. \A k \in Clients :
             /\ client'[k].token = client[k].token
             /\ client'[k].code = client[k].code
             /\ \/ client'[k].pc = client[k].pc
                \/ client[k].pc = "awaiting" /\ client'[k].pc = "failed"
      BY <1>t, <2>2 DEF Answer, TypeOK, Client
    <3>4. TokenInv' /\ VerdictInv' /\ ApprovalInv' /\ OneAdmissionPerCode'
      <4>1. AdminsKept
        BY <3>1 DEF AdminsKept
      <4> QED
        BY <1>s, <1>t, <2>2, <3>1, <3>2, <4>1, RowsUntouched DEF TypeOK
    <3>5. TakenInv'
      BY <1>i, <2>2, <3>1, <3>2 DEF TakenInv
    <3>6. ClientInv'
      BY <1>i, <2>2, <3>3 DEF ClientInv
    <3>7. JoinInv'
      BY <1>i, <2>2, <3>1, <3>2, <3>3 DEF JoinInv
    <3> QED
      BY <1>y, <3>4, <3>5, <3>6, <3>7 DEF IndInv
  <2> QED
    BY <1>8, <2>1, <2>2 DEF ConsumeAccessToken
<1>9. ASSUME NEW j \in JoinReqs, FinishJoin(j) PROVE IndInv'
  <2>1. /\ UNCHANGED <<rows, asked, verdicts>> /\ AdminsKept
        /\ now' \in Nat /\ now <= now'
        /\ \A k \in JoinReqs : join'[k].took = join[k].took
    BY <1>t, <1>i, <1>9 DEF FinishJoin, Answer, TypeOK, TakenInv, Join, AdminsKept
  <2>2. TokenInv' /\ VerdictInv' /\ ApprovalInv' /\ OneAdmissionPerCode'
    BY <1>s, <2>1, RowsUntouched
  <2>3. TakenInv'
    BY <1>t, <1>i, <1>9, SentinelAssumption
       DEF FinishJoin, Answer, TypeOK, TakenInv, Row, Join
  <2>4. ClientInv'
    <3>1. Answer(j, "joined") \/ Answer(j, "failed")
      BY <1>9 DEF FinishJoin
    <3>2. \A k \in Clients :
             /\ client'[k].token = client[k].token
             /\ client'[k].code = client[k].code
             /\ \/ client'[k].pc = client[k].pc
                \/ client[k].pc = "awaiting" /\ client'[k].pc \in {"joined", "failed"}
      BY <1>t, <3>1 DEF Answer, TypeOK, Client
    <3> QED
      BY <1>i, <2>1, <3>2 DEF ClientInv
  <2>5. JoinInv'
    <3>1. \A k \in JoinReqs :
             /\ join'[k].client = join[k].client /\ join'[k].token = join[k].token
             /\ join'[k].stamp = join[k].stamp /\ join'[k].took = join[k].took
             /\ join'[k].pc # "idle" => join[k].pc # "idle"
      BY <1>t, <1>9 DEF FinishJoin, TypeOK, Join
    <3>2. \A k \in Clients : client'[k].token = client[k].token
      <4>1. Answer(j, "joined") \/ Answer(j, "failed")
        BY <1>9 DEF FinishJoin
      <4> QED
        BY <1>t, <4>1 DEF Answer, TypeOK, Client
    <3> QED
      BY <1>i, <2>1, <3>1, <3>2 DEF JoinInv
  <2> QED
    BY <1>y, <2>2, <2>3, <2>4, <2>5 DEF IndInv
<1>10. ASSUME NEW a \in Admins, NEW d \in Codes,
             NEW action \in Actions, VerifyLookup(a, d, action) PROVE IndInv'
  <2>1. /\ UNCHANGED <<now, rows, join, verdicts>>
        /\ \A b \in Admins : b # a => admin'[b] = admin[b]
        /\ admin'[a] = [pc |-> "deciding", code |-> d, action |-> action]
        /\ asked \subseteq asked'
        /\ action = "approve" => <<a, d>> \in asked'
    BY <1>t, <1>10 DEF VerifyLookup, TypeOK
  <2>2. TokenInv' /\ VerdictInv' /\ ApprovalInv' /\ OneAdmissionPerCode'
    <3>1. \A e \in Codes : Taken(e)' <=> Taken(e)
      BY <2>1 DEF Taken
    <3>2. TokenInv' /\ VerdictInv' /\ OneAdmissionPerCode'
      BY <1>i, <2>1 DEF TokenInv, VerdictInv, OneAdmissionPerCode
    <3>3. ApprovalInv'
      BY <1>i, <2>1, <3>1 DEF ApprovalInv
    <3> QED
      BY <3>2, <3>3
  <2>3. TakenInv'
    BY <1>t, <1>i, <1>10, SentinelAssumption
       DEF VerifyLookup, TypeOK, TakenInv, Row, Join
  <2>4. ClientInv'
    BY <1>t, <1>i, <1>10, SentinelAssumption
       DEF VerifyLookup, TypeOK, ClientInv, Client, Row, CodeInv, TokenInv
  <2>5. JoinInv'
    BY <1>t, <1>i, <1>10, SentinelAssumption
       DEF VerifyLookup, TypeOK, JoinInv, Join, Client, ClientInv, Row, TokenInv, TakenInv, CodeInv
  <2> QED
    BY <1>y, <2>2, <2>3, <2>4, <2>5 DEF IndInv
<1>11. ASSUME NEW a \in Admins, ApproveDeviceCode(a) PROVE IndInv'
  <2> DEFINE d == admin[a].code
  <2>0. UNCHANGED <<now, client, join, asked, verdicts>>
    BY <1>11 DEF ApproveDeviceCode
  <2>1. ASSUME ApproveMatches(d), NEW t \in Tokens \ Issued,
               rows' = [rows EXCEPT ![d].status = "approved", ![d].token = t,
                                    ![d].by = a],
               StatementDone(a)
        PROVE  IndInv'
    <3>0. d \in Codes
      BY <1>t, <1>11 DEF ApproveDeviceCode, TypeOK, CodeInv, Admin
    <3>1. /\ rows[d].status = "pending" /\ rows[d].token = NoToken
          /\ rows'[d].status = "approved" /\ rows'[d].token = t
          /\ rows'[d].by = a
          /\ \A e \in Codes : e # d => rows'[e] = rows[e]
      BY <1>t, <1>i, <2>1, <3>0 DEF ApproveMatches, TypeOK, Row, TokenInv
    <3>2. t # NoToken /\ \A e \in Codes : rows[e].token # t
      BY <2>1, SentinelAssumption DEF Issued
    <3>3. /\ <<a, d>> \in asked
          /\ admin'[a].pc = "replying" /\ admin'[a].code = d
          /\ \A b \in Admins : b # a => admin'[b] = admin[b]
      BY <1>t, <1>i, <1>11, <2>1
         DEF ApproveDeviceCode, StatementDone, ApprovalInv, TypeOK, Admin
    <3>4. TakenInv'
      BY <1>t, <1>i, <2>0, <3>1 DEF TakenInv, TypeOK, Join
    <3>5. OneAdmissionPerCode'
      BY <1>i, <2>0 DEF OneAdmissionPerCode
    <3>6. TokenInv'
      BY <1>i, <3>1, <3>2 DEF TokenInv
    <3>7. ApprovalInv'
      <4>1. \A e \in Codes : Taken(e)' <=> Taken(e)
        BY <2>0 DEF Taken
      <4> QED
        BY <1>i, <2>0, <3>1, <3>3, <4>1 DEF ApprovalInv
    <3>8. VerdictInv'
      <4>1. ASSUME NEW v \in verdicts, v.reply = "Approved"
            PROVE  v.code \in Codes /\ v.code # d
        BY <1>t, <1>i, <3>1, <4>1 DEF VerdictInv, TypeOK, Verdict
      <4>2. ASSUME NEW b \in Admins, b # a, admin[b].pc = "replying",
                   admin[b].action = "approve"
            PROVE  admin[b].code \in Codes /\ admin[b].code # d
        BY <1>t, <1>i, <3>1, <4>2 DEF VerdictInv, TypeOK, CodeInv, Admin
      <4> QED
        BY <1>i, <2>0, <3>1, <3>2, <3>3, <4>1, <4>2 DEF VerdictInv
    <3>9. ClientInv'
      BY <1>i, <2>0, <3>1 DEF ClientInv
    <3>10. JoinInv'
      <4>1. \A j \in JoinReqs : join[j].took # NoCode =>
               join[j].took \in Codes /\ join[j].took # d
        BY <1>t, <1>i, <3>1 DEF TypeOK, Join, TakenInv
      <4> QED
        BY <1>i, <2>0, <3>1, <4>1 DEF JoinInv
    <3> QED
      BY <1>y, <3>4, <3>5, <3>6, <3>7, <3>8, <3>9, <3>10 DEF IndInv
  <2>2. ASSUME UNCHANGED rows, admin' = [admin EXCEPT ![a] = IdleAdmin]
        PROVE  IndInv'
    <3>1. TokenInv' /\ VerdictInv' /\ ApprovalInv' /\ OneAdmissionPerCode'
      <4>1. AdminsKept
        BY <1>t, <2>2 DEF AdminsKept, IdleAdmin, TypeOK
      <4> QED
        BY <1>s, <1>t, <2>0, <2>2, <4>1, RowsUntouched DEF TypeOK
    <3>2. TakenInv' /\ ClientInv' /\ JoinInv'
      BY <1>i, <2>0, <2>2 DEF TakenInv, ClientInv, JoinInv
    <3> QED
      BY <1>y, <3>1, <3>2 DEF IndInv
  <2> QED
    BY <1>11, <2>1, <2>2 DEF ApproveDeviceCode
<1>12. ASSUME NEW a \in Admins, DenyDeviceCode(a) PROVE IndInv'
  <2> DEFINE d == admin[a].code
  <2>0. /\ UNCHANGED <<now, client, join, asked, verdicts>>
        /\ admin'[a].pc = "replying" /\ admin'[a].action = "deny"
        /\ \A b \in Admins : b # a => admin'[b] = admin[b]
    BY <1>t, <1>12 DEF DenyDeviceCode, StatementDone, TypeOK, Admin
  <2>1. /\ \A e \in Codes : rows'[e].token = rows[e].token
        /\ \A e \in Codes : rows'[e].expires = rows[e].expires
        /\ \A e \in Codes : rows'[e] = rows[e] \/
              /\ rows[e].status = "pending" /\ rows[e].token = NoToken
              /\ rows'[e].status = "denied"
    BY <1>t, <1>i, <1>12 DEF DenyDeviceCode, DenyMatches, TokenInv, TypeOK, Row
  <2>2. \A j \in JoinReqs : join[j].took \in Codes \cup {NoCode}
    BY <1>t DEF TypeOK, Join
  <2>3. TakenInv' /\ OneAdmissionPerCode'
    BY <1>i, <2>0, <2>1, <2>2 DEF TakenInv, OneAdmissionPerCode
  <2>4. TokenInv'
    BY <1>i, <2>1 DEF TokenInv
  <2>5. ApprovalInv'
    <3>1. \A e \in Codes : Taken(e)' <=> Taken(e)
      BY <2>0 DEF Taken
    <3> QED
      BY <1>i, <2>0, <2>1, <3>1 DEF ApprovalInv
  <2>6. VerdictInv'
    <3>1. \A v \in verdicts : v.code \in Codes
      BY <1>t DEF TypeOK, Verdict
    <3>2. \A b \in Admins : admin[b].pc = "replying" => admin[b].code \in Codes
      BY <1>t DEF TypeOK, CodeInv, Admin
    <3> QED
      BY <1>i, <2>0, <2>1, <3>1, <3>2 DEF VerdictInv
  <2>7. ClientInv'
    BY <1>i, <2>0, <2>1 DEF ClientInv
  <2>8. JoinInv'
    BY <1>i, <2>0, <2>1, <2>2 DEF JoinInv
  <2> QED
    BY <1>y, <2>3, <2>4, <2>5, <2>6, <2>7, <2>8 DEF IndInv
<1>17. ASSUME NEW a \in Admins, VerifyReply(a) PROVE IndInv'
  <2> DEFINE new == [by |-> a, code |-> admin[a].code,
                     reply |-> ReplyTo(admin[a].action)]
  <2>1. /\ UNCHANGED <<now, rows, client, join, asked>>
        /\ verdicts' = verdicts \cup {new}
        /\ admin[a].pc = "replying" /\ admin'[a].pc = "idle"
        /\ \A b \in Admins : b # a => admin'[b] = admin[b]
    BY <1>t, <1>17 DEF VerifyReply, IdleAdmin, TypeOK
  <2>2. TakenInv' /\ OneAdmissionPerCode' /\ TokenInv' /\ ClientInv' /\ JoinInv'
    BY <1>i, <2>1 DEF TakenInv, OneAdmissionPerCode, TokenInv, ClientInv, JoinInv
  <2>3. ApprovalInv'
    <3>1. \A e \in Codes : Taken(e)' <=> Taken(e)
      BY <2>1 DEF Taken
    <3> QED
      BY <1>i, <2>1, <3>1 DEF ApprovalInv
  <2>4. VerdictInv'
    <3>1. new.reply = "Approved" => /\ rows[new.code].token # NoToken
                                    /\ rows[new.code].by = new.by
      BY <1>i, <2>1 DEF VerdictInv, ReplyTo
    <3> QED
      BY <1>i, <2>1, <3>1 DEF VerdictInv
  <2> QED
    BY <1>y, <2>2, <2>3, <2>4 DEF IndInv
<1>13. ASSUME NEW stamp \in 0 .. MaxTime, CleanExpiredDeviceCodes(stamp) PROVE IndInv'
  <2>1. TakenInv'
    BY <1>t, <1>i, <1>13, SentinelAssumption
       DEF CleanExpiredDeviceCodes, Lapsed, Live, TypeOK, TakenInv, Row, Join
  <2>2. OneAdmissionPerCode'
    BY <1>t, <1>i, <1>13, SentinelAssumption
       DEF CleanExpiredDeviceCodes, Lapsed, Live, TypeOK, OneAdmissionPerCode, TakenInv, Join
  <2>3. TokenInv'
    BY <1>t, <1>i, <1>13, SentinelAssumption
       DEF CleanExpiredDeviceCodes, Lapsed, Live, TypeOK, TokenInv, Row
  <2>4. ApprovalInv'
    <3>1. \A d \in Codes : /\ rows'[d].token = rows[d].token
                           /\ rows'[d].by = rows[d].by
                           /\ rows'[d].expires = rows[d].expires
                           /\ \/ rows'[d].status = rows[d].status
                              \/ rows[d].expires < stamp
      BY <1>t, <1>13 DEF CleanExpiredDeviceCodes, Lapsed, TypeOK, Row
    <3>2. \A d \in Codes : rows[d].expires < stamp => rows[d].expires < now
      BY <1>t, <1>13 DEF CleanExpiredDeviceCodes, TypeOK, Row, Time
    <3>3. /\ UNCHANGED <<now, asked, admin>>
          /\ \A d \in Codes : Taken(d)' <=> Taken(d)
      BY <1>13 DEF CleanExpiredDeviceCodes, Taken
    <3> QED
      BY <1>i, <3>1, <3>2, <3>3 DEF ApprovalInv
  <2>5. VerdictInv'
    <3>1. /\ \A e \in Codes : rows'[e].token = rows[e].token /\ rows'[e].by = rows[e].by
          /\ UNCHANGED <<verdicts, admin>>
      BY <1>t, <1>13 DEF CleanExpiredDeviceCodes, TypeOK, Row
    <3> QED
      BY <1>t, <1>i, <3>1, VerdictsKept
  <2>6. ClientInv'
    BY <1>t, <1>i, <1>13, SentinelAssumption
       DEF CleanExpiredDeviceCodes, Lapsed, Live, TypeOK, ClientInv, Client, Row, CodeInv, TokenInv
  <2>7. JoinInv'
    BY <1>t, <1>i, <1>13, SentinelAssumption
       DEF CleanExpiredDeviceCodes, Lapsed, Live, TypeOK, JoinInv, Join, Client, ClientInv, Row, TokenInv, TakenInv, CodeInv
  <2> QED
    BY <1>y, <2>1, <2>2, <2>3, <2>4, <2>5, <2>6, <2>7 DEF IndInv
<1>14. ASSUME Restart PROVE IndInv'
  <2>1. /\ UNCHANGED <<rows, asked, verdicts>> /\ AdminsKept
        /\ now' \in Nat /\ now <= now'
        /\ \A k \in JoinReqs : join'[k].took = join[k].took
    BY <1>t, <1>i, <1>14 DEF Restart, TypeOK, TakenInv, Join, AdminsKept, IdleAdmin
  <2>2. TokenInv' /\ VerdictInv' /\ ApprovalInv' /\ OneAdmissionPerCode'
    BY <1>s, <2>1, RowsUntouched
  <2>3. TakenInv'
    BY <1>t, <1>i, <1>14, SentinelAssumption
       DEF Restart, TypeOK, TakenInv, Row, Join
  <2>4. ClientInv'
    BY <1>t, <1>i, <1>14, SentinelAssumption
       DEF Restart, TypeOK, ClientInv, Client, Row, CodeInv, TokenInv
  <2>5. JoinInv'
    BY <1>t, <1>i, <1>14, SentinelAssumption
       DEF Restart, TypeOK, JoinInv, Join, Client, ClientInv, Row, TokenInv, TakenInv, CodeInv
  <2> QED
    BY <1>y, <2>2, <2>3, <2>4, <2>5 DEF IndInv
<1>15. ASSUME Tick PROVE IndInv'
  <2>1. /\ UNCHANGED <<rows, asked, verdicts>> /\ AdminsKept
        /\ now' \in Nat /\ now <= now'
        /\ \A k \in JoinReqs : join'[k].took = join[k].took
    BY <1>t, <1>i, <1>15 DEF Tick, TypeOK, TakenInv, Join, AdminsKept
  <2>2. TokenInv' /\ VerdictInv' /\ ApprovalInv' /\ OneAdmissionPerCode'
    BY <1>s, <2>1, RowsUntouched
  <2>3. TakenInv'
    BY <1>t, <1>i, <1>15, SentinelAssumption
       DEF Tick, TypeOK, TakenInv, Row, Join
  <2>4. ClientInv'
    BY <1>t, <1>i, <1>15, SentinelAssumption
       DEF Tick, TypeOK, ClientInv, Client, Row, CodeInv, TokenInv
  <2>5. JoinInv'
    BY <1>t, <1>i, <1>15, SentinelAssumption
       DEF Tick, TypeOK, JoinInv, Join, Client, ClientInv, Row, TokenInv, TakenInv, CodeInv
  <2> QED
    BY <1>y, <2>2, <2>3, <2>4, <2>5 DEF IndInv
<1>16. ASSUME UNCHANGED vars PROVE IndInv'
  <2>1. /\ UNCHANGED <<rows, asked, verdicts>> /\ AdminsKept
        /\ now' \in Nat /\ now <= now'
        /\ \A k \in JoinReqs : join'[k].took = join[k].took
    BY <1>t, <1>i, <1>16 DEF vars, TypeOK, TakenInv, Join, AdminsKept
  <2>2. TokenInv' /\ VerdictInv' /\ ApprovalInv' /\ OneAdmissionPerCode'
    BY <1>s, <2>1, RowsUntouched
  <2>3. TakenInv'
    BY <1>t, <1>i, <1>16, SentinelAssumption
       DEF vars, TypeOK, TakenInv, Row, Join
  <2>4. ClientInv'
    BY <1>t, <1>i, <1>16, SentinelAssumption
       DEF vars, TypeOK, ClientInv, Client, Row, CodeInv, TokenInv
  <2>5. JoinInv'
    BY <1>t, <1>i, <1>16, SentinelAssumption
       DEF vars, TypeOK, JoinInv, Join, Client, ClientInv, Row, TokenInv, TakenInv, CodeInv
  <2> QED
    BY <1>y, <2>2, <2>3, <2>4, <2>5 DEF IndInv
<1> QED
  BY <1>s, <1>1, <1>2, <1>3, <1>4, <1>5, <1>6, <1>7, <1>8, <1>9, <1>10, <1>11,
     <1>12, <1>13, <1>14, <1>15, <1>16, <1>17
     DEF Next, ClientStep, JoinStep, VerifyStep

\* The inductive invariant holds in every behaviour of the flow.
THEOREM Invariant == Spec => []IndInv
BY InitIndInv, NextIndInv, PTL DEF Spec

-----------------------------------------------------------------------------
(* The safety properties follow. *)

\* A device code admits at most one join request, however many requests,
\* approvals, clean-ups and restarts there are.
THEOREM SingleUse == Spec => []OneAdmissionPerCode
<1>1. IndInv => OneAdmissionPerCode
  BY DEF IndInv
<1> QED
  BY <1>1, Invariant, PTL

\* A token handed to a client stays good for the lifetime of its code.
THEOREM TokensStay == Spec => []HandedTokenStays
<1>1. IndInv => HandedTokenStays
  <2>1. SUFFICES ASSUME IndInv, NEW c \in Clients, client[c].token # NoToken,
                        now <= rows[client[c].code].expires
                 PROVE  /\ rows[client[c].code].token = client[c].token
                        /\ \/ rows[client[c].code].status = "approved"
                           \/ Taken(client[c].code)
    BY DEF HandedTokenStays
  <2>2. /\ client[c].code \in Codes
        /\ rows[client[c].code].token = client[c].token
    BY <2>1 DEF IndInv, ClientInv
  <2>3. now \in Int /\ rows[client[c].code].expires \in Int
    BY <2>1, <2>2, TimeAssumption DEF IndInv, Typed, TypeOK, Row, Time
  <2>4. \/ rows[client[c].code].status = "approved"
        \/ Taken(client[c].code)
        \/ rows[client[c].code].expires < now
    BY <2>1, <2>2 DEF IndInv, ApprovalInv
  <2> QED
    BY <2>1, <2>2, <2>3, <2>4
<1> QED
  BY <1>1, Invariant, PTL

\* Whoever gets in asked for the code, in its lifetime, and the user named on
\* it asked to approve it, also when a crash kept the reply from that user.
THEOREM Earned == Spec => []AdmissionIsEarned
<1>1. IndInv => AdmissionIsEarned
  <2>1. SUFFICES ASSUME IndInv, NEW j \in JoinReqs, join[j].took # NoCode
                 PROVE  /\ client[join[j].client].code = join[j].took
                        /\ join[j].stamp < rows[join[j].took].expires
                        /\ <<rows[join[j].took].by, join[j].took>> \in asked
    BY DEF AdmissionIsEarned
  <2> DEFINE d == join[j].took
             c == join[j].client
  <2>2. d \in Codes /\ join[j].pc # "idle"
    BY <2>1 DEF IndInv, Typed, TypeOK, Join, TakenInv
  <2>3. /\ c \in Clients /\ join[j].token = client[c].token
        /\ join[j].token # NoToken
        /\ rows[d].token = join[j].token /\ join[j].stamp < rows[d].expires
    BY <2>1, <2>2 DEF IndInv, JoinInv
  <2>4. client[c].code \in Codes /\ rows[client[c].code].token = client[c].token
    BY <2>1, <2>3 DEF IndInv, ClientInv
  <2>5. client[c].code = d
    BY <2>1, <2>2, <2>3, <2>4 DEF IndInv, TokenInv
  <2>6. <<rows[d].by, d>> \in asked
    BY <2>1, <2>2, <2>3 DEF IndInv, ApprovalInv
  <2> QED
    BY <2>3, <2>5, <2>6
<1> QED
  BY <1>1, Invariant, PTL

\* At most one user is told "Approved" for a code, and it is so.
THEOREM ApprovedIsTrue == Spec => []ApprovedReplyTruthful
<1>1. IndInv => ApprovedReplyTruthful
  <2>1. SUFFICES ASSUME IndInv, NEW v \in verdicts, v.reply = "Approved"
                 PROVE  /\ rows[v.code].by = v.by
                        /\ \/ rows[v.code].status = "approved"
                           \/ Taken(v.code)
                           \/ rows[v.code].expires < now
    BY DEF ApprovedReplyTruthful
  <2>2. v.code \in Codes
    BY <2>1 DEF IndInv, Typed, TypeOK, Verdict
  <2> QED
    BY <2>1, <2>2 DEF IndInv, VerdictInv, ApprovalInv
<1> QED
  BY <1>1, Invariant, PTL

-----------------------------------------------------------------------------
(* The flow implements the abstract grant. *)

LEMMA GrantInit == Init => Grant!Init
BY SentinelAssumption DEF Init, Grant!Init, grantStatus, grantRedeemedBy

\* A step that changes no row's status and takes no code is a stutter.
LEMMA GrantStutter ==
    ASSUME \A d \in Codes : rows'[d].status = rows[d].status,
           \A j \in JoinReqs : join'[j].took = join[j].took
    PROVE  UNCHANGED Grant!vars
<1>1. \A d \in Codes : Taken(d)' <=> Taken(d)
  BY DEF Taken
<1> QED
  BY <1>1 DEF Grant!vars, grantStatus, grantRedeemedBy

LEMMA GrantStep == IndInv /\ [Next]_vars => [Grant!Next]_(Grant!vars)
<1>s. SUFFICES ASSUME IndInv, [Next]_vars PROVE [Grant!Next]_(Grant!vars)
  OBVIOUS
<1>t. TypeOK /\ CodeInv /\ TakenInv /\ JoinInv
  BY <1>s DEF IndInv, Typed
<1>1. ASSUME NEW c \in Clients, NEW d \in Codes, NEW stamp \in 0 .. MaxTime,
             CreateDeviceCode(c, d, stamp)
      PROVE  Grant!Request(d)
  <2>1. /\ rows[d].status = "unused" /\ rows'[d].status = "pending"
        /\ \A e \in Codes : e # d => rows'[e] = rows[e]
        /\ UNCHANGED join
    BY <1>t, <1>1 DEF CreateDeviceCode, TypeOK, Row
  <2>2. grantStatus[d] = "none"
    BY <2>1 DEF grantStatus
  <2>3. grantStatus' = [grantStatus EXCEPT ![d] = "pending"]
    BY <2>1 DEF grantStatus, Taken
  <2>4. grantRedeemedBy' = grantRedeemedBy
    BY <2>1 DEF grantRedeemedBy
  <2> QED
    BY <2>2, <2>3, <2>4 DEF Grant!Request
<1>2. ASSUME NEW a \in Admins, VerifyStep(a)
      PROVE  Grant!Decide(admin[a].code) \/ UNCHANGED Grant!vars
  <2> DEFINE d == admin[a].code
  <2>0. UNCHANGED join
    BY <1>2 DEF VerifyStep, ApproveDeviceCode, DenyDeviceCode, VerifyReply
  <2>1. CASE UNCHANGED rows
    BY <2>0, <2>1, GrantStutter
  <2>2. ASSUME NEW verdict \in {"approved", "denied"},
               rows[d].status = "pending", rows'[d].status = verdict,
               \A e \in Codes : e # d => rows'[e] = rows[e]
        PROVE  Grant!Decide(d)
    <3>0. d \in Codes
      BY <1>t, <1>2 DEF VerifyStep, ApproveDeviceCode, DenyDeviceCode, VerifyReply, TypeOK,
                        CodeInv, Admin
    <3>1. grantStatus[d] = "pending"
      BY <2>2, <3>0 DEF grantStatus
    <3>2. grantStatus' = [grantStatus EXCEPT ![d] = verdict]
      BY <2>0, <2>2, <3>0 DEF grantStatus, Taken
    <3>3. grantRedeemedBy' = grantRedeemedBy
      BY <2>0 DEF grantRedeemedBy
    <3> QED
      BY <2>2, <3>1, <3>2, <3>3 DEF Grant!Decide, Grant!Undecided
  <2>3. CASE ApproveDeviceCode(a) /\ rows' # rows
    <3>1. d \in Codes /\ rows[d].status = "pending"
      BY <1>t, <2>3 DEF ApproveDeviceCode, ApproveMatches, TypeOK, CodeInv, Admin
    <3>2. /\ rows'[d].status = "approved"
          /\ \A e \in Codes : e # d => rows'[e] = rows[e]
      <4>1. PICK t \in Tokens :
               rows' = [rows EXCEPT ![d].status = "approved", ![d].token = t,
                                    ![d].by = a]
        BY <2>3 DEF ApproveDeviceCode
      <4> QED
        BY <1>t, <4>1, <3>1 DEF TypeOK, Row
    <3> QED
      BY <2>2, <3>1, <3>2
  <2>4. CASE DenyDeviceCode(a) /\ rows' # rows
    <3>1. d \in Codes /\ rows[d].status = "pending"
      BY <1>t, <2>4 DEF DenyDeviceCode, DenyMatches, TypeOK, CodeInv, Admin
    <3>2. /\ rows'[d].status = "denied"
          /\ \A e \in Codes : e # d => rows'[e] = rows[e]
      BY <1>t, <2>4, <3>1 DEF DenyDeviceCode, TypeOK, Row
    <3> QED
      BY <2>2, <3>1, <3>2
  <2> QED
    BY <1>2, <2>1, <2>3, <2>4 DEF VerifyStep, VerifyReply
<1>3. ASSUME NEW j \in JoinReqs, ConsumeAccessToken(j)
      PROVE  (\E d \in Codes : Grant!Redeem(d, j)) \/ UNCHANGED Grant!vars
  <2>1. ASSUME NEW d \in Codes, Consumable(d, join[j].token, join[j].stamp),
               Spend(d),
               join' = [join EXCEPT ![j].pc = "consumed", ![j].took = d]
        PROVE  Grant!Redeem(d, j)
    <3>1. /\ rows[d].status = "approved" /\ rows'[d].status = "deleted"
          /\ \A e \in Codes : e # d => rows'[e] = rows[e]
      BY <1>t, <2>1 DEF Consumable, Spend, TypeOK, Row
    <3>2. /\ join[j].took = NoCode /\ join'[j].took = d
          /\ \A k \in JoinReqs : k # j => join'[k] = join[k]
      <4>1. join[j].took = NoCode
        BY <1>t, <1>3 DEF ConsumeAccessToken, TakenInv
      <4> QED
        BY <1>t, <2>1, <4>1 DEF TypeOK, Join
    <3>3. \A k \in JoinReqs : join[k].took # d
      BY <1>t, <2>1, <3>1, SentinelAssumption DEF TakenInv
    <3>4. Taken(d)' /\ \A e \in Codes : e # d => (Taken(e)' <=> Taken(e))
      BY <3>2, SentinelAssumption DEF Taken
    <3>5. grantStatus[d] = "approved"
      BY <3>1 DEF grantStatus
    <3>6. grantStatus' = [grantStatus EXCEPT ![d] = "redeemed"]
      BY <3>1, <3>4 DEF grantStatus
    <3>7. grantRedeemedBy' = [grantRedeemedBy EXCEPT ![d] = {j}]
      BY <3>2, <3>3, SentinelAssumption DEF grantRedeemedBy
    <3> QED
      BY <3>5, <3>6, <3>7 DEF Grant!Redeem
  <2>2. ASSUME UNCHANGED rows, join' = [join EXCEPT ![j].pc = "ended"]
        PROVE  UNCHANGED Grant!vars
    BY <1>t, <2>2, GrantStutter DEF TypeOK, Join
  <2> QED
    BY <1>3, <2>1, <2>2 DEF ConsumeAccessToken
<1>4. ASSUME NEW stamp \in 0 .. MaxTime, CleanExpiredDeviceCodes(stamp)
      PROVE  \E S \in SUBSET Codes : Grant!Lapse(S)
  <2> DEFINE S == {d \in Codes : Lapsed(d, stamp)}
  <2>1. /\ \A d \in S : rows[d].status \in Grant!Open /\ rows'[d].status = "deleted"
        /\ \A d \in Codes \ S : rows'[d] = rows[d]
        /\ UNCHANGED join
    BY <1>t, <1>4 DEF CleanExpiredDeviceCodes, Lapsed, Live, TypeOK, Row, Grant!Open
  <2>2. \A d \in S : ~ Taken(d)
    BY <1>t, <2>1, SentinelAssumption DEF Taken, TakenInv, Grant!Open
  <2>3. \A d \in S : grantStatus[d] \in Grant!Open
    BY <2>1 DEF grantStatus, Grant!Open
  <2>4. grantStatus' = [d \in Codes |-> IF d \in S THEN "lapsed"
                                                 ELSE grantStatus[d]]
    BY <2>1, <2>2 DEF grantStatus, Taken
  <2>5. grantRedeemedBy' = grantRedeemedBy
    BY <2>1 DEF grantRedeemedBy
  <2>6. Grant!Lapse(S)
    BY <2>3, <2>4, <2>5 DEF Grant!Lapse
  <2> QED
    BY <2>6
<1>5. ASSUME NEW c \in Clients,
             ReceiveDeviceCode(c) \/ PollLoop(c) \/ DeviceTokenHandler(c)
                \/ ClientGivesUp(c)
      PROVE  UNCHANGED Grant!vars
  BY <1>5, GrantStutter
     DEF ReceiveDeviceCode, PollLoop, DeviceTokenHandler, ClientGivesUp
<1>6. ASSUME NEW c \in Clients, NEW j \in JoinReqs,
             JoinHandler(j, c) \/ RepeatedJoin(j, c)
      PROVE  UNCHANGED Grant!vars
  <2>1. \A k \in JoinReqs : join'[k].took = join[k].took
    BY <1>t, <1>6 DEF JoinHandler, RepeatedJoin, Stamped, TakenInv, TypeOK
  <2> QED
    BY <1>6, <2>1, GrantStutter DEF JoinHandler, RepeatedJoin
<1>7. ASSUME NEW j \in JoinReqs, FinishJoin(j) PROVE UNCHANGED Grant!vars
  <2>1. \A k \in JoinReqs : join'[k].took = join[k].took
    BY <1>t, <1>7 DEF FinishJoin, TypeOK, Join
  <2> QED
    BY <1>7, <2>1, GrantStutter DEF FinishJoin
<1>8. ASSUME NEW a \in Admins, NEW d \in Codes, NEW action \in Actions,
             VerifyLookup(a, d, action)
      PROVE  UNCHANGED Grant!vars
  BY <1>8, GrantStutter DEF VerifyLookup
<1>9. CASE Restart
  <2>1. \A k \in JoinReqs : join'[k].took = join[k].took
    BY <1>t, <1>9 DEF Restart, TypeOK, Join
  <2> QED
    BY <1>9, <2>1, GrantStutter DEF Restart
<1>10. CASE Tick \/ UNCHANGED vars
  BY <1>10, GrantStutter DEF Tick, vars
<1>11. CASE \E c \in Clients, d \in Codes, stamp \in 0 .. MaxTime :
               CreateDeviceCode(c, d, stamp)
  BY <1>1, <1>11 DEF Grant!Next
<1>12. CASE \E a \in Admins : VerifyStep(a)
  <2>1. PICK a \in Admins : VerifyStep(a)
    BY <1>12
  <2>2. CASE Grant!Decide(admin[a].code)
    <3>1. admin[a].code \in Codes
      BY <1>t, <2>1 DEF VerifyStep, ApproveDeviceCode, DenyDeviceCode, VerifyReply, TypeOK,
                        CodeInv, Admin
    <3> QED
      BY <2>2, <3>1 DEF Grant!Next
  <2> QED
    BY <1>2, <2>1, <2>2
<1>13. CASE \E j \in JoinReqs : ConsumeAccessToken(j)
  BY <1>3, <1>13 DEF Grant!Next
<1>14. CASE \E stamp \in 0 .. MaxTime : CleanExpiredDeviceCodes(stamp)
  BY <1>4, <1>14 DEF Grant!Next
<1> QED
  BY <1>s, <1>5, <1>6, <1>7, <1>8, <1>9, <1>10, <1>11, <1>12, <1>13, <1>14
     DEF Next, ClientStep, JoinStep

\* The handlers and their table implement the abstract grant.
THEOREM Implementation == Spec => ImplementsGrant
<1>1. Init /\ [][Next]_vars /\ []IndInv => Grant!Init /\ [][Grant!Next]_(Grant!vars)
  BY GrantInit, GrantStep, PTL
<1> QED
  BY <1>1, Invariant, PTL DEF Spec, ImplementsGrant, Grant!Spec

-----------------------------------------------------------------------------
(* Deadlines.                                                                *)

\* The row of a client's code has been written, with a lifetime that began in
\* the past, and a client that polls has counted its deadline from later on.
DeadlineInv ==
    \A c \in Clients : client[c].code # NoCode =>
        /\ rows[client[c].code].status # "unused"
        /\ rows[client[c].code].expires <= now + Expiry
        /\ client[c].pc \in {"loop", "sleep"} =>
               rows[client[c].code].expires <= client[c].deadline

\* No row that was written gets another lifetime.
RowsKept ==
    \A d \in Codes : rows[d].status # "unused" =>
        rows'[d].status # "unused" /\ rows'[d].expires = rows[d].expires

\* The step begins no polling and moves no deadline.
ClientsKept ==
    \A c \in Clients :
        /\ client'[c].code = client[c].code
        /\ client'[c].deadline = client[c].deadline
        /\ client'[c].pc \in {"loop", "sleep"} => client[c].pc \in {"loop", "sleep"}

LEMMA DeadlinesKept ==
    ASSUME Typed, DeadlineInv, RowsKept, ClientsKept, now' \in Nat, now <= now'
    PROVE  DeadlineInv'
<1> SUFFICES ASSUME NEW c \in Clients, client[c].code # NoCode
             PROVE  /\ rows'[client[c].code].status # "unused"
                    /\ rows'[client[c].code].expires <= now' + Expiry
                    /\ client'[c].pc \in {"loop", "sleep"} =>
                           rows'[client[c].code].expires <= client'[c].deadline
  BY DEF DeadlineInv, ClientsKept
<1> DEFINE d == client[c].code
<1>1. d \in Codes
  BY DEF Typed, TypeOK, Client
<1>2. rows'[d].status # "unused" /\ rows'[d].expires = rows[d].expires
  BY <1>1 DEF DeadlineInv, RowsKept
<1>3. rows[d].expires \in Int /\ now \in Int
  BY <1>1 DEF Typed, TypeOK, Row, Time
<1>4. rows[d].expires <= now' + Expiry
  BY <1>3, TimeAssumption DEF DeadlineInv
<1> QED
  BY <1>2, <1>4 DEF DeadlineInv, ClientsKept

LEMMA NextDeadlines == Typed /\ DeadlineInv /\ [Next]_vars => DeadlineInv'
<1>s. SUFFICES ASSUME Typed, DeadlineInv, [Next]_vars PROVE DeadlineInv'
  OBVIOUS
<1>a. TypeOK
  BY <1>s DEF Typed
<1>n. now \in Nat
  BY <1>a DEF TypeOK
<1>r. ASSUME UNCHANGED rows PROVE RowsKept
  BY <1>r DEF RowsKept
<1>c. ASSUME UNCHANGED client PROVE ClientsKept
  BY <1>c DEF ClientsKept
<1>k. ASSUME RowsKept, ClientsKept, UNCHANGED now PROVE DeadlineInv'
  BY <1>s, <1>k, <1>n, DeadlinesKept
<1>1. ASSUME NEW c \in Clients, NEW d \in Codes, NEW stamp \in 0 .. MaxTime,
             CreateDeviceCode(c, d, stamp)
      PROVE  DeadlineInv'
  <2> SUFFICES ASSUME NEW e \in Clients, client'[e].code # NoCode
               PROVE  /\ rows'[client'[e].code].status # "unused"
                      /\ rows'[client'[e].code].expires <= now' + Expiry
                      /\ client'[e].pc \in {"loop", "sleep"} =>
                             rows'[client'[e].code].expires <= client'[e].deadline
    BY DEF DeadlineInv
  <2>1. RowsKept /\ now' = now
    BY <1>a, <1>1 DEF CreateDeviceCode, RowsKept, TypeOK
  <2>2. CASE e = c
    <3>1. client'[c].code = d /\ client'[c].pc = "requested"
      BY <1>a, <1>1 DEF CreateDeviceCode, TypeOK, Client
    <3>2. /\ rows'[d].status = "pending" /\ rows'[d].expires = stamp + Expiry
          /\ stamp <= now
      BY <1>a, <1>1 DEF CreateDeviceCode, TypeOK, Row
    <3> QED
      BY <2>1, <2>2, <3>1, <3>2, <1>n, TimeAssumption
  <2>3. CASE e # c
    <3>1. client'[e] = client[e]
      BY <1>a, <1>1, <2>3 DEF CreateDeviceCode, TypeOK
    <3>2. client[e].code \in Codes
      BY <1>a, <3>1 DEF TypeOK, Client
    <3> QED
      BY <1>s, <2>1, <3>1, <3>2 DEF DeadlineInv, RowsKept
  <2> QED
    BY <2>2, <2>3
<1>2. ASSUME NEW c \in Clients, ReceiveDeviceCode(c) PROVE DeadlineInv'
  <2> SUFFICES ASSUME NEW e \in Clients, client'[e].code # NoCode
               PROVE  /\ rows'[client'[e].code].status # "unused"
                      /\ rows'[client'[e].code].expires <= now' + Expiry
                      /\ client'[e].pc \in {"loop", "sleep"} =>
                             rows'[client'[e].code].expires <= client'[e].deadline
    BY DEF DeadlineInv
  <2>1. rows' = rows /\ now' = now
    BY <1>2 DEF ReceiveDeviceCode
  <2>2. client'[e].code = client[e].code
    BY <1>a, <1>2 DEF ReceiveDeviceCode, TypeOK, Client
  <2>3. e = c => client'[e].deadline = now + Expiry
    BY <1>a, <1>2 DEF ReceiveDeviceCode, TypeOK, Client
  <2>4. e # c => client'[e] = client[e]
    BY <1>a, <1>2 DEF ReceiveDeviceCode, TypeOK
  <2> QED
    BY <1>s, <2>1, <2>2, <2>3, <2>4 DEF DeadlineInv
<1>3. ASSUME NEW c \in Clients, PollLoop(c) PROVE DeadlineInv'
  <2>1. ClientsKept
    BY <1>a, <1>3 DEF PollLoop, ClientsKept, TypeOK, Client
  <2> QED
    BY <2>1, <1>3, <1>r, <1>k DEF PollLoop
<1>4. ASSUME NEW c \in Clients, DeviceTokenHandler(c) PROVE DeadlineInv'
  <2>1. ClientsKept
    BY <1>a, <1>4 DEF DeviceTokenHandler, ClientsKept, TypeOK, Client
  <2> QED
    BY <2>1, <1>4, <1>r, <1>k DEF DeviceTokenHandler
<1>5. ASSUME NEW c \in Clients, ClientGivesUp(c) PROVE DeadlineInv'
  <2>1. ClientsKept
    BY <1>a, <1>5 DEF ClientGivesUp, ClientsKept, TypeOK, Client
  <2> QED
    BY <2>1, <1>5, <1>r, <1>k DEF ClientGivesUp
<1>6. ASSUME NEW j \in JoinReqs, NEW c \in Clients, JoinHandler(j, c) PROVE DeadlineInv'
  <2>1. ClientsKept
    BY <1>a, <1>6 DEF JoinHandler, ClientsKept, TypeOK, Client
  <2> QED
    BY <2>1, <1>6, <1>r, <1>k DEF JoinHandler
<1>7. ASSUME NEW j \in JoinReqs, NEW c \in Clients, RepeatedJoin(j, c) PROVE DeadlineInv'
  BY <1>7, <1>c, <1>r, <1>k DEF RepeatedJoin
<1>8. ASSUME NEW j \in JoinReqs, NEW pc \in {"joined", "failed"}, Answer(j, pc) PROVE ClientsKept
  BY <1>a, <1>8 DEF Answer, ClientsKept, TypeOK, Client
<1>9. ASSUME NEW j \in JoinReqs, ConsumeAccessToken(j) PROVE DeadlineInv'
  <2>1. ClientsKept /\ UNCHANGED now
    BY <1>9, <1>8, <1>c DEF ConsumeAccessToken
  <2>2. RowsKept
    BY <1>a, <1>9 DEF ConsumeAccessToken, Spend, RowsKept, TypeOK, Row
  <2> QED
    BY <2>1, <2>2, <1>k
<1>10. ASSUME NEW j \in JoinReqs, FinishJoin(j) PROVE DeadlineInv'
  BY <1>10, <1>8, <1>r, <1>k DEF FinishJoin
<1>11. ASSUME NEW a \in Admins, NEW d \in Codes, NEW action \in Actions,
              VerifyLookup(a, d, action)
       PROVE  DeadlineInv'
  BY <1>11, <1>c, <1>r, <1>k DEF VerifyLookup
<1>12. ASSUME NEW a \in Admins, ApproveDeviceCode(a) PROVE DeadlineInv'
  <2>1. RowsKept
    <3>1. CASE UNCHANGED rows
      BY <3>1, <1>r
    <3>2. ASSUME NEW t \in Tokens,
                 rows' = [rows EXCEPT ![admin[a].code].status = "approved",
                                      ![admin[a].code].token = t,
                                      ![admin[a].code].by = a]
          PROVE  RowsKept
      <4> DEFINE new == [rows[admin[a].code] EXCEPT !.status = "approved",
                                                    !.token = t, !.by = a]
      <4>1. rows' = [rows EXCEPT ![admin[a].code] = new]
        BY <3>2
      <4>2. admin[a].code \in Codes =>
                new.status = "approved" /\ new.expires = rows[admin[a].code].expires
        BY <1>a DEF TypeOK, Row
      <4> HIDE DEF new
      <4> QED
        BY <1>a, <4>1, <4>2 DEF RowsKept, TypeOK
    <3> QED
      BY <1>12, <3>1, <3>2 DEF ApproveDeviceCode
  <2> QED
    BY <2>1, <1>12, <1>c, <1>k DEF ApproveDeviceCode
<1>13. ASSUME NEW a \in Admins, DenyDeviceCode(a) PROVE DeadlineInv'
  <2>1. RowsKept
    BY <1>a, <1>13 DEF DenyDeviceCode, RowsKept, TypeOK, Row
  <2> QED
    BY <2>1, <1>13, <1>c, <1>k DEF DenyDeviceCode
<1>14. ASSUME NEW stamp \in 0 .. MaxTime, CleanExpiredDeviceCodes(stamp) PROVE DeadlineInv'
  <2>1. RowsKept
    BY <1>a, <1>14 DEF CleanExpiredDeviceCodes, RowsKept, TypeOK, Row
  <2> QED
    BY <2>1, <1>14, <1>c, <1>k DEF CleanExpiredDeviceCodes
<1>15. ASSUME Restart PROVE DeadlineInv'
  <2>1. ClientsKept
    BY <1>a, <1>15 DEF Restart, ClientsKept, TypeOK, Client
  <2> QED
    BY <2>1, <1>15, <1>r, <1>k DEF Restart
<1>16. ASSUME Tick PROVE DeadlineInv'
  <2>1. now' \in Nat /\ now <= now'
    BY <1>n, <1>16 DEF Tick
  <2> QED
    BY <2>1, <1>s, <1>16, <1>c, <1>r, DeadlinesKept DEF Tick
<1>18. ASSUME NEW a \in Admins, VerifyReply(a) PROVE DeadlineInv'
  BY <1>18, <1>c, <1>r, <1>k DEF VerifyReply
<1>17. CASE UNCHANGED vars
  BY <1>17, <1>c, <1>r, <1>k DEF vars
<1> QED
  BY <1>s, <1>1, <1>2, <1>3, <1>4, <1>5, <1>6, <1>7, <1>9, <1>10, <1>11,
     <1>12, <1>13, <1>14, <1>15, <1>16, <1>17, <1>18
     DEF Next, ClientStep, JoinStep, VerifyStep

\* The deadline at which a client gives up is never before the end of the
\* lifetime that the server gave its code (runJoin counts from the reply).
THEOREM DeadlinesCover == Spec => []DeadlineCoversLifetime
<1>1. Init => DeadlineInv
  BY DEF Init, DeadlineInv
<1>2. Typed /\ DeadlineInv => DeadlineCoversLifetime
  BY DEF Typed, CodeInv, DeadlineInv, DeadlineCoversLifetime
<1> QED
  BY <1>1, <1>2, InitTyped, NextTyped, NextDeadlines, PTL DEF Spec

=============================================================================
