--------------------------- MODULE WebViewsProofs ---------------------------
(* Proofs about WebViews, for any number of peers, codes and requests in    *)
(* flight: a view shows, and changes, what its URL and its code say.        *)
EXTENDS WebViews, TLAPS

-----------------------------------------------------------------------------
(* Requests.                                                               *)

\* What is asked for, and that no two of them are the same.
LEMMA AskTypes ==
    /\ List \in Asks /\ Load \in Asks /\ Edit \in Asks
    /\ Drop \in Asks /\ Purge \in Asks
    /\ \A p \in Peers : Find(p) \in Asks
    /\ \A c \in Codes : Lookup(c) \in Asks /\ Decide(c) \in Asks
    /\ NoAsk \notin Asks
BY AskAssumption, CallAssumption DEF AllAsks

FindAsks == {Find(p) : p \in Peers}
CodeAsks == {Lookup(c) : c \in Codes} \cup {Decide(c) : c \in Codes}
OtherAsks == {List, Load, Edit, Drop, Purge, NoAsk}

LEMMA AskNames ==
    /\ \A p, q : Find(p) = Find(q) => p = q
    /\ \A c, d : Lookup(c) = Lookup(d) => c = d
    /\ \A c, d : Decide(c) = Decide(d) => c = d
    /\ \A c, d : Lookup(c) # Decide(d) /\ Find(c) # Lookup(d) /\ Find(c) # Decide(d)
BY DEF Find, Lookup, Decide

LEMMA OtherNames ==
    ASSUME NEW ask \in OtherAsks
    PROVE  ask \notin FindAsks /\ ask \notin CodeAsks
<1>1. CASE ask = NoAsk
  BY <1>1, AskTypes DEF FindAsks, CodeAsks
<1>2. CASE ask \in {List, Load, Edit, Drop, Purge}
  BY <1>2 DEF FindAsks, CodeAsks, List, Load, Edit, Drop, Purge, Find, Lookup, Decide
<1> QED
  BY <1>1, <1>2 DEF OtherAsks

\* The step puts no request in flight but those of `new`.
AsksOnly(new) == \A a \in Asks : InFlight(a)' => InFlight(a) \/ a \in new

\* A request is sent, or its answer handled and followed by the next one.
LEMMA AskStep ==
    ASSUME SessionTypeOK, NEW s \in Slots, NEW ask \in Asks \cup {NoAsk},
           Send(s, ask) \/ Succeed(s, ask) \/ Throw(s, ask)
    PROVE  SessionTypeOK' /\ AsksOnly({ask})
<1>1. call' = [call EXCEPT ![s] = Asked(ask)]
  BY DEF Send, Succeed, Throw
<1>2. Asked(ask) \in Call /\ Asked(ask).ask = ask
  BY DEF Asked, Unused, Call, CallAt
<1>3. call' \in [Slots -> Call]
  BY <1>1, <1>2 DEF SessionTypeOK
<1>4. SessionTypeOK'
  BY <1>3 DEF Send, Succeed, Throw, SessionTypeOK
<1>5. AsksOnly({ask})
  BY <1>1, <1>2 DEF AsksOnly, InFlight, SessionTypeOK
<1> QED
  BY <1>4, <1>5

\* A request moves on.
LEMMA MoveStep ==
    ASSUME SessionTypeOK, NEW s \in Slots,
           Answer(s) \/ LoseSession(s) \/ Redirect(s)
    PROVE  SessionTypeOK' /\ AsksOnly({})
<1>1. PICK at \in CallAt : call' = [call EXCEPT ![s].at = at] /\ call[s].at # "hung"
  BY DEF Answer, LoseSession, Redirect, CallAt
<1>2. [call[s] EXCEPT !.at = at] \in Call /\ [call[s] EXCEPT !.at = at].ask = call[s].ask
  BY DEF SessionTypeOK, Call
<1>3. call' \in [Slots -> Call]
  BY <1>1, <1>2 DEF SessionTypeOK
<1>4. SessionTypeOK'
  BY <1>3 DEF Answer, LoseSession, Redirect, SessionTypeOK
<1>5. \A t \in Slots : call'[t].ask = call[t].ask /\ (call'[t].at # "hung" => call[t].at # "hung")
  BY <1>1, <1>2 DEF SessionTypeOK
<1>6. AsksOnly({})
  BY <1>5 DEF AsksOnly, InFlight
<1> QED
  BY <1>4, <1>6

\* A new document asks for the list, and for what its URL names.
LEMMA FirstAsks ==
    ASSUME NEW u \in Urls, NEW c \in Links
    PROVE  /\ FirstAsk(u, c) \in Asks \cup {NoAsk}
           /\ u \in Peers => FirstAsk(u, c) = Find(u)
           /\ (u = Verify /\ c # NoCode) => FirstAsk(u, c) = Lookup(c)
           /\ FirstCalls(u, c) \in [Slots -> Call]
           /\ \A s \in Slots : FirstCalls(u, c)[s].ask \in {List, FirstAsk(u, c), NoAsk}
<1>1. CASE u \in Peers
  BY <1>1, AskTypes, ViewAssumption DEF FirstAsk, FirstCalls, Asked, Unused, Call, CallAt
<1>2. CASE u = Verify
  BY <1>2, AskTypes, ViewAssumption DEF FirstAsk, FirstCalls, Asked, Unused, Call, CallAt
<1>3. CASE u = Home
  BY <1>3, AskTypes, ViewAssumption DEF FirstAsk, FirstCalls, Asked, Unused, Call, CallAt
<1> QED
  BY <1>1, <1>2, <1>3 DEF Urls

LEMMA DocumentStep ==
    ASSUME NEW u \in Urls, NEW c \in Links, call' = FirstCalls(u, c)
    PROVE  /\ call' \in [Slots -> Call]
           /\ \A a \in Asks : InFlight(a)' => a \in {List, FirstAsk(u, c)}
<1>1. \A s \in Slots : call'[s].ask \in {List, FirstAsk(u, c), NoAsk}
  BY FirstAsks
<1> QED
  BY <1>1, FirstAsks, AskTypes DEF InFlight

-----------------------------------------------------------------------------
(* Typing.                                                                 *)

DetailType  == [peer : Peers \cup {NoPeer}, shown : Peers \cup {NoPeer},
                rules : Peers \cup {NoPeer}]
ApproveType == [code : Codes \cup {NoCode}, info : Codes \cup {NoCode},
                error : BOOLEAN, loading : BOOLEAN]

ViewTypeOK ==
    /\ url \in Urls
    /\ link \in Links
    /\ detail \in DetailType
    /\ approve \in ApproveType
    /\ crossed \subseteq {"detail", "approve"}

LEMMA TypeSplits == TypeOK <=> SessionTypeOK /\ ViewTypeOK
BY DEF TypeOK, ViewTypeOK, DetailType, ApproveType

LEMMA TypesJoin == SessionTypeOK' /\ ViewTypeOK' => TypeOK'
BY DEF TypeOK, ViewTypeOK, DetailType, ApproveType

LEMMA TypesKept == ViewTypeOK /\ UNCHANGED viewVars => ViewTypeOK'
BY DEF ViewTypeOK, viewVars

LEMMA Fresh ==
    ASSUME ViewTypeOK
    PROVE  /\ NoDetail \in DetailType
           /\ [NoDetail EXCEPT !.peer = detail.peer] \in DetailType
           /\ NoApprove \in ApproveType
           /\ HiddenApprove \in ApproveType
           /\ \A c \in Codes : [NoApprove EXCEPT !.code = c, !.loading = TRUE] \in ApproveType
BY DEF ViewTypeOK, NoDetail, DetailType, NoApprove, HiddenApprove, ApproveType

LEMMA CrossingTyped ==
    ASSUME ViewTypeOK, NEW view \in {"detail", "approve"}, NEW pending, NEW ask,
           Crossing(view, pending, ask)
    PROVE  crossed' \subseteq {"detail", "approve"}
BY DEF ViewTypeOK, Crossing

LEMMA CodeSet ==
    ASSUME ViewTypeOK, NEW c \in Links \cup {NoCode}, NEW ask, SetCode(c, ask)
    PROVE  approve' \in ApproveType /\ crossed' \subseteq {"detail", "approve"}
<1>1. c \in Codes \cup {NoCode}
  BY ViewAssumption
<1>2. CASE c # NoCode /\ StartLookup(c, ask) /\ approve' = [NoApprove EXCEPT !.code = c, !.loading = TRUE]
  BY <1>1, <1>2, Fresh, CrossingTyped DEF StartLookup
<1>3. CASE approve' = HiddenApprove /\ UNCHANGED crossed
  BY <1>3, Fresh DEF ViewTypeOK
<1> QED
  BY <1>2, <1>3 DEF SetCode

LEMMA RouteTyped ==
    ASSUME ViewTypeOK, NEW u \in Urls, NEW ask, Route(u, ask)
    PROVE  ViewTypeOK'
<1>1. link \in Links
  BY DEF ViewTypeOK
<1>2. approve' \in ApproveType /\ crossed' \subseteq {"detail", "approve"}
  <2>1. CASE RouteToPeer(u, ask)
    BY <2>1, Fresh, CrossingTyped DEF RouteToPeer
  <2>2. CASE SetCode(link, ask)
    BY <2>2, <1>1, CodeSet
  <2>3. CASE RouteHome(ask)
    BY <2>3, Fresh DEF RouteHome, ViewTypeOK
  <2> QED
    BY <2>1, <2>2, <2>3 DEF Route
<1> QED
  BY <1>1, <1>2, Fresh DEF Route, ViewTypeOK

LEMMA HomeTyped == ASSUME ViewTypeOK, GoHome PROVE ViewTypeOK'
BY Fresh DEF GoHome, RouteHome, ViewTypeOK, Urls

LEMMA OpenTyped ==
    ASSUME NEW u \in Urls, NEW c \in Links, Open(u, c)
    PROVE  ViewTypeOK'
<1>1. c \in Codes \cup {NoCode}
  BY ViewAssumption
<1>2. NoDetail \in DetailType /\ NoApprove \in ApproveType
  BY DEF NoDetail, DetailType, NoApprove, ApproveType
<1>3. [NoApprove EXCEPT !.code = c, !.loading = c # NoCode] \in ApproveType
  BY <1>1 DEF NoApprove, ApproveType
<1> QED
  BY <1>2, <1>3 DEF Open, ViewTypeOK

LEMMA UserTyped ==
    ASSUME TypeOK, User
    PROVE  TypeOK'
<1>s. SessionTypeOK /\ ViewTypeOK
  BY TypeSplits
<1>1. ASSUME NEW u \in Urls, Visit(u) PROVE TypeOK'
  <2>1. PICK s \in Slots, ask \in AllAsks \cup {NoAsk} : Route(u, ask) /\ Send(s, ask)
    BY <1>1 DEF Visit
  <2> QED
    BY <1>s, <2>1, AskAssumption, AskStep, RouteTyped, TypesJoin
<1>2. ASSUME NEW c \in Codes \cup {NoCode}, TypeCode(c) PROVE TypeOK'
  <2>1. ASSUME NEW s \in Slots, c # NoCode, StartLookup(c, Lookup(c)), Send(s, Lookup(c)),
               approve' = [approve EXCEPT !.code = c, !.error = FALSE, !.loading = TRUE]
        PROVE  TypeOK'
    <3>1. SessionTypeOK'
      BY <1>s, <2>1, AskTypes, AskStep
    <3>2. approve' \in ApproveType
      BY <1>s, <2>1 DEF ViewTypeOK, ApproveType
    <3>3. crossed' \subseteq {"detail", "approve"}
      BY <1>s, <2>1, CrossingTyped DEF StartLookup
    <3> QED
      BY <1>s, <1>2, <3>1, <3>2, <3>3, TypesJoin DEF TypeCode, ViewTypeOK
  <2>2. ASSUME approve' = [approve EXCEPT !.code = NoCode], UNCHANGED <<sessionVars, crossed>>
        PROVE  TypeOK'
    <3>1. approve' \in ApproveType
      BY <1>s, <2>2 DEF ViewTypeOK, ApproveType
    <3>2. SessionTypeOK'
      BY <1>s, <2>2 DEF SessionTypeOK, sessionVars
    <3> QED
      BY <1>s, <1>2, <2>2, <3>1, <3>2, TypesJoin DEF TypeCode, ViewTypeOK
  <2> QED
    BY <1>2, <2>1, <2>2 DEF TypeCode
<1>3. CASE HandleAction
  <2>1. approve.code \in Codes
    BY <1>s, <1>3 DEF HandleAction, CodeShown, HasCode, ViewTypeOK, ApproveType
  <2>2. SessionTypeOK'
    BY <1>s, <1>3, <2>1, AskTypes, AskStep DEF HandleAction
  <2>3. ViewTypeOK'
    BY <1>s, <1>3 DEF HandleAction, ViewTypeOK, ApproveType
  <2> QED
    BY <2>2, <2>3, TypesJoin
<1>4. CASE ChangePeer
  BY <1>s, <1>4, AskTypes, AskStep, TypesKept, TypesJoin DEF ChangePeer
<1>5. CASE ToggleCustom
  <2>1. SessionTypeOK'
    BY <1>s, <1>5 DEF ToggleCustom, SessionTypeOK, sessionVars
  <2>2. ViewTypeOK'
    BY <1>s, <1>5 DEF ToggleCustom, ViewTypeOK, DetailType
  <2> QED
    BY <2>1, <2>2, TypesJoin
<1> QED
  BY <1>1, <1>2, <1>3, <1>4, <1>5 DEF User

\* What every continuation does to the session.
LEMMA AnswerTyped ==
    ASSUME SessionTypeOK, NEW s \in Slots, NEW ask \in {List, Load, NoAsk},
           Succeed(s, ask) \/ Throw(s, ask)
    PROVE  SessionTypeOK' /\ AsksOnly({ask})
BY AskTypes, AskStep

LEMMA SettleTyped ==
    ASSUME TypeOK, NEW s \in Slots, Settle(s)
    PROVE  TypeOK'
<1>s. SessionTypeOK /\ ViewTypeOK
  BY TypeSplits
<1>1. CASE AfterList(s)
  BY <1>s, <1>1, AnswerTyped, TypesKept, TypesJoin DEF Fail, AfterList
<1>2. CASE AfterLoad(s)
  <2>1. SessionTypeOK'
    BY <1>s, <1>2, AnswerTyped DEF Fail, AfterLoad
  <2>2. detail' \in DetailType
    BY <1>s, <1>2 DEF AfterLoad, Rendered, ViewTypeOK, DetailType
  <2> QED
    BY <1>s, <1>2, <2>1, <2>2, TypesJoin DEF AfterLoad, ViewTypeOK
<1>3. CASE AfterEdit(s)
  BY <1>s, <1>3, AnswerTyped, TypesKept, TypesJoin DEF Fail, AfterEdit
<1>4. CASE AfterDrop(s)
  BY <1>s, <1>4, AnswerTyped, TypesKept, HomeTyped, TypesJoin DEF AfterDrop
<1>5. CASE AfterPurge(s)
  BY <1>s, <1>5, AnswerTyped, TypesKept, TypesJoin DEF AfterPurge
<1>6. ASSUME NEW p \in Peers, AfterFind(s, p) PROVE TypeOK'
  <2>1. CASE Succeed(s, Load) /\ detail' = [detail EXCEPT !.peer = p]
             /\ UNCHANGED <<url, link, approve, crossed>>
    <3>1. SessionTypeOK'
      BY <1>s, <2>1, AnswerTyped
    <3>2. detail' \in DetailType
      BY <1>s, <2>1 DEF ViewTypeOK, DetailType
    <3> QED
      BY <1>s, <2>1, <3>1, <3>2, TypesJoin DEF ViewTypeOK
  <2>2. CASE (Succeed(s, List) \/ Fail(s, List)) /\ GoHome
    BY <1>s, <2>2, AnswerTyped, HomeTyped, TypesJoin DEF Fail
  <2> QED
    BY <1>6, <2>1, <2>2 DEF AfterFind
<1>7. ASSUME NEW c \in Codes, AfterLookup(s, c) PROVE TypeOK'
  <2>1. SessionTypeOK'
    BY <1>s, <1>7, AnswerTyped DEF Fail, AfterLookup
  <2>2. approve' \in ApproveType
    BY <1>s, <1>7, Fresh DEF AfterLookup, ViewTypeOK, ApproveType
  <2> QED
    BY <1>s, <1>7, <2>1, <2>2, TypesJoin DEF AfterLookup, ViewTypeOK
<1>8. ASSUME NEW c \in Codes, AfterDecide(s, c) PROVE TypeOK'
  <2>1. SessionTypeOK'
    BY <1>s, <1>8, AnswerTyped DEF Fail, AfterDecide
  <2>2. approve' \in ApproveType /\ detail' \in DetailType /\ url' \in Urls
    BY <1>s, <1>8, Fresh DEF AfterDecide, ViewTypeOK, ApproveType, Urls
  <2> QED
    BY <1>s, <1>8, <2>1, <2>2, TypesJoin DEF AfterDecide, ViewTypeOK
<1> QED
  BY <1>1, <1>2, <1>3, <1>4, <1>5, <1>6, <1>7, <1>8 DEF Settle

\* The page is left, or another document takes its place.
Departure == Return \/ Departs \/ UserSignsIn

LEMMA DocumentIs ==
    ASSUME TypeOK, Departure
    PROVE  /\ SessionTypeOK'
           /\ \E u \in Urls, c \in Links :
                 /\ Open(u, c)
                 /\ \/ call' = FirstCalls(u, c)
                    \/ call' = [s \in Slots |-> Unused] /\ u = Home
<1>s. SessionTypeOK /\ ViewTypeOK
  BY TypeSplits
<1>1. url \in Urls /\ Home \in Urls /\ link \in Links
  BY <1>s DEF ViewTypeOK, Urls
<1>2. ASSUME NEW u \in Urls, NEW c \in Links, Open(u, c),
             Cached(FirstCalls(u, c)) \/ Bounce(FirstCalls(u, c)) \/ SignIn(FirstCalls(u, c))
      PROVE  SessionTypeOK' /\ call' = FirstCalls(u, c)
  <2>1. call' = FirstCalls(u, c)
    BY <1>2 DEF Cached, Bounce, SignIn, NewDocument
  <2>2. call' \in [Slots -> Call]
    BY <2>1, DocumentStep
  <2> QED
    BY <1>s, <1>2, <2>1, <2>2 DEF Cached, Bounce, SignIn, NewDocument, SessionTypeOK
<1>3. CASE Departs
  <2>1. call' = [s \in Slots |-> Unused] /\ Open(Home, link)
    BY <1>3 DEF Departs, Leave
  <2>2. call' \in [Slots -> Call]
    BY <2>1 DEF Unused, Call, CallAt
  <2>3. SessionTypeOK'
    BY <1>s, <1>3, <2>2 DEF Departs, Leave, SessionTypeOK
  <2> QED
    BY <1>1, <2>1, <2>3
<1>4. CASE Return
  BY <1>1, <1>2, <1>4 DEF Return
<1>5. CASE UserSignsIn
  BY <1>2, <1>5 DEF UserSignsIn
<1> QED
  BY <1>3, <1>4, <1>5 DEF Departure

\* What only the server, the service worker, the proxy or time does.
Moves(s) == (Answer(s) \/ Redirect(s) \/ LoseSession(s)) /\ UNCHANGED viewVars
Waits    == Passing \/ UNCHANGED vars

LEMMA WaitStep ==
    ASSUME SessionTypeOK, Waits
    PROVE  SessionTypeOK' /\ call' = call /\ UNCHANGED viewVars
<1>1. CASE Passing
  BY <1>1 DEF Passing, SessionEnds, WindowPasses, SessionTypeOK
<1>2. CASE UNCHANGED vars
  BY <1>2 DEF vars, viewVars, sessionVars, SessionTypeOK
<1> QED
  BY <1>1, <1>2 DEF Waits

\* Every step is one of these five kinds.
LEMMA StepKinds ==
    ASSUME [Next]_vars
    PROVE  \/ \E s \in Slots : Moves(s) \/ Settle(s)
           \/ Departure \/ User \/ Waits
BY DEF Next, Deliver, Moves, Departure, Waits

LEMMA InitTyped == Init => TypeOK
<1> SUFFICES ASSUME Init PROVE TypeOK
  OBVIOUS
<1>1. link \in Codes \cup {NoCode}
  BY ViewAssumption DEF Init
<1>2. call \in [Slots -> Call]
  BY FirstAsks DEF Init
<1>3. approve \in ApproveType /\ detail \in DetailType
  BY <1>1 DEF Init, NoApprove, ApproveType, NoDetail, DetailType
<1>4. SessionTypeOK
  BY <1>2 DEF Init, SessionTypeOK
<1>5. ViewTypeOK
  BY <1>3 DEF Init, ViewTypeOK
<1> QED
  BY <1>4, <1>5, TypeSplits

LEMMA NextTyped == TypeOK /\ [Next]_vars => TypeOK'
<1> SUFFICES ASSUME TypeOK, [Next]_vars PROVE TypeOK'
  OBVIOUS
<1>s. SessionTypeOK /\ ViewTypeOK
  BY TypeSplits
<1>1. ASSUME NEW s \in Slots, Moves(s) PROVE TypeOK'
  BY <1>s, <1>1, MoveStep, TypesKept, TypesJoin DEF Moves
<1>2. ASSUME NEW s \in Slots, Settle(s) PROVE TypeOK'
  BY <1>2, SettleTyped
<1>3. CASE Departure
  BY <1>3, DocumentIs, OpenTyped, TypesJoin
<1>4. CASE User
  BY <1>4, UserTyped
<1>5. CASE Waits
  BY <1>s, <1>5, WaitStep, TypesKept, TypesJoin
<1> QED
  BY <1>1, <1>2, <1>3, <1>4, <1>5, StepKinds

\* Every variable of the views and of the session keeps its type.
THEOREM ViewsTyped == Spec => []TypeOK
BY InitTyped, NextTyped, PTL DEF Spec

-----------------------------------------------------------------------------
(* The page of a peer.                                                     *)

PeerView == FindInv /\ DetailInv

\* A view that has not crossed its questions has none in flight but the last.
LEMMA CrossingTells ==
    ASSUME NEW view, NEW pending, NEW ask, Crossing(view, pending, ask)
    PROVE  /\ \A other : other # view => (other \in crossed' <=> other \in crossed)
           /\ view \notin crossed' => \A a \in pending : InFlight(a) => a = ask
<1> DEFINE open == {a \in pending : InFlight(a)}
<1>1. crossed' = IF open \ {ask} # {} THEN crossed \cup {view}
                 ELSE IF open = {} THEN crossed \ {view}
                 ELSE crossed
  BY DEF Crossing
<1> QED
  BY <1>1

\* Nothing that the page shows, or waits for, is touched.
LEMMA PeerViewKept ==
    ASSUME PeerView, url' = url, detail' = detail,
           "detail" \in crossed' <=> "detail" \in crossed,
           NEW new, new \cap FindAsks = {}, AsksOnly(new)
    PROVE  PeerView'
<1>1. \A q \in Peers : InFlight(Find(q))' => InFlight(Find(q))
  BY AskTypes DEF AsksOnly, FindAsks
<1> QED
  BY <1>1 DEF PeerView, FindInv, DetailInv

LEMMA PeerViewLeft == ASSUME url' \notin Peers PROVE PeerView'
BY DEF PeerView, FindInv, DetailInv

\* The page is empty, and the only lookup in flight is its own.
LEMMA PeerViewFresh ==
    ASSUME NEW u \in Peers, url' = u, detail' = NoDetail,
           "detail" \notin crossed' => \A q \in Peers : InFlight(Find(q))' => q = u
    PROVE  PeerView'
BY DEF PeerView, FindInv, DetailInv, NoDetail

LEMMA NotPeers == Home \notin Peers /\ Verify \notin Peers
BY ViewAssumption

LEMMA VisitKeepsPeerView ==
    ASSUME TypeOK, PeerView, NEW u \in Urls, Visit(u)
    PROVE  PeerView'
<1>1. PICK s \in Slots, ask \in Asks \cup {NoAsk} : Route(u, ask) /\ Send(s, ask)
  BY AskAssumption DEF Visit
<1>2. AsksOnly({ask})
  BY <1>1, TypeSplits, AskStep
<1>3. CASE u \notin Peers
  BY <1>1, <1>3, PeerViewLeft DEF Route
<1>4. CASE u \in Peers
  <2>1. /\ url' = u /\ detail' = NoDetail /\ ask = Find(u)
        /\ Crossing("detail", {Find(q) : q \in Peers}, ask)
    BY <1>1, <1>4, NotPeers DEF Route, RouteToPeer
  <2>2. "detail" \notin crossed' => \A q \in Peers : InFlight(Find(q)) => Find(q) = Find(u)
    BY <2>1, CrossingTells
  <2>3. \A q \in Peers : InFlight(Find(q))' => InFlight(Find(q)) \/ Find(q) = Find(u)
    BY <1>2, <2>1, AskTypes DEF AsksOnly
  <2>4. "detail" \notin crossed' => \A q \in Peers : InFlight(Find(q))' => q = u
    BY <2>2, <2>3, AskNames
  <2> QED
    BY <1>4, <2>1, <2>4, PeerViewFresh
<1> QED
  BY <1>3, <1>4

LEMMA UserKeepsPeerView ==
    ASSUME TypeOK, PeerView, User
    PROVE  PeerView'
<1>s. SessionTypeOK /\ ViewTypeOK
  BY TypeSplits
<1>1. ASSUME NEW u \in Urls, Visit(u) PROVE PeerView'
  BY <1>1, VisitKeepsPeerView
<1>2. ASSUME NEW c \in Codes \cup {NoCode}, TypeCode(c) PROVE PeerView'
  BY <1>2, PeerViewLeft, NotPeers DEF TypeCode, InputShown
<1>3. CASE HandleAction
  BY <1>3, PeerViewLeft, NotPeers DEF HandleAction, CodeShown
<1>4. CASE ChangePeer
  <2>1. PICK s \in Slots, ask \in {Edit, Drop, Purge} : Send(s, ask) /\ UNCHANGED viewVars
    BY <1>4 DEF ChangePeer
  <2>2. AsksOnly({ask})
    BY <1>s, <2>1, AskTypes, AskStep
  <2>3. {ask} \cap FindAsks = {}
    BY OtherNames DEF OtherAsks
  <2> QED
    BY <2>1, <2>2, <2>3, PeerViewKept DEF viewVars
<1>5. CASE ToggleCustom
  <2>1. call' = call /\ url' = url /\ crossed' = crossed /\ url \in Peers
    BY <1>5 DEF ToggleCustom, sessionVars, PeerShown
  <2>2. FindInv'
    BY <2>1 DEF PeerView, FindInv, InFlight
  <2>3. DetailInv'
    <3>1. detail' = [detail EXCEPT !.shown = detail.peer] /\ detail.shown # NoPeer
      BY <1>5 DEF ToggleCustom, PeerShown
    <3>2. /\ detail'.shown = detail.peer /\ detail'.peer = detail.peer
          /\ detail'.rules = detail.rules
      BY <1>s, <3>1 DEF ViewTypeOK, DetailType
    <3> QED
      BY <2>1, <3>1, <3>2 DEF PeerView, DetailInv
  <2> QED
    BY <2>2, <2>3 DEF PeerView
<1> QED
  BY <1>1, <1>2, <1>3, <1>4, <1>5 DEF User

\* The answers.  That of a lookup names the peer of the URL, if it is the only
\* one; that of a load comes for the peer at hand.
LEMMA SettleKeepsPeerView ==
    ASSUME TypeOK, PeerView, NEW s \in Slots, Settle(s)
    PROVE  PeerView'
<1>s. SessionTypeOK /\ ViewTypeOK
  BY TypeSplits
<1>a. ASSUME NEW ask \in {List, Load, NoAsk}, Succeed(s, ask) \/ Throw(s, ask)
      PROVE  AsksOnly({ask}) /\ {ask} \cap FindAsks = {}
  BY <1>s, <1>a, AnswerTyped, OtherNames DEF OtherAsks
<1>k. ASSUME UNCHANGED <<url, detail, crossed>>,
             NEW ask \in {List, Load, NoAsk}, Succeed(s, ask) \/ Throw(s, ask)
      PROVE  PeerView'
  BY <1>a, <1>k, PeerViewKept
<1>1. CASE AfterList(s) \/ AfterEdit(s) \/ AfterPurge(s)
  BY <1>1, <1>k DEF Fail, AfterList, AfterEdit, AfterPurge, viewVars
<1>2. CASE AfterDrop(s)
  BY <1>2, <1>k, PeerViewLeft, NotPeers DEF AfterDrop, viewVars, GoHome
<1>3. CASE AfterLoad(s)
  <2>1. AsksOnly({NoAsk}) /\ {NoAsk} \cap FindAsks = {}
    BY <1>3, <1>a DEF Fail, AfterLoad
  <2>2. \A q \in Peers : InFlight(Find(q))' => InFlight(Find(q))
    BY <2>1, AskTypes DEF AsksOnly, FindAsks
  <2>3. FindInv'
    BY <1>3, <2>2 DEF AfterLoad, PeerView, FindInv
  <2>4. PICK rules \in {detail.peer, NoPeer} : detail' = Rendered(rules)
    BY <1>3 DEF AfterLoad
  <2>5. url' = url /\ crossed' = crossed
    BY <1>3 DEF AfterLoad
  <2>6. CASE detail.peer = NoPeer \/ url \notin Peers
    <3>1. detail' = detail
      BY <2>4, <2>6 DEF Rendered
    <3> QED
      BY <2>3, <2>5, <3>1 DEF PeerView, DetailInv
  <2>7. CASE detail.peer # NoPeer /\ url \in Peers
    <3>1. detail'.peer = detail.peer /\ detail'.shown = detail.peer /\ detail'.rules = rules
      BY <1>s, <2>4, <2>7 DEF Rendered, ViewTypeOK, DetailType
    <3> QED
      BY <2>3, <2>4, <2>5, <2>7, <3>1 DEF PeerView, DetailInv
  <2> QED
    BY <2>6, <2>7
<1>4. ASSUME NEW p \in Peers, AfterFind(s, p) PROVE PeerView'
  <2>1. CASE Succeed(s, Load) /\ detail' = [detail EXCEPT !.peer = p]
             /\ UNCHANGED <<url, link, approve, crossed>>
    <3>1. InFlight(Find(p))
      BY <1>4, <2>1 DEF AfterFind, Succeed, InFlight
    <3>2. \A q \in Peers : InFlight(Find(q))' => InFlight(Find(q))
      BY <2>1, <1>a, AskTypes DEF AsksOnly, FindAsks
    <3>3. FindInv'
      BY <2>1, <3>2 DEF PeerView, FindInv
    <3>4. detail'.peer = p /\ detail'.shown = detail.shown /\ detail'.rules = detail.rules
      BY <1>s, <2>1 DEF ViewTypeOK, DetailType
    <3>5. DetailInv'
      BY <2>1, <3>1, <3>4 DEF PeerView, FindInv, DetailInv
    <3> QED
      BY <3>3, <3>5 DEF PeerView
  <2>2. CASE GoHome
    BY <2>2, PeerViewLeft, NotPeers DEF GoHome
  <2> QED
    BY <1>4, <2>1, <2>2 DEF AfterFind
<1>5. ASSUME NEW c \in Codes, AfterLookup(s, c) PROVE PeerView'
  BY <1>5, <1>k DEF Fail, AfterLookup
<1>6. ASSUME NEW c \in Codes, AfterDecide(s, c) PROVE PeerView'
  BY <1>6, <1>k, PeerViewLeft, NotPeers DEF Fail, AfterDecide
<1> QED
  BY <1>1, <1>2, <1>3, <1>4, <1>5, <1>6 DEF Settle

LEMMA OpenKeepsPeerView ==
    ASSUME TypeOK, Departure
    PROVE  PeerView'
<1>1. PICK u \in Urls, c \in Links :
          /\ Open(u, c)
          /\ \/ call' = FirstCalls(u, c)
             \/ call' = [s \in Slots |-> Unused] /\ u = Home
  BY DocumentIs
<1>2. CASE u \notin Peers
  BY <1>1, <1>2, PeerViewLeft DEF Open
<1>3. CASE u \in Peers
  <2>1. call' = FirstCalls(u, c) /\ FirstAsk(u, c) = Find(u)
    BY <1>1, <1>3, NotPeers, FirstAsks
  <2>2. \A q \in Peers : InFlight(Find(q))' => Find(q) \in {List, Find(u)}
    BY <2>1, DocumentStep, AskTypes
  <2>3. \A q \in Peers : InFlight(Find(q))' => q = u
    BY <2>2, AskNames, OtherNames DEF OtherAsks, FindAsks
  <2> QED
    BY <1>1, <1>3, <2>3, PeerViewFresh DEF Open
<1> QED
  BY <1>2, <1>3

-----------------------------------------------------------------------------
(* The code on display.                                                    *)

\* The code stays, and with it what is asked about it.
LEMMA CodeInvKept ==
    ASSUME CodeInv, approve' = approve,
           "approve" \in crossed' <=> "approve" \in crossed,
           NEW new, new \cap CodeAsks = {}, AsksOnly(new)
    PROVE  CodeInv'
<1>1. \A c \in Codes : /\ InFlight(Lookup(c))' => InFlight(Lookup(c))
                       /\ InFlight(Decide(c))' => InFlight(Decide(c))
  BY AskTypes DEF AsksOnly, CodeAsks
<1> QED
  BY <1>1 DEF CodeInv, Mismatch

\* There is no code to decide.
LEMMA CodeInvBlank == ASSUME approve'.code = NoCode PROVE CodeInv'
BY DEF CodeInv, Mismatch

LEMMA Blank == /\ NoApprove.code = NoCode
               /\ HiddenApprove.code = NoCode
BY DEF NoApprove, HiddenApprove

\* The code is being looked up, and nothing else is in flight.
LEMMA CodeInvAsked ==
    ASSUME NEW c \in Codes, approve'.code = c, approve'.loading = TRUE,
           "approve" \notin crossed' =>
               \A d \in Codes : /\ InFlight(Lookup(d))' => d = c
                                /\ ~ InFlight(Decide(d))'
    PROVE  CodeInv'
BY DEF CodeInv, Mismatch

LEMMA LookupStarts ==
    ASSUME TypeOK, NEW s \in Slots, NEW c \in Codes, NEW ask,
           StartLookup(c, ask), Send(s, ask)
    PROVE  /\ "detail" \in crossed' <=> "detail" \in crossed
           /\ "approve" \notin crossed' =>
                  \A d \in Codes : /\ InFlight(Lookup(d))' => d = c
                                   /\ ~ InFlight(Decide(d))'
<1> DEFINE pending == {Lookup(d) : d \in Codes} \cup {Decide(d) : d \in Codes}
<1>1. ask = Lookup(c) /\ Crossing("approve", pending, ask)
  BY DEF StartLookup
<1>2. AsksOnly({ask})
  BY <1>1, TypeSplits, AskTypes, AskStep
<1>3. "approve" \notin crossed' => \A a \in pending : InFlight(a) => a = ask
  BY <1>1, CrossingTells
<1>4. \A a \in pending : a \in Asks
  BY AskTypes
<1>5. "approve" \notin crossed' => \A a \in pending : InFlight(a)' => a = Lookup(c)
  BY <1>1, <1>2, <1>3, <1>4 DEF AsksOnly
<1>6. "detail" \in crossed' <=> "detail" \in crossed
  BY <1>1, CrossingTells
<1> QED
  BY <1>5, <1>6, AskNames

LEMMA UserKeepsCode ==
    ASSUME TypeOK, CodeInv, User
    PROVE  CodeInv'
<1>s. SessionTypeOK /\ ViewTypeOK
  BY TypeSplits
<1>1. ASSUME NEW u \in Urls, Visit(u) PROVE CodeInv'
  <2>1. PICK s \in Slots, ask \in AllAsks \cup {NoAsk} : Route(u, ask) /\ Send(s, ask)
    BY <1>1 DEF Visit
  <2>2. CASE approve' = HiddenApprove
    BY <2>2, Blank, CodeInvBlank
  <2>3. CASE link # NoCode /\ StartLookup(link, ask)
             /\ approve' = [NoApprove EXCEPT !.code = link, !.loading = TRUE]
    <3>1. link \in Codes
      BY <1>s, <2>3, ViewAssumption DEF ViewTypeOK
    <3>2. approve'.code = link /\ approve'.loading = TRUE
      BY <2>3 DEF NoApprove
    <3> QED
      BY <2>1, <2>3, <3>1, <3>2, LookupStarts, CodeInvAsked
  <2> QED
    BY <2>1, <2>2, <2>3 DEF Route, RouteToPeer, RouteHome, SetCode
<1>2. ASSUME NEW c \in Codes \cup {NoCode}, TypeCode(c) PROVE CodeInv'
  <2>1. ASSUME NEW s \in Slots, c # NoCode, StartLookup(c, Lookup(c)), Send(s, Lookup(c)),
               approve' = [approve EXCEPT !.code = c, !.error = FALSE, !.loading = TRUE]
        PROVE  CodeInv'
    <3>1. approve'.code = c /\ approve'.loading = TRUE
      BY <1>s, <2>1 DEF ViewTypeOK, ApproveType
    <3> QED
      BY <2>1, <3>1, LookupStarts, CodeInvAsked
  <2>2. ASSUME approve' = [approve EXCEPT !.code = NoCode] PROVE CodeInv'
    <3>1. approve'.code = NoCode
      BY <1>s, <2>2 DEF ViewTypeOK, ApproveType
    <3> QED
      BY <3>1, CodeInvBlank
  <2> QED
    BY <1>2, <2>1, <2>2 DEF TypeCode
<1>3. CASE HandleAction
  <2> DEFINE c == approve.code
  <2>1. PICK s \in Slots : /\ CodeShown
                           /\ Send(s, Decide(c))
                           /\ approve' = [approve EXCEPT !.loading = TRUE]
                           /\ UNCHANGED crossed
    BY <1>3 DEF HandleAction
  <2>2. c \in Codes
    BY <1>s, <2>1 DEF CodeShown, HasCode, ViewTypeOK, ApproveType
  <2>3. AsksOnly({Decide(c)})
    BY <1>s, <2>1, <2>2, AskTypes, AskStep
  <2>4. \A d \in Codes : /\ InFlight(Lookup(d))' => InFlight(Lookup(d))
                         /\ InFlight(Decide(d))' => InFlight(Decide(d)) \/ d = c
    BY <2>3, AskTypes, AskNames DEF AsksOnly
  <2>5. approve'.code = c /\ approve'.info = approve.info /\ approve'.error = approve.error
    BY <1>s, <2>1 DEF ViewTypeOK, ApproveType
  <2>6. "approve" \notin crossed => ~ Mismatch
    BY <2>1 DEF CodeInv, CodeShown
  <2>7. Mismatch' <=> Mismatch
    BY <2>5 DEF Mismatch
  <2> QED
    BY <2>1, <2>4, <2>5, <2>6, <2>7 DEF CodeInv
<1>4. CASE ChangePeer
  <2>1. PICK s \in Slots, ask \in {Edit, Drop, Purge} : Send(s, ask) /\ UNCHANGED viewVars
    BY <1>4 DEF ChangePeer
  <2>2. AsksOnly({ask})
    BY <1>s, <2>1, AskTypes, AskStep
  <2>3. {ask} \cap CodeAsks = {}
    BY OtherNames DEF OtherAsks
  <2> QED
    BY <2>1, <2>2, <2>3, CodeInvKept DEF viewVars
<1>5. CASE ToggleCustom
  BY <1>5 DEF ToggleCustom, sessionVars, CodeInv, Mismatch, InFlight
<1> QED
  BY <1>1, <1>2, <1>3, <1>4, <1>5 DEF User

\* The answers.  That of a lookup is about the code at hand.
LEMMA SettleKeepsCode ==
    ASSUME TypeOK, CodeInv, NEW s \in Slots, Settle(s)
    PROVE  CodeInv'
<1>s. SessionTypeOK /\ ViewTypeOK
  BY TypeSplits
<1>a. ASSUME NEW ask \in {List, Load, NoAsk}, Succeed(s, ask) \/ Throw(s, ask)
      PROVE  AsksOnly({ask}) /\ {ask} \cap CodeAsks = {}
  BY <1>s, <1>a, AnswerTyped, OtherNames DEF OtherAsks
<1>k. ASSUME UNCHANGED <<approve, crossed>>,
             NEW ask \in {List, Load, NoAsk}, Succeed(s, ask) \/ Throw(s, ask)
      PROVE  CodeInv'
  BY <1>a, <1>k, CodeInvKept
<1>h. ASSUME GoHome PROVE CodeInv'
  BY <1>h, Blank, CodeInvBlank DEF GoHome, RouteHome
<1>1. CASE AfterList(s) \/ AfterEdit(s) \/ AfterPurge(s)
  BY <1>1, <1>k DEF Fail, AfterList, AfterEdit, AfterPurge, viewVars
<1>2. CASE AfterDrop(s)
  BY <1>2, <1>h, <1>k DEF AfterDrop, viewVars
<1>3. CASE AfterLoad(s)
  BY <1>3, <1>k DEF Fail, AfterLoad
<1>4. ASSUME NEW p \in Peers, AfterFind(s, p) PROVE CodeInv'
  BY <1>4, <1>h, <1>k DEF AfterFind
<1>5. ASSUME NEW c \in Codes, AfterLookup(s, c) PROVE CodeInv'
  <2>1. Succeed(s, NoAsk) \/ Fail(s, NoAsk)
    BY <1>5 DEF AfterLookup
  <2>2. InFlight(Lookup(c)) /\ crossed' = crossed
    BY <1>5 DEF AfterLookup, Fail, Succeed, Throw, InFlight
  <2>3. \A d \in Codes : /\ InFlight(Lookup(d))' => InFlight(Lookup(d))
                         /\ InFlight(Decide(d))' => InFlight(Decide(d))
    BY <2>1, <1>a, AskTypes DEF Fail, AsksOnly, CodeAsks
  <2>4. CASE approve' = NoApprove
    BY <2>4, Blank, CodeInvBlank
  <2>5. ASSUME NEW info \in {c, NoCode},
               approve' = [approve EXCEPT !.info = info, !.loading = FALSE]
        PROVE  CodeInv'
    <3>1. approve'.code = approve.code /\ approve'.info = info
      BY <1>s, <2>5 DEF ViewTypeOK, ApproveType
    <3>2. "approve" \notin crossed => ~ Mismatch'
      BY <2>2, <3>1 DEF CodeInv, Mismatch
    <3> QED
      BY <2>2, <2>3, <3>1, <3>2 DEF CodeInv
  <2>6. CASE approve' = [approve EXCEPT !.error = TRUE, !.loading = FALSE]
    <3>1. approve'.code = approve.code /\ approve'.error = TRUE
      BY <1>s, <2>6 DEF ViewTypeOK, ApproveType
    <3> QED
      BY <2>2, <2>3, <3>1 DEF CodeInv, Mismatch
  <2> QED
    BY <1>5, <2>4, <2>5, <2>6 DEF AfterLookup
<1>6. ASSUME NEW c \in Codes, AfterDecide(s, c) PROVE CodeInv'
  <2>1. CASE approve' = NoApprove
    BY <2>1, Blank, CodeInvBlank
  <2>2. CASE Fail(s, NoAsk) /\ approve' = [approve EXCEPT !.loading = FALSE]
             /\ crossed' = crossed
    <3>1. InFlight(Decide(c))
      BY <1>6, <2>2 DEF AfterDecide, Fail, Succeed, Throw, InFlight
    <3>2. \A d \in Codes : /\ InFlight(Lookup(d))' => InFlight(Lookup(d))
                           /\ InFlight(Decide(d))' => InFlight(Decide(d))
      BY <2>2, <1>a, AskTypes DEF Fail, AsksOnly, CodeAsks
    <3>3. approve'.code = approve.code /\ approve'.info = approve.info
          /\ approve'.error = approve.error
      BY <1>s, <2>2 DEF ViewTypeOK, ApproveType
    <3>4. "approve" \notin crossed => ~ Mismatch
      BY <3>1 DEF CodeInv
    <3>5. Mismatch' <=> Mismatch
      BY <3>3 DEF Mismatch
    <3> QED
      BY <2>2, <3>2, <3>3, <3>4, <3>5 DEF CodeInv
  <2> QED
    BY <1>6, <2>1, <2>2 DEF AfterDecide
<1> QED
  BY <1>1, <1>2, <1>3, <1>4, <1>5, <1>6 DEF Settle

LEMMA OpenKeepsCode ==
    ASSUME TypeOK, Departure
    PROVE  CodeInv'
<1>1. PICK u \in Urls, c \in Links :
          /\ Open(u, c)
          /\ \/ call' = FirstCalls(u, c)
             \/ call' = [s \in Slots |-> Unused] /\ u = Home
  BY DocumentIs
<1>2. CASE u # Verify \/ c = NoCode
  <2>1. approve'.code = NoCode
    BY <1>1, <1>2 DEF Open, NoApprove
  <2> QED
    BY <2>1, CodeInvBlank
<1>3. CASE u = Verify /\ c # NoCode
  <2>1. c \in Codes
    BY <1>3, ViewAssumption
  <2>2. approve'.code = c /\ approve'.loading = TRUE
    BY <1>1, <1>3 DEF Open, NoApprove
  <2>3. call' = FirstCalls(u, c) /\ FirstAsk(u, c) = Lookup(c)
    BY <1>1, <1>3, FirstAsks, ViewAssumption
  <2>4. \A d \in Codes : /\ InFlight(Lookup(d))' => Lookup(d) \in {List, Lookup(c)}
                         /\ InFlight(Decide(d))' => Decide(d) \in {List, Lookup(c)}
    BY <2>3, DocumentStep, AskTypes
  <2>5. \A d \in Codes : (InFlight(Lookup(d))' => d = c) /\ ~ InFlight(Decide(d))'
    BY <2>4, AskNames, OtherNames DEF OtherAsks, CodeAsks
  <2> QED
    BY <2>1, <2>2, <2>5, CodeInvAsked
<1> QED
  BY <1>2, <1>3

-----------------------------------------------------------------------------
(* The invariant, and what follows from it.                                *)

LEMMA InitViews == Init => ViewInv
<1> SUFFICES ASSUME Init PROVE ViewInv
  OBVIOUS
<1>1. \A s \in Slots : call[s].ask \in {List, FirstAsk(url, link), NoAsk}
  BY FirstAsks DEF Init
<1>2. \A a \in Asks : InFlight(a) => a \in {List, FirstAsk(url, link)}
  BY <1>1, AskTypes DEF InFlight
<1>3. FindInv
  <2>1. ASSUME url \in Peers, NEW q \in Peers, InFlight(Find(q)) PROVE q = url
    <3>1. FirstAsk(url, link) = Find(url)
      BY <2>1, FirstAsks DEF Init
    <3>2. Find(q) \in {List, Find(url)}
      BY <1>2, <2>1, <3>1, AskTypes
    <3> QED
      BY <3>2, AskNames, OtherNames DEF OtherAsks, FindAsks
  <2> QED
    BY <2>1 DEF FindInv
<1>4. DetailInv
  BY DEF Init, DetailInv, NoDetail
<1>5. CodeInv
  <2>1. CASE url # Verify \/ link = NoCode
    <3>1. approve.code = NoCode
      BY <2>1 DEF Init, NoApprove
    <3> QED
      BY <3>1 DEF CodeInv, Mismatch
  <2>2. CASE url = Verify /\ link # NoCode
    <3>1. approve.code = link /\ approve.info = NoCode
      BY <2>2 DEF Init, NoApprove
    <3>2. FirstAsk(url, link) = Lookup(link)
      BY <2>2, FirstAsks DEF Init
    <3>3. \A d \in Codes : /\ InFlight(Lookup(d)) => Lookup(d) \in {List, Lookup(link)}
                           /\ InFlight(Decide(d)) => Decide(d) \in {List, Lookup(link)}
      BY <1>2, <3>2, AskTypes
    <3>4. \A d \in Codes : (InFlight(Lookup(d)) => d = link) /\ ~ InFlight(Decide(d))
      BY <3>3, AskNames, OtherNames DEF OtherAsks, CodeAsks
    <3> QED
      BY <3>1, <3>4 DEF CodeInv, Mismatch
  <2> QED
    BY <2>1, <2>2
<1> QED
  BY <1>3, <1>4, <1>5 DEF ViewInv

LEMMA NextViews == TypeOK /\ ViewInv /\ [Next]_vars => ViewInv'
<1> SUFFICES ASSUME TypeOK, ViewInv, [Next]_vars PROVE PeerView' /\ CodeInv'
  BY DEF ViewInv, PeerView
<1>s. SessionTypeOK /\ PeerView /\ CodeInv
  BY TypeSplits DEF ViewInv, PeerView
<1>1. ASSUME NEW s \in Slots, Moves(s) PROVE PeerView' /\ CodeInv'
  <2>1. AsksOnly({}) /\ UNCHANGED viewVars
    BY <1>s, <1>1, MoveStep DEF Moves
  <2>2. {} \cap FindAsks = {} /\ {} \cap CodeAsks = {}
    OBVIOUS
  <2> QED
    BY <1>s, <2>1, <2>2, PeerViewKept, CodeInvKept DEF viewVars
<1>2. ASSUME NEW s \in Slots, Settle(s) PROVE PeerView' /\ CodeInv'
  BY <1>s, <1>2, SettleKeepsPeerView, SettleKeepsCode
<1>3. CASE Departure
  BY <1>3, OpenKeepsPeerView, OpenKeepsCode
<1>4. CASE User
  BY <1>s, <1>4, UserKeepsPeerView, UserKeepsCode
<1>5. CASE Waits
  <2>1. call' = call /\ UNCHANGED viewVars
    BY <1>s, <1>5, WaitStep
  <2> QED
    BY <1>s, <2>1
       DEF viewVars, PeerView, FindInv, DetailInv, CodeInv, Mismatch, InFlight
<1> QED
  BY <1>1, <1>2, <1>3, <1>4, <1>5, StepKinds

\* Unless a view has crossed its questions, what is in flight, and what came
\* of it, belongs to the URL and the code at hand.
THEOREM ViewsKept == Spec => []ViewInv
BY InitTyped, NextTyped, InitViews, NextViews, PTL DEF Spec

\* The page of a peer shows that peer and its rules, whatever was in flight
\* when the user came to it (route of index.html, loadData of peer-detail.js).
THEOREM PagesShowTheirPeers == Spec => []PageShowsItsPeer
<1>1. ViewInv => PageShowsItsPeer
  BY DEF ViewInv, DetailInv, PageShowsItsPeer, PeerShown
<1> QED
  BY <1>1, ViewsKept, PTL

\* Approve and Deny decide the code on display (device-approve.js).
THEOREM ShownCodesAreDecided == Spec => []CodeShownIsDecided
<1>1. ViewInv => CodeShownIsDecided
  BY DEF ViewInv, CodeInv, Mismatch, CodeShownIsDecided, CodeShown, HasCode
<1> QED
  BY <1>1, ViewsKept, PTL

=============================================================================
