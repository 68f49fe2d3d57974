------------------------------ MODULE WebViews ------------------------------
(***************************************************************************)
(* The views of the web UI on top of ApiSession: the router of index.html,  *)
(* peers-list.js, peer-detail.js and device-approve.js.  Each handler runs  *)
(* up to its await, and goes on when its answer is delivered: by then the   *)
(* user may have moved on to another page, peer or code.                    *)
(***************************************************************************)
EXTENDS ApiSession

CONSTANTS
    Peers,        \* peers the user opens
    Codes,        \* device codes the user opens or types
    Links,        \* codes in a link to /device/verify; NoCode when it has none
    Home, Verify, \* the URLs that are not a peer's
    NoPeer, NoCode

Urls == {Home, Verify} \cup Peers

ASSUME ViewAssumption ==
    /\ MaxCalls >= 2
    /\ Links \subseteq Codes \cup {NoCode} /\ Links # {}
    /\ NoCode \notin Codes /\ NoPeer \notin Peers
    /\ Home # Verify /\ {Home, Verify} \cap Peers = {}

VARIABLES
    url,          \* location
    link,         \* the code in the /device/verify URL of this document
    detail,       \* PeerDetail: this.peer, the peer and the rules on display
    approve,      \* DeviceApprove: code, info, error and loading
    crossed       \* observer: views that had two different questions in flight

vars == <<sessionVars, url, link, detail, approve, crossed>>
viewVars == <<url, link, detail, approve, crossed>>

List      == [what |-> "list", of |-> Home]      \* PeersList.load
Find(p)   == [what |-> "find", of |-> p]         \* route(): fetchPeers
Load      == [what |-> "load", of |-> Home]      \* PeerDetail.loadData
Edit      == [what |-> "edit", of |-> Home]      \* addRule, deleteRule
Drop      == [what |-> "drop", of |-> Home]      \* PeerDetail: deletePeer
Purge     == [what |-> "purge", of |-> Home]     \* PeersList: deletePeer
Lookup(c) == [what |-> "lookup", of |-> c]       \* verifyDeviceCode
Decide(c) == [what |-> "decide", of |-> c]       \* deviceVerifyAction

AllAsks == {List, Load, Edit, Drop, Purge}
    \cup {Find(p) : p \in Peers}
    \cup {Lookup(c) : c \in Codes} \cup {Decide(c) : c \in Codes}

ASSUME AskAssumption == Asks = AllAsks

\* What is on display.  render() follows every change of these fields.
Loading    == url \in Peers /\ detail.shown = NoPeer
PeerShown  == url \in Peers /\ detail.shown # NoPeer
HasCode    == approve.code # NoCode /\ approve.info # NoCode
CodeShown  == url = Verify /\ ~ approve.loading /\ ~ approve.error /\ HasCode
InputShown == url = Verify /\ ~ approve.loading /\ (approve.error \/ ~ HasCode)

NoDetail  == [peer |-> NoPeer, shown |-> NoPeer, rules |-> NoPeer]
NoApprove == [code |-> NoCode, info |-> NoCode, error |-> FALSE,
              loading |-> FALSE]

\* The first free slot: which one a request takes makes no difference.
FreeSlot(s) == call[s].at = "free" /\ \A t \in 1 .. s - 1 : call[t].at # "free"

\* A view asks while its earlier questions `pending` are not answered yet.
Crossing(view, pending, ask) ==
    LET open == {a \in pending : InFlight(a)} IN
    crossed' = IF open \ {ask} # {} THEN crossed \cup {view}
               ELSE IF open = {} THEN crossed \ {view}
               ELSE crossed

-----------------------------------------------------------------------------
(* route() and what the views do at once: the request to send, if any.     *)

\* hideAll.  A hidden view keeps its fields, but sets them anew before it is
\* shown again (showLoading, setCode), all but `loading`: the rest is dropped.
HiddenApprove == [NoApprove EXCEPT !.loading = approve.loading]

\* PeerDetail.showLoading, then fetchPeers.
RouteToPeer(p, ask) ==
    /\ ask = Find(p)
    /\ approve' = HiddenApprove
    /\ Crossing("detail", {Find(q) : q \in Peers}, ask)

\* DeviceApprove.lookup up to its await.
StartLookup(c, ask) ==
    /\ ask = Lookup(c)
    /\ Crossing("approve", {Lookup(d) : d \in Codes} \cup {Decide(d) : d \in Codes},
                ask)

\* DeviceApprove.setCode
SetCode(c, ask) ==
    \/ /\ c # NoCode
       /\ StartLookup(c, ask)
       /\ approve' = [NoApprove EXCEPT !.code = c, !.loading = TRUE]
    \/ /\ c = NoCode
       /\ ask = NoAsk
       /\ approve' = HiddenApprove
       /\ UNCHANGED crossed

RouteHome(ask) ==
    /\ ask = List
    /\ approve' = HiddenApprove
    /\ UNCHANGED crossed

RouteKeepingPeer(u, ask) ==
    /\ url' = u
    /\ detail' = [NoDetail EXCEPT !.peer = detail.peer]
    /\ \/ u \in Peers /\ RouteToPeer(u, ask)
       \/ u = Verify /\ SetCode(link, ask)
       \/ u = Home /\ RouteHome(ask)
    /\ UNCHANGED link

Route(u, ask) ==
    /\ url' = u
    /\ detail' = NoDetail
    /\ \/ u \in Peers /\ RouteToPeer(u, ask)
       \/ u = Verify /\ SetCode(link, ask)
       \/ u = Home /\ RouteHome(ask)
    /\ UNCHANGED link

\* A new document: the list fetches as soon as it is there, and route() runs.
FirstAsk(u, c) ==
    CASE u \in Peers -> Find(u)
      [] u = Verify -> IF c = NoCode THEN NoAsk ELSE Lookup(c)
      [] u = Home -> List

Open(u, c) ==
    /\ url' = u
    /\ link' = c
    /\ detail' = NoDetail
    /\ approve' = IF u = Verify
                  THEN [NoApprove EXCEPT !.code = c, !.loading = c # NoCode]
                  ELSE NoApprove
    /\ crossed' = {}

FirstCalls(u, c) ==
    [s \in Slots |-> IF s = 1 THEN Asked(List)
                     ELSE IF s = 2 THEN Asked(FirstAsk(u, c))
                     ELSE Unused]

Init ==
    /\ session = TRUE /\ redirected = FALSE /\ page = "open" /\ armed = TRUE
    /\ url \in Urls /\ link \in Links
    /\ call = FirstCalls(url, link)
    /\ detail = NoDetail
    /\ approve = IF url = Verify
                 THEN [NoApprove EXCEPT !.code = link, !.loading = link # NoCode]
                 ELSE NoApprove
    /\ crossed = {}

-----------------------------------------------------------------------------
(* The user.                                                               *)

\* A click on a peer or on the title, or history back and forward, a page at a
\* time.  Whatever is in the history may have been visited before: no order is
\* kept.
Visit(u) ==
    \E s \in Slots, ask \in AllAsks \cup {NoAsk} :
        /\ u # url \/ u = Home
        /\ FreeSlot(s)
        /\ Route(u, ask)
        /\ Send(s, ask)

TypeCodeUnchecked(c) ==
    \E s \in Slots :
        /\ InputShown
        /\ FreeSlot(s)
        /\ StartLookup(c, Lookup(c))
        /\ Send(s, Lookup(c))
        /\ approve' = [approve EXCEPT !.code = c, !.error = FALSE,
                                      !.loading = TRUE]
        /\ UNCHANGED <<url, link, detail>>

TypeCodeUnassigned(c) ==
    \E s \in Slots :
        /\ InputShown
        /\ c # NoCode
        /\ FreeSlot(s)
        /\ StartLookup(c, Lookup(c))
        /\ Send(s, Lookup(c))
        /\ approve' = [approve EXCEPT !.error = FALSE, !.loading = TRUE]
        /\ UNCHANGED <<url, link, detail>>

\* A code typed into the form.  An empty one is taken over, not looked up.
TypeCode(c) ==
    /\ InputShown
    /\ \/ \E s \in Slots :
             /\ c # NoCode
             /\ FreeSlot(s)
             /\ StartLookup(c, Lookup(c))
             /\ Send(s, Lookup(c))
             /\ approve' = [approve EXCEPT !.code = c, !.error = FALSE,
                                           !.loading = TRUE]
       \/ /\ c = NoCode
          /\ Scripting
          /\ approve' = [approve EXCEPT !.code = NoCode]
          /\ UNCHANGED <<sessionVars, crossed>>
    /\ UNCHANGED <<url, link, detail>>

\* handleAction: Approve or Deny, for this.code.
HandleAction ==
    \E s \in Slots :
        /\ CodeShown
        /\ FreeSlot(s)
        /\ Send(s, Decide(approve.code))
        /\ approve' = [approve EXCEPT !.loading = TRUE]
        /\ UNCHANGED <<url, link, detail, crossed>>

\* handleAddRule, handleQuickAdd, handleDeleteRule, handleDeletePeer; on the
\* list, handleDelete.
ChangePeer ==
    \E s \in Slots, ask \in {Edit, Drop, Purge} :
        /\ IF ask = Purge THEN url = Home ELSE PeerShown
        /\ FreeSlot(s)
        /\ Send(s, ask)
        /\ UNCHANGED viewVars

\* The custom rule form is opened or closed: render() with the rules at hand.
ToggleCustom ==
    /\ PeerShown /\ Scripting
    /\ detail' = [detail EXCEPT !.shown = detail.peer]
    /\ UNCHANGED <<sessionVars, url, link, approve, crossed>>

-----------------------------------------------------------------------------
(* The continuations: what a view does when its request has succeeded, or   *)
(* has thrown, and what it asks for next.                                   *)

AfterList(s) ==
    /\ call[s].ask = List
    /\ Succeed(s, NoAsk) \/ Fail(s, NoAsk)
    /\ UNCHANGED viewVars

\* navigate('/')
GoHome ==
    /\ url' = Home
    /\ detail' = NoDetail
    /\ RouteHome(List)
    /\ UNCHANGED link

\* setPeer when the peer is among those listed, else the start page.
AfterFind(s, p) ==
    /\ call[s].ask = Find(p)
    /\ \/ /\ Succeed(s, Load)
          /\ detail' = [detail EXCEPT !.peer = p]
          /\ UNCHANGED <<url, link, approve, crossed>>
       \/ /\ Succeed(s, List) \/ Fail(s, List)
          /\ GoHome

\* loadData after its await.  It takes the rules of the peer that is this.peer
\* by now; without one it fails, and render() returns at once.
Rendered(rules) ==
    IF detail.peer = NoPeer \/ url \notin Peers THEN detail
    ELSE [detail EXCEPT !.shown = detail.peer, !.rules = rules]

AfterLoad(s) ==
    /\ call[s].ask = Load
    /\ \/ Succeed(s, NoAsk) /\ detail' = Rendered(detail.peer)
       \/ Fail(s, NoAsk) /\ detail' = Rendered(NoPeer)
    /\ UNCHANGED <<url, link, approve, crossed>>

AfterEdit(s) ==
    /\ call[s].ask = Edit
    /\ Succeed(s, Load) \/ Fail(s, NoAsk)
    /\ UNCHANGED viewVars

\* peer-deleted; nothing when the user is on the page of a peer not found yet,
\* where this.peer.name throws.  (A hidden page may have a peer or none.)
AfterDrop(s) ==
    /\ call[s].ask = Drop
    /\ \/ /\ url \in Peers => detail.peer # NoPeer
          /\ Succeed(s, List) /\ GoHome
       \/ /\ url \in Peers => detail.peer = NoPeer
          /\ Succeed(s, NoAsk) /\ UNCHANGED viewVars
       \/ Throw(s, NoAsk) /\ UNCHANGED viewVars

\* The list is loaded again.
AfterPurge(s) ==
    /\ call[s].ask = Purge
    /\ Succeed(s, List) \/ Throw(s, NoAsk)
    /\ UNCHANGED viewVars

AfterLookupStillLoading(s, c) ==
    /\ call[s].ask = Lookup(c)
    /\ \/ /\ Succeed(s, NoAsk)
          /\ \E info \in {c, NoCode} :
                approve' = IF url = Verify
                           THEN [approve EXCEPT !.info = info, !.loading = FALSE]
                           ELSE NoApprove
       \/ /\ Fail(s, NoAsk)
          /\ approve' = IF url = Verify THEN [approve EXCEPT !.error = TRUE]
                        ELSE approve
    /\ UNCHANGED <<url, link, detail, crossed>>

\* A code that was decided meanwhile comes with that status, and is not shown.
AfterLookup(s, c) ==
    /\ call[s].ask = Lookup(c)
    /\ \/ /\ Succeed(s, NoAsk)
          /\ \E info \in {c, NoCode} :
                approve' = IF url = Verify
                           THEN [approve EXCEPT !.info = info, !.loading = FALSE]
                           ELSE NoApprove
       \/ /\ Fail(s, NoAsk)
          /\ approve' = IF url = Verify
                        THEN [approve EXCEPT !.error = TRUE, !.loading = FALSE]
                        ELSE NoApprove
    /\ UNCHANGED <<url, link, detail, crossed>>

\* navigate-back, and in either case no longer loading.
AfterDecide(s, c) ==
    /\ call[s].ask = Decide(c)
    /\ \/ /\ Succeed(s, List)
          /\ url' = Home
          /\ detail' = NoDetail
          /\ approve' = NoApprove
       \/ /\ Fail(s, NoAsk)
          /\ approve' = [approve EXCEPT !.loading = FALSE]
          /\ UNCHANGED <<url, detail>>
    /\ UNCHANGED <<link, crossed>>

Settle(s) ==
    \/ AfterList(s) \/ AfterLoad(s) \/ AfterEdit(s)
    \/ AfterDrop(s) \/ AfterPurge(s)
    \/ \E p \in Peers : AfterFind(s, p)
    \/ \E c \in Codes : AfterLookup(s, c) \/ AfterDecide(s, c)

Deliver(s) == Settle(s) \/ (LoseSession(s) /\ UNCHANGED viewVars)

-----------------------------------------------------------------------------
User ==
    \/ \E u \in Urls : Visit(u)
    \/ \E c \in Codes \cup {NoCode} : TypeCode(c)
    \/ HandleAction \/ ChangePeer \/ ToggleCustom

\* Another document comes: by the worker at the URL of the page, or at the
\* start page for the path of auth_redirect_url; by the proxy at any.
Return ==
    \/ \E u \in {url, Home} : Open(u, link) /\ Cached(FirstCalls(u, link))
    \/ \E u \in Urls, c \in Links : Open(u, c) /\ Bounce(FirstCalls(u, c))

UserSignsIn == \E u \in Urls, c \in Links : Open(u, c) /\ SignIn(FirstCalls(u, c))

Departs == Leave /\ Open(Home, link)

\* What comes with time: no one does it.
Passing == (SessionEnds \/ WindowPasses) /\ UNCHANGED viewVars

Next ==
    \/ \E s \in Slots : \/ (Answer(s) \/ Redirect(s)) /\ UNCHANGED viewVars
                        \/ Deliver(s)
    \/ Return \/ Departs
    \/ User \/ UserSignsIn \/ Passing

Spec == Init /\ [][Next]_vars

\* The browser and the server do their part; nothing is asked of people, nor
\* that the sign-in page ever sends them back.
Fairness ==
    /\ \A s \in Slots :
          /\ WF_vars(Answer(s) /\ UNCHANGED viewVars)
          /\ WF_vars(Redirect(s) /\ UNCHANGED viewVars)
          /\ WF_vars(Deliver(s))
    /\ WF_vars(page = "leaving" /\ (Departs \/ Return))

FairSpec == Spec /\ Fairness

-----------------------------------------------------------------------------
TypeOK ==
    /\ SessionTypeOK
    /\ url \in Urls
    /\ link \in Links
    /\ detail \in [peer : Peers \cup {NoPeer}, shown : Peers \cup {NoPeer},
                   rules : Peers \cup {NoPeer}]
    /\ approve \in [code : Codes \cup {NoCode}, info : Codes \cup {NoCode},
                    error : BOOLEAN, loading : BOOLEAN]
    /\ crossed \subseteq {"detail", "approve"}

\* The peer page of a URL shows that peer and its rules, and changes go to it,
\* whatever was still in flight when the user came to it, except when the
\* lookup of another peer was (then the later answer wins).
PageShowsItsPeer ==
    (PeerShown /\ "detail" \notin crossed) =>
        /\ detail.peer = url
        /\ detail.shown = url
        /\ detail.rules \in {url, NoPeer}

\* Approve and Deny go to the code on display, except when a second code was
\* looked up before the first lookup was answered.
CodeShownIsDecided ==
    (CodeShown /\ "approve" \notin crossed) => approve.code = approve.info

\* The inductive invariant behind the two: unless a view has crossed questions,
\* the lookups in flight are of the peer of the URL ...
FindInv ==
    (url \in Peers /\ "detail" \notin crossed) =>
        \A q \in Peers : InFlight(Find(q)) => q = url

\* ... and so is what came of the earlier ones;
DetailInv ==
    (url \in Peers /\ "detail" \notin crossed) =>
        /\ detail.peer \in {url, NoPeer}
        /\ detail.shown # NoPeer =>
               /\ detail.peer = url
               /\ detail.shown = url
               /\ detail.rules \in {url, NoPeer}

\* the requests in flight are about the code at hand, and as long as the code
\* that was looked up is another one the view is loading, and not to decide.
Mismatch ==
    /\ approve.code # NoCode /\ approve.info # NoCode
    /\ approve.code # approve.info
    /\ ~ approve.error

CodeInv ==
    "approve" \notin crossed =>
        /\ approve.code # NoCode =>
               \A c \in Codes : (InFlight(Lookup(c)) \/ InFlight(Decide(c))) =>
                   c = approve.code
        /\ Mismatch => approve.loading /\ \A c \in Codes : ~ InFlight(Decide(c))

ViewInv == FindInv /\ DetailInv /\ CodeInv

\* No view stays at "Loading..." for ever: it comes to show something, or is
\* left, by the user or with the document.
SpinnersEnd ==
    /\ \A p \in Peers :
          (url = p /\ Loading) ~> ~ (url = p /\ Loading) \/ page # "open"
    /\ approve.loading ~> ~ approve.loading \/ page # "open"

\* The page does not reload for ever (REDIRECT_GUARD_KEY), whatever the user
\* clicks: one that leaves again and again has lost a session each time, or the
\* window of the guard has passed each time.
ReloadsEnd ==
    []<><<page = "leaving" /\ page' # "leaving">>_vars
        => []<><<Passing>>_vars

\* A request that meets a lost session, when none did since the last success,
\* makes the page go and sign in: an earlier redirect does not keep it from it.
LostSessionRedirects ==
    (armed /\ \E s \in Slots : call[s].at = "refused") ~> page # "open"

\* api.js, handleSessionLost: the request of the reload is intercepted by the
\* proxy, and the user bounced to the sign-in page.
LostSessionReachesSignIn ==
    (page = "leaving") ~> (page = "away")
=============================================================================
