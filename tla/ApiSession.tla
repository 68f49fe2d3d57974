----------------------------- MODULE ApiSession -----------------------------
(***************************************************************************)
(* How the web UI talks to the server: request() of api.js, the loop guard  *)
(* it keeps in sessionStorage, the service worker, and the middleware that  *)
(* answers 401 once the proxy in front of the server names no user.  The    *)
(* page goes to the sign-in page then, at most once, and comes back as a    *)
(* new document.  Requests of one page are in flight together and are       *)
(* answered in any order; what a view does with an answer is in WebViews.   *)
(***************************************************************************)
EXTENDS Naturals

CONSTANTS
    MaxCalls,     \* bound: requests of one page in flight at the same time
    Asks, NoAsk   \* what a request asks for

ASSUME CallAssumption == MaxCalls \in Nat /\ NoAsk \notin Asks

Slots == 1 .. MaxCalls

VARIABLES
    session,      \* whether the proxy passes on a user with each request
    redirected,   \* REDIRECT_GUARD_KEY is set and within its window
    page,         \* the document: open, leaving (assign was called), or away
    call,         \* the requests of the document
    armed         \* observer: no redirect since the last success or rest

sessionVars == <<session, redirected, page, call, armed>>

CallAt == {"free",
           "sent",                    \* on its way to the server
           "served", "refused",       \* passed requireAuth, or met its 401
           "reading",                 \* in handleSessionLost, awaiting the body
           "hung"}                    \* awaiting a promise that never settles
Call == [at : CallAt, ask : Asks \cup {NoAsk}]

Unused == [at |-> "free", ask |-> NoAsk]

\* What follows a request in its slot: another one, or nothing.
Asked(ask) == IF ask = NoAsk THEN Unused ELSE [at |-> "sent", ask |-> ask]

Scripting == page # "away"
InFlight(ask) == \E s \in Slots : call[s].ask = ask /\ call[s].at # "hung"

SessionTypeOK ==
    /\ session \in BOOLEAN
    /\ redirected \in BOOLEAN
    /\ page \in {"open", "leaving", "away"}
    /\ call \in [Slots -> Call]
    /\ armed \in BOOLEAN

-----------------------------------------------------------------------------
\* fetch.
Send(s, ask) ==
    /\ Scripting
    /\ call[s].at = "free"
    /\ call' = [call EXCEPT ![s] = Asked(ask)]
    /\ UNCHANGED <<session, redirected, page, armed>>

\* requireAuth: without a user the request is answered with 401 and does not
\* reach its handler.
Answer(s) ==
    /\ call[s].at = "sent"
    /\ call' = [call EXCEPT ![s].at = IF session THEN "served" ELSE "refused"]
    /\ UNCHANGED <<session, redirected, page, armed>>

SucceedQuietly(s, next) ==
    /\ call[s].at = "served"
    /\ armed' = TRUE
    /\ call' = [call EXCEPT ![s] = Asked(next)]
    /\ UNCHANGED <<session, redirected, page>>

\* A success clears the loop guard, whenever the request was sent.
Succeed(s, next) ==
    /\ call[s].at = "served"
    /\ redirected' = FALSE
    /\ armed' = TRUE
    /\ call' = [call EXCEPT ![s] = Asked(next)]
    /\ UNCHANGED <<session, page>>

\* request() throws: no answer, an error status of the handler, or a lost
\* session that was the reason of a redirect just now.
Throw(s, next) ==
    /\ \/ call[s].at \in {"sent", "served"}
       \/ call[s].at = "refused" /\ redirected
    /\ call' = [call EXCEPT ![s] = Asked(next)]
    /\ UNCHANGED <<session, redirected, page, armed>>

\* A call of api.js throws: its request does, or the body of a success does not
\* parse, by when the guard is cleared; of calls awaited together (loadData) one
\* may fail so after another has succeeded.
Fail(s, next) == Throw(s, next) \/ Succeed(s, next)

\* handleSessionLost up to its await: other answers come in before it goes on.
LoseSession(s) ==
    /\ call[s].at = "refused"
    /\ ~ redirected
    /\ call' = [call EXCEPT ![s].at = "reading"]
    /\ UNCHANGED <<session, redirected, page, armed>>

RedirectUnmarked(s) ==
    /\ call[s].at = "reading"
    /\ armed' = FALSE
    /\ page' = "leaving"
    /\ call' = [call EXCEPT ![s].at = "hung"]
    /\ UNCHANGED <<session, redirected>>

\* The rest of it: markRedirected, location.assign, and a promise for ever.
\* A second assign replaces the first.
Redirect(s) ==
    /\ call[s].at = "reading"
    /\ redirected' = TRUE
    /\ armed' = FALSE
    /\ page' = "leaving"
    /\ call' = [call EXCEPT ![s].at = "hung"]
    /\ UNCHANGED session

\* The document is replaced by one whose requests are `calls`.
NewDocument(calls) ==
    /\ page' = "open"
    /\ call' = calls
    /\ UNCHANGED <<redirected, armed>>

\* The navigation is answered.  The service worker, if it is installed by now
\* and the URL is of the page's own origin, answers it with the cached
\* index.html, whatever its path: it does not reach the proxy.
Cached(calls) ==
    /\ page = "leaving"
    /\ NewDocument(calls)
    /\ UNCHANGED session

\* Otherwise the proxy sends the user to the sign-in page ...
Leave ==
    /\ page = "leaving"
    /\ page' = "away"
    /\ call' = [s \in Slots |-> Unused]
    /\ UNCHANGED <<session, redirected, armed>>

\* ... which sends them back, with a session or without.
SignIn(calls) ==
    /\ page = "away"
    /\ session' = TRUE
    /\ NewDocument(calls)

Bounce(calls) ==
    /\ page = "away"
    /\ NewDocument(calls)
    /\ UNCHANGED session

SessionEnds ==
    /\ session
    /\ session' = FALSE
    /\ UNCHANGED <<redirected, page, call, armed>>

\* REDIRECT_GUARD_WINDOW_MS goes by, at rest or on the way.
WindowPasses ==
    /\ redirected
    /\ redirected' = FALSE
    /\ armed' = TRUE
    /\ UNCHANGED <<session, page, call>>
=============================================================================
