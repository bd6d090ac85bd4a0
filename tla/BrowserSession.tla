---------------------------- MODULE BrowserSession ----------------------------
(***************************************************************************)
(* The web client (apps/web/src/api.ts, auth.tsx) in the pages of one      *)
(* browser, against the session service.  The pages share the cookie; each *)
(* has its own access token (currentAuth) and its own shared refresh       *)
(* (refreshPromise).  Answers arrive in any order, and may be lost.  The   *)
(* browser changes the cookie when the headers of an answer arrive; the    *)
(* page has the access token only when it has read the body.               *)
(***************************************************************************)
EXTENDS RefreshSessions

CONSTANTS
    Page,        \* the pages (tabs) of the browser
    MaxSent,     \* bound: MaxSent[k] is how many requests of kind k are sent
    MaxEvents    \* bound: requests sent and faults (lost answers, abandoned pages,
                 \* failures of the service) together

\* Requests are numbered in the order they are sent.
ASSUME BrowserAssumption ==
    /\ Request \subseteq Nat
    /\ MaxSent \in [Kind \ {"none"} -> Nat]
    /\ MaxEvents \in Nat

Home == CHOOSE p \in Page : TRUE

VARIABLES
    jar,         \* the refresh cookie of the browser
    signedIn,    \* signedIn[p]: currentAuth is set
    promise,     \* promise[p]: the refresh that refreshPromise stands for
    sender,      \* sender[r]: the page that sent r
    opened,      \* the requests granted whose answer's headers have come
    received,    \* the requests whose answer the page has
    vanished,    \* the requests whose answer the page will not have
    faults       \* how many faults there were

pageVars == <<signedIn, promise>>
browserVars == <<jar, pageVars, sender, opened, received, vanished, faults>>
clientVars == <<sessionVars, browserVars>>

BrowserInit ==
    /\ SessionInit
    /\ jar = NoSession
    /\ signedIn = [p \in Page |-> FALSE]
    /\ promise = [p \in Page |-> NoSession]
    /\ sender = [r \in Request |-> Home]
    /\ opened = {}
    /\ received = {}
    /\ vanished = {}
    /\ faults = 0

Event == Cardinality({r \in Request : kind[r] # "none"}) + faults < MaxEvents
Fault == Event /\ faults' = faults + 1

---------------------------------------------------------------------------

\* fetch with credentials: the request carries the cookie of this moment.
Send(p, r, k) ==
    /\ Event
    /\ \A q \in Request : q < r => pc[q] # "idle"
    /\ Cardinality({q \in Request : kind[q] = k}) < MaxSent[k]
    /\ Arrive(r, k, jar)
    /\ sender' = [sender EXCEPT ![r] = p]
    /\ UNCHANGED <<jar, opened, received, vanished, faults>>

\* refreshSession, when the page is opened or a request is answered 401: a refresh
\* that is under way is shared.
RefreshMutant(p, r) ==   \* every caller starts its own
    /\ Send(p, r, "refresh")
    /\ promise' = [promise EXCEPT ![p] = r]
    /\ UNCHANGED signedIn
StartRefresh(p, r) ==
    /\ promise[p] = NoSession
    /\ Send(p, r, "refresh")
    /\ promise' = [promise EXCEPT ![p] = r]
    /\ UNCHANGED signedIn

\* The sign-in and sign-out forms of a page.
SignIn(p, r) ==
    /\ ~signedIn[p]
    /\ Send(p, r, "login")
    /\ UNCHANGED pageVars

SignOut(p, r) ==
    /\ signedIn[p]
    /\ Send(p, r, "logout")
    /\ UNCHANGED pageVars

\* The page was left and opened again: what it waited for will not be stored.
Waiting(r) == pc[r] # "idle" /\ r \notin received \cup vanished
Reload(p) ==
    /\ vanished' = vanished \cup {r \in Request : Waiting(r) /\ sender[r] = p}
    /\ Fault
    /\ signedIn[p] \/ promise[p] # NoSession
    /\ signedIn' = [signedIn EXCEPT ![p] = FALSE]
    /\ promise' = [promise EXCEPT ![p] = NoSession]
    /\ UNCHANGED <<sessionVars, jar, sender, opened, received>>

---------------------------------------------------------------------------

\* The shared refresh is over, and so is what currentAuth was.
PublishMutant(r, auth) ==   \* a failed refresh stays the shared one
    /\ signedIn' = [signedIn EXCEPT ![sender[r]] = auth]
    /\ promise' = [promise EXCEPT ![sender[r]] = IF @ = r /\ auth THEN NoSession ELSE @]
Publish(r, auth) ==
    /\ signedIn' = [signedIn EXCEPT ![sender[r]] = auth]
    /\ promise' = [promise EXCEPT ![sender[r]] = IF @ = r THEN NoSession ELSE @]

\* A success sets the cookie or, after a logout, deletes it.  An answer to a logout
\* has no body.
Granted == {"issued", "leaving", "done", "lost"}
ReceiveHeaders(r) ==
    /\ Waiting(r) /\ r \notin opened
    /\ pc[r] \in Granted
    /\ opened' = opened \cup {r}
    /\ IF kind[r] = "logout"
       THEN jar' = NoSession /\ received' = received \cup {r} /\ Publish(r, FALSE)
       ELSE jar' = r /\ UNCHANGED <<received, pageVars>>
    /\ UNCHANGED <<sessionVars, sender, vanished, faults>>

\* response.json() of a login or refresh: the page has its access token.
ReceiveBody(r) ==
    /\ Waiting(r) /\ r \in opened
    /\ received' = received \cup {r}
    /\ Publish(r, TRUE)
    /\ UNCHANGED <<sessionVars, jar, sender, opened, vanished, faults>>

\* An error leaves the cookie as it is.  A refresh or logout signs the page out, a
\* failed login shows its message.
ReceiveError(r) ==
    /\ Waiting(r)
    /\ pc[r] = "denied"
    /\ received' = received \cup {r}
    /\ Publish(r, IF kind[r] = "login" THEN signedIn[sender[r]] ELSE FALSE)
    /\ UNCHANGED <<sessionVars, jar, sender, opened, vanished, faults>>

\* The connection breaks before the headers or before the body: fetch or
\* response.json() rejects, whatever the service does or has done.
Disconnect(r) ==
    /\ Waiting(r)
    /\ Fault
    /\ vanished' = vanished \cup {r}
    /\ Publish(r, IF kind[r] = "login" THEN signedIn[sender[r]] ELSE FALSE)
    /\ UNCHANGED <<sessionVars, jar, sender, opened, received>>

\* A step of the service.
Service ==
    /\ \E r \in Request : \/ Serve(r) /\ UNCHANGED faults
                          \/ Disturb(r) /\ Fault
    /\ UNCHANGED <<jar, pageVars, sender, opened, received, vanished>>

BrowserNext ==
    \/ \E p \in Page : \/ \E r \in Request : \/ StartRefresh(p, r)
                                             \/ SignIn(p, r)
                                             \/ SignOut(p, r)
                       \/ Reload(p)
    \/ \E r \in Request : \/ ReceiveHeaders(r) \/ ReceiveBody(r)
                          \/ ReceiveError(r) \/ Disconnect(r)
    \/ Service

BrowserSpec == BrowserInit /\ [][BrowserNext]_clientVars

\* The service goes on, and answers reach the browser.  As the requests of a run are
\* finitely many this is weak fairness for each of them.
Progress ==
    \E r \in Request : \/ Serve(r) /\ UNCHANGED browserVars
                       \/ ReceiveHeaders(r) \/ ReceiveBody(r) \/ ReceiveError(r)
FairBrowserSpec == BrowserSpec /\ WF_clientVars(Progress)

---------------------------------------------------------------------------
(* Correctness. *)

\* The browser presents tokens only as the service allows for anyway.
UsesSessionsProperly == SessionSpec

\* q ended the session s: it signed out with its token, or was answered a reuse in
\* its family.
RevokedBy(q, s) ==
    \/ kind[q] = "logout" /\ pc[q] = "done" /\ cookie[q] = s
    \/ /\ kind[q] = "refresh" /\ pc[q] = "denied"
       /\ Committed(cookie[q]) /\ family[cookie[q]] = family[s]

\* A family is revoked for a reuse only with a cause.  If the token was exchanged
\* before, another page of the browser presented it, or an answer was given up: the
\* callers within a page never do this to each other, they share one refresh, and the
\* next one starts with the cookie the last one brought, although its answer may
\* overtake its commit.  If its session was revoked, somebody signed out with it (the
\* page itself, maybe, while its refresh was under way), or its family had a reuse
\* before.
ReuseHasCause ==
    \A r \in Request :
        pc[r] \in {"reuse", "revoking"} =>
            \E q \in Request \ {r} :
                IF row[cookie[r]] = "revoked"
                THEN RevokedBy(q, cookie[r])
                ELSE /\ cookie[q] = cookie[r]
                     /\ sender[q] # sender[r] \/ {q, r} \cap vanished # {}

\* A page never waits for ever for its shared refresh: the request it stands for ends
\* even if it meets locks of other requests, two revocations that wait for each other
\* included.
PromiseSettles == \A p \in Page : promise[p] # NoSession ~> promise[p] = NoSession
=============================================================================
