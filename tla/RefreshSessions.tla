--------------------------- MODULE RefreshSessions ---------------------------
(***************************************************************************)
(* The refresh_sessions table and the three routes that use it: login,     *)
(* refresh and logout (packages/security/sessions.py,                      *)
(* apps/api/routes/auth.py) at READ COMMITTED.                             *)
(*                                                                         *)
(* A request issues at most one session, so a session, its row and its     *)
(* token are named by the request that issued it.  A request that changes  *)
(* rows answers BEFORE its transaction commits: get_db_session commits     *)
(* when the dependency is torn down, after the response was sent; only the *)
(* revocation of a family is committed before its answer.                  *)
(***************************************************************************)
EXTENDS Naturals, FiniteSets

CONSTANTS
    Request,     \* the requests to these routes
    NoSession    \* a missing cookie, or one that is not a token

ASSUME SessionAssumption == NoSession \notin Request

VARIABLES
    kind,      \* kind[r]: the route of request r
    cookie,    \* cookie[r]: the refresh token it carries
    pc,        \* pc[r]: where its handler is
    row,       \* row[s]: the state of the row of session s
    family,    \* family[s]: its family_id, named by the login
    held,      \* held[r]: the rows r has locked
    left       \* left[r]: the rows its family-wide UPDATE has yet to lock

requestVars == <<kind, cookie, pc>>
rowVars == <<row, family>>
lockVars == <<held, left>>
sessionVars == <<requestVars, rowVars, lockVars>>

Kind == {"none", "login", "refresh", "logout"}
Stage == {"idle", "arrived", "issued", "leaving", "reuse", "revoking",
          "done", "denied", "lost"}

\* "rotated" is used_at and revoked_at set, "revoked" is revoked_at alone;
\* a pending row is inserted and not committed.
RowState == {"none", "pending", "live", "rotated", "revoked"}

Open == {"issued", "leaving", "reuse", "revoking"}

Committed(s) == s \in Request /\ row[s] \in {"live", "rotated", "revoked"}
FamilyOf(s) == {q \in Request : Committed(q) /\ family[q] = family[s]}
Free(r, s) == \A q \in Request \ {r} : s \notin held[q]

SessionInit ==
    /\ kind = [r \in Request |-> "none"]
    /\ cookie = [r \in Request |-> NoSession]
    /\ pc = [r \in Request |-> "idle"]
    /\ row = [r \in Request |-> "none"]
    /\ family = [r \in Request |-> NoSession]
    /\ held = [r \in Request |-> {}]
    /\ left = [r \in Request |-> {}]

---------------------------------------------------------------------------

Goto(r, stage) == pc' = [pc EXCEPT ![r] = stage]

\* The request reaches the service with whatever token its sender has.
Arrive(r, k, c) ==
    /\ pc[r] = "idle"
    /\ Goto(r, "arrived")
    /\ kind' = [kind EXCEPT ![r] = k]
    /\ cookie' = [cookie EXCEPT ![r] = c]
    /\ UNCHANGED <<rowVars, lockVars>>

\* issue_session: a row of family f that nobody else sees before the commit.
Issue(r, f) ==
    /\ row' = [row EXCEPT ![r] = "pending"]
    /\ family' = [family EXCEPT ![r] = f]
    /\ Goto(r, "issued")
    /\ UNCHANGED <<kind, cookie>>

Login(r) ==
    /\ pc[r] = "arrived" /\ kind[r] = "login"
    /\ Issue(r, r)
    /\ UNCHANGED lockVars

\* SELECT ... FOR UPDATE of the presented row: waits for its lock and sees what
\* its last holder committed.
LockPresentedMutant(r) ==   \* a plain SELECT
    /\ pc[r] = "arrived"
    /\ Committed(cookie[r])
    /\ held' = [held EXCEPT ![r] = {cookie[r]}]
    /\ UNCHANGED left
LockPresented(r) ==
    /\ pc[r] = "arrived"
    /\ Committed(cookie[r])
    /\ Free(r, cookie[r])
    /\ held' = [held EXCEPT ![r] = {cookie[r]}]
    /\ UNCHANGED left

\* rotate_session, the session is usable.
RotatableMutant(s) == row[s] \in {"live", "revoked"}   \* asks for used_at only
Rotatable(s) == row[s] = "live"

Rotate(r) ==
    /\ kind[r] = "refresh"
    /\ LockPresented(r)
    /\ Rotatable(cookie[r])
    /\ Issue(r, family[cookie[r]])

\* rotate_session, the session was used or revoked before.
DetectReuse(r) ==
    /\ kind[r] = "refresh"
    /\ LockPresented(r)
    /\ row[cookie[r]] \in {"rotated", "revoked"}
    /\ Goto(r, "reuse")
    /\ UNCHANGED <<kind, cookie, rowVars>>

\* UPDATE ... WHERE family_id: the rows are those committed when it starts.
StartRevocationMutant(r) ==   \* revokes the presented row only
    /\ pc[r] = "reuse"
    /\ left' = [left EXCEPT ![r] = {cookie[r]}]
    /\ Goto(r, "revoking")
    /\ UNCHANGED <<kind, cookie, rowVars, held>>
StartRevocation(r) ==
    /\ pc[r] = "reuse"
    /\ left' = [left EXCEPT ![r] = FamilyOf(cookie[r])]
    /\ Goto(r, "revoking")
    /\ UNCHANGED <<kind, cookie, rowVars, held>>

\* It locks them one after the other and waits for transactions that have one.
LockNext(r, s) ==
    /\ pc[r] = "revoking"
    /\ s \in left[r]
    /\ Free(r, s)
    /\ held' = [held EXCEPT ![r] = held[r] \cup {s}]
    /\ left' = [left EXCEPT ![r] = left[r] \ {s}]
    /\ UNCHANGED <<requestVars, rowVars>>

Release(r) ==
    /\ held' = [held EXCEPT ![r] = {}]
    /\ left' = [left EXCEPT ![r] = {}]

\* The commit of the revocation, before the error is answered.
CommitRevocation(r) ==
    /\ pc[r] = "revoking"
    /\ left[r] = {}
    /\ row' = [s \in Request |-> IF s \in held[r] /\ row[s] = "live"
                                 THEN "revoked" ELSE row[s]]
    /\ Goto(r, "denied")
    /\ Release(r)
    /\ UNCHANGED <<kind, cookie, family>>

\* The commit after the answer: the replacement appears and the old row is used.
CommitIssueMutant(r) ==   \* used_at and revoked_at of the old row are not set
    /\ pc[r] = "issued"
    /\ row' = [row EXCEPT ![r] = "live"]
    /\ Goto(r, "done")
    /\ Release(r)
    /\ UNCHANGED <<kind, cookie, family>>
CommitIssue(r) ==
    /\ pc[r] = "issued"
    /\ row' = [s \in Request |-> CASE s = r -> "live"
                                   [] s \in held[r] -> "rotated"
                                   [] OTHER -> row[s]]
    /\ Goto(r, "done")
    /\ Release(r)
    /\ UNCHANGED <<kind, cookie, family>>

\* revoke_session; without a known token there is nothing to revoke.
Logout(r) ==
    /\ kind[r] = "logout"
    /\ \/ LockPresented(r)
       \/ pc[r] = "arrived" /\ ~Committed(cookie[r]) /\ UNCHANGED lockVars
    /\ Goto(r, "leaving")
    /\ UNCHANGED <<kind, cookie, rowVars>>

CommitLogout(r) ==
    /\ pc[r] = "leaving"
    /\ row' = [s \in Request |-> IF s \in held[r] /\ row[s] = "live"
                                 THEN "revoked" ELSE row[s]]
    /\ Goto(r, "done")
    /\ Release(r)
    /\ UNCHANGED <<kind, cookie, family>>

\* The token is missing or unknown (also: not yet committed), the session has
\* expired or its user is not active, the password is wrong, the database fails.
\* The revoked_at that rotate_session sets before it raises is rolled back.
Refuse(r) ==
    /\ pc[r] = "arrived"
    /\ Goto(r, "denied")
    /\ UNCHANGED <<kind, cookie, rowVars, lockVars>>

\* The transaction does not commit.  A revocation has not been answered yet; the
\* others have.
AbortMutant(r) ==   \* the inserted row stays
    /\ pc[r] \in Open
    /\ Goto(r, IF pc[r] \in {"reuse", "revoking"} THEN "denied" ELSE "lost")
    /\ Release(r)
    /\ UNCHANGED <<kind, cookie, rowVars>>
Abort(r) ==
    /\ pc[r] \in Open
    /\ Goto(r, IF pc[r] \in {"reuse", "revoking"} THEN "denied" ELSE "lost")
    /\ row' = [row EXCEPT ![r] = "none"]
    /\ family' = [family EXCEPT ![r] = NoSession]
    /\ Release(r)
    /\ UNCHANGED <<kind, cookie>>

\* Two revocations of one family wait for each other's rows: PostgreSQL aborts
\* one of them.
Deadlocked(r) ==
    /\ pc[r] = "revoking"
    /\ \E q \in Request \ {r} : /\ pc[q] = "revoking"
                                /\ left[r] \cap held[q] # {}
                                /\ left[q] \cap held[r] # {}

\* What the service does by itself, and what disturbs it.
Serve(r) ==
    \/ Login(r) \/ Rotate(r) \/ DetectReuse(r) \/ Logout(r)
    \/ StartRevocation(r) \/ (\E s \in Request : LockNext(r, s))
    \/ CommitRevocation(r) \/ CommitIssue(r) \/ CommitLogout(r)
    \/ kind[r] = "refresh" /\ ~Committed(cookie[r]) /\ Refuse(r)
    \/ Deadlocked(r) /\ Abort(r)

Disturb(r) == Refuse(r) \/ Abort(r)

SessionNext ==
    \E r \in Request :
        \/ \E k \in Kind \ {"none"}, c \in Request \cup {NoSession} : Arrive(r, k, c)
        \/ Serve(r)
        \/ Disturb(r)

SessionSpec == SessionInit /\ [][SessionNext]_sessionVars

---------------------------------------------------------------------------
(* Correctness. *)

\* Types; a row is pending exactly while its request is, and locks are held only by
\* open transactions.
SessionTypeOK ==
    /\ kind \in [Request -> Kind]
    /\ cookie \in [Request -> Request \cup {NoSession}]
    /\ pc \in [Request -> Stage]
    /\ row \in [Request -> RowState]
    /\ family \in [Request -> Request \cup {NoSession}]
    /\ held \in [Request -> SUBSET Request]
    /\ left \in [Request -> SUBSET Request]
    /\ \A r \in Request :
          /\ row[r] = "pending" <=> pc[r] = "issued"
          /\ row[r] = "none" <=> family[r] = NoSession
          /\ pc[r] \notin Open => held[r] = {} /\ left[r] = {}

\* A family never has two usable sessions, however rotations, replays, logouts
\* and failures of it interleave: two holders of copies of a token can never both
\* keep a session alive.
OneLiveSession ==
    \A s, t \in Request :
        row[s] = "live" /\ row[t] = "live" /\ family[s] = family[t] => s = t

\* No rotation of the family is under way and none of its sessions is usable.
Dead(f) == \A s \in Request : family[s] = f => row[s] \notin {"pending", "live"}

\* A session family that is dead stays dead: no late, repeated or concurrent
\* request brings a usable session back.
DeadFamilyStaysDead ==
    [][\A f \in Request : (\E s \in Request : family[s] = f) /\ Dead(f) => Dead(f)']_sessionVars

\* A logout that finds the usable session of a family ends the family: no rotation
\* that started earlier survives it.  (It finds none if it overtakes the commit of
\* the request that issued the session.)
LogoutEndsFamily ==
    [][\A r \in Request :
          CommitLogout(r) /\ (\E s \in held[r] : row[s] = "live")
              => Dead(family[cookie[r]])']_sessionVars

\* When a reuse was answered, neither the session that replaced the presented one
\* nor any other request that presented it has a usable session: the rotation that
\* consumed the token committed its replacement together with used_at, so the
\* family-wide UPDATE saw it.
ReuseStopsReplacement ==
    [][\A r \in Request :
          CommitRevocation(r) =>
              \A s \in Request : kind[s] = "refresh" /\ cookie[s] = cookie[r]
                                    => row'[s] \notin {"pending", "live"}]_sessionVars

\* "Revoke the entire token family when replay is detected"
\* (docs/adr/0003): after the answer no session of the family is usable.
EntireFamilyRevoked ==
    [][\A r \in Request :
          CommitRevocation(r) =>
              \A s \in Request : family[s] = family[cookie[r]] => row'[s] # "live"]_sessionVars
=============================================================================
