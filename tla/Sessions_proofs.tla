--------------------------- MODULE Sessions_proofs ---------------------------
(***************************************************************************)
(* The session service, for every set of requests: types, at most one      *)
(* usable session in a family, and what a reuse, a logout and a dead       *)
(* family guarantee.  Then the browser: it uses the service as anybody     *)
(* may, so all of this holds of it together with the client.               *)
(***************************************************************************)
EXTENDS BrowserSession, TLAPS

---------------------------------------------------------------------------
(* The session service. *)

\* Row locks are taken on committed rows, which stay, and exclude each other.
LocksApart ==
    \A r \in Request :
        /\ \A s \in held[r] \cup left[r] : row[s] \in {"live", "rotated", "revoked"}
        /\ \A q \in Request : held[q] \cap held[r] # {} => q = r

\* What an open request has locked and, for a rotation, found.
RotationHolds ==
    \A r \in Request :
        /\ pc[r] = "issued" /\ kind[r] = "refresh" =>
              /\ cookie[r] \in Request
              /\ held[r] = {cookie[r]}
              /\ row[cookie[r]] = "live"
        /\ pc[r] = "leaving" => kind[r] = "logout" /\ held[r] \subseteq {cookie[r]}
        /\ pc[r] \in {"reuse", "revoking"} =>
              /\ kind[r] = "refresh"
              /\ cookie[r] \in held[r]
              /\ row[r] = "none"
        /\ row[r] # "none" => kind[r] \in {"login", "refresh"}

\* A family is named by a login; a session issued by a refresh is in the family of
\* the session it replaces.
FamilyLine ==
    \A s \in Request : row[s] # "none" =>
        /\ pc[s] \in {"issued", "done"}
        /\ pc[family[s]] \notin {"idle", "arrived"}
        /\ kind[s] = "login" => family[s] = s
        /\ kind[s] = "refresh" => /\ Committed(cookie[s])
                                  /\ family[s] = family[cookie[s]]

\* While the login of a family is not committed there is nothing else in it.
RootFirst ==
    \A r, s \in Request :
        row[r] = "pending" /\ kind[r] = "login" /\ family[s] = r => s = r

\* A family-wide UPDATE reaches the replacement of the presented session.
RevocationCovers ==
    \A r, s \in Request :
        /\ pc[r] = "revoking"
        /\ kind[s] = "refresh" /\ cookie[s] = cookie[r]
        /\ Committed(s)
        => s \in held[r] \cup left[r]

SInv == /\ SessionTypeOK /\ OneLiveSession
        /\ LocksApart /\ RotationHolds /\ FamilyLine /\ RootFirst /\ RevocationCovers

---------------------------------------------------------------------------
(* One lemma per action. *)

\* A request with any token disturbs nothing.
LEMMA ArriveKeeps ==
  ASSUME SInv, NEW r \in Request, NEW k \in Kind \ {"none"},
         NEW c \in Request \cup {NoSession}, Arrive(r, k, c)
  PROVE  SInv'
<1> USE SessionAssumption
    DEF SInv, Kind, Stage, RowState, Open, Committed, Goto, Free,
        requestVars, rowVars, lockVars, Arrive
<1>1. SessionTypeOK'
  BY DEF SessionTypeOK
<1>2. OneLiveSession'
  BY DEF OneLiveSession
<1>3. LocksApart'
  BY DEF LocksApart
<1>4. RotationHolds'
  BY DEF RotationHolds, FamilyLine
<1>5. FamilyLine'
  BY DEF FamilyLine
<1>6. RootFirst'
  BY DEF FamilyLine, RootFirst
<1>7. RevocationCovers'
  BY DEF FamilyLine, RevocationCovers
<1>8. QED
  BY <1>1, <1>2, <1>3, <1>4, <1>5, <1>6, <1>7

\* A login starts a family of its own.
LEMMA LoginKeeps ==
  ASSUME SInv, NEW r \in Request, Login(r)
  PROVE  SInv'
<1> USE SessionAssumption
    DEF SInv, Kind, Stage, RowState, Open, Committed, Goto, Free,
        requestVars, rowVars, lockVars, Login, Issue
<1>1. SessionTypeOK'
  BY DEF SessionTypeOK
<1>2. OneLiveSession'
  BY DEF OneLiveSession, FamilyLine
<1>3. LocksApart'
  BY DEF LocksApart, FamilyLine
<1>4. RotationHolds'
  BY DEF RotationHolds, FamilyLine
<1>5. FamilyLine'
  BY DEF SessionTypeOK, FamilyLine
<1>6. RootFirst'
  BY DEF SessionTypeOK, FamilyLine, RootFirst
<1>7. RevocationCovers'
  BY DEF RevocationCovers
<1>8. QED
  BY <1>1, <1>2, <1>3, <1>4, <1>5, <1>6, <1>7

\* A rotation issues a session only while it holds the usable one.
LEMMA RotateKeeps ==
  ASSUME SInv, NEW r \in Request, Rotate(r)
  PROVE  SInv'
<1> USE SessionAssumption
    DEF SInv, Kind, Stage, RowState, Open, Committed, Goto, Free,
        requestVars, rowVars, lockVars, Rotate, LockPresented, Rotatable, Issue
<1>1. SessionTypeOK'
  BY DEF SessionTypeOK
<1>2. OneLiveSession'
  BY DEF OneLiveSession, FamilyLine
<1>3. LocksApart'
  BY DEF LocksApart, FamilyLine
<1>4. RotationHolds'
  BY DEF SessionTypeOK, RotationHolds, FamilyLine
<1>5. FamilyLine'
  BY DEF SessionTypeOK, FamilyLine
<1>6. RootFirst'
  BY DEF RootFirst
<1>7. RevocationCovers'
  BY DEF RevocationCovers
<1>8. QED
  BY <1>1, <1>2, <1>3, <1>4, <1>5, <1>6, <1>7

\* A reuse locks a row that was used or revoked.
LEMMA DetectReuseKeeps ==
  ASSUME SInv, NEW r \in Request, DetectReuse(r)
  PROVE  SInv'
<1> USE SessionAssumption
    DEF SInv, Kind, Stage, RowState, Open, Committed, Goto, Free,
        requestVars, rowVars, lockVars, DetectReuse, LockPresented
<1>1. SessionTypeOK'
  BY DEF SessionTypeOK
<1>2. OneLiveSession'
  BY DEF OneLiveSession
<1>3. LocksApart'
  BY DEF LocksApart
<1>4. RotationHolds'
  BY DEF SessionTypeOK, RotationHolds, FamilyLine
<1>5. FamilyLine'
  BY DEF FamilyLine
<1>6. RootFirst'
  BY DEF RootFirst
<1>7. RevocationCovers'
  BY DEF RevocationCovers
<1>8. QED
  BY <1>1, <1>2, <1>3, <1>4, <1>5, <1>6, <1>7

\* The snapshot of the UPDATE covers what is committed.
LEMMA StartRevocationKeeps ==
  ASSUME SInv, NEW r \in Request, StartRevocation(r)
  PROVE  SInv'
<1> USE SessionAssumption
    DEF SInv, Kind, Stage, RowState, Open, Committed, Goto, Free,
        requestVars, rowVars, lockVars, StartRevocation, FamilyOf
<1>1. SessionTypeOK'
  BY DEF SessionTypeOK
<1>2. OneLiveSession'
  BY DEF OneLiveSession
<1>3. LocksApart'
  BY DEF LocksApart
<1>4. RotationHolds'
  BY DEF RotationHolds
<1>5. FamilyLine'
  BY DEF FamilyLine
<1>6. RootFirst'
  BY DEF RootFirst
<1>7. RevocationCovers'
  BY DEF SessionTypeOK, FamilyLine, RevocationCovers
<1>8. QED
  BY <1>1, <1>2, <1>3, <1>4, <1>5, <1>6, <1>7

\* The UPDATE takes one more row.
LEMMA LockNextKeeps ==
  ASSUME SInv, NEW r \in Request, NEW t \in Request, LockNext(r, t)
  PROVE  SInv'
<1> USE SessionAssumption
    DEF SInv, Kind, Stage, RowState, Open, Committed, Goto, Free,
        requestVars, rowVars, lockVars, LockNext
<1>1. SessionTypeOK'
  BY DEF SessionTypeOK
<1>2. OneLiveSession'
  BY DEF OneLiveSession
<1>3. LocksApart'
  BY DEF LocksApart
<1>4. RotationHolds'
  BY DEF RotationHolds
<1>5. FamilyLine'
  BY DEF FamilyLine
<1>6. RootFirst'
  BY DEF RootFirst
<1>7. RevocationCovers'
  BY DEF SessionTypeOK, RevocationCovers
<1>8. QED
  BY <1>1, <1>2, <1>3, <1>4, <1>5, <1>6, <1>7

\* A revocation only takes sessions away.
LEMMA CommitRevocationKeeps ==
  ASSUME SInv, NEW r \in Request, CommitRevocation(r)
  PROVE  SInv'
<1> USE SessionAssumption
    DEF SInv, Kind, Stage, RowState, Open, Committed, Goto, Free,
        requestVars, rowVars, lockVars, CommitRevocation, Release
<1>1. SessionTypeOK'
  BY DEF SessionTypeOK
<1>2. OneLiveSession'
  BY DEF OneLiveSession
<1>3. LocksApart'
  BY DEF SessionTypeOK, LocksApart
<1>4. RotationHolds'
  BY DEF SessionTypeOK, LocksApart, RotationHolds
<1>5. FamilyLine'
  BY DEF FamilyLine
<1>6. RootFirst'
  BY DEF RootFirst
<1>7. RevocationCovers'
  BY DEF SessionTypeOK, RevocationCovers
<1>8. QED
  BY <1>1, <1>2, <1>3, <1>4, <1>5, <1>6, <1>7

\* A replacement becomes usable as its predecessor ceases to be.
LEMMA CommitIssueKeeps ==
  ASSUME SInv, NEW r \in Request, CommitIssue(r)
  PROVE  SInv'
<1> USE SessionAssumption
    DEF SInv, Kind, Stage, RowState, Open, Committed, Goto, Free,
        requestVars, rowVars, lockVars, CommitIssue, Release
<1>1. SessionTypeOK'
  BY DEF SessionTypeOK, LocksApart
<1>2. OneLiveSession'
  BY DEF SessionTypeOK, OneLiveSession, RotationHolds, FamilyLine, RootFirst
<1>3. LocksApart'
  BY DEF SessionTypeOK, LocksApart
<1>4. RotationHolds'
  BY DEF SessionTypeOK, LocksApart, RotationHolds
<1>5. FamilyLine'
  BY DEF SessionTypeOK, LocksApart, FamilyLine
<1>6. RootFirst'
  BY DEF RootFirst
<1>7. RevocationCovers'
  BY DEF LocksApart, RotationHolds, RevocationCovers
<1>8. QED
  BY <1>1, <1>2, <1>3, <1>4, <1>5, <1>6, <1>7

\* A logout locks the row it presents, if there is one.
LEMMA LogoutKeeps ==
  ASSUME SInv, NEW r \in Request, Logout(r)
  PROVE  SInv'
<1> USE SessionAssumption
    DEF SInv, Kind, Stage, RowState, Open, Committed, Goto, Free,
        requestVars, rowVars, lockVars, Logout, LockPresented
<1>1. SessionTypeOK'
  BY DEF SessionTypeOK
<1>2. OneLiveSession'
  BY DEF OneLiveSession
<1>3. LocksApart'
  BY DEF SessionTypeOK, LocksApart
<1>4. RotationHolds'
  BY DEF SessionTypeOK, RotationHolds
<1>5. FamilyLine'
  BY DEF FamilyLine
<1>6. RootFirst'
  BY DEF RootFirst
<1>7. RevocationCovers'
  BY DEF SessionTypeOK, RevocationCovers
<1>8. QED
  BY <1>1, <1>2, <1>3, <1>4, <1>5, <1>6, <1>7

\* A logout only takes a session away.
LEMMA CommitLogoutKeeps ==
  ASSUME SInv, NEW r \in Request, CommitLogout(r)
  PROVE  SInv'
<1> USE SessionAssumption
    DEF SInv, Kind, Stage, RowState, Open, Committed, Goto, Free,
        requestVars, rowVars, lockVars, CommitLogout, Release
<1>1. SessionTypeOK'
  BY DEF SessionTypeOK
<1>2. OneLiveSession'
  BY DEF OneLiveSession
<1>3. LocksApart'
  BY DEF SessionTypeOK, LocksApart
<1>4. RotationHolds'
  BY DEF LocksApart, RotationHolds
<1>5. FamilyLine'
  BY DEF FamilyLine
<1>6. RootFirst'
  BY DEF RootFirst
<1>7. RevocationCovers'
  BY DEF RevocationCovers
<1>8. QED
  BY <1>1, <1>2, <1>3, <1>4, <1>5, <1>6, <1>7

\* A refused request changes no row.
LEMMA RefuseKeeps ==
  ASSUME SInv, NEW r \in Request, Refuse(r)
  PROVE  SInv'
<1> USE SessionAssumption
    DEF SInv, Kind, Stage, RowState, Open, Committed, Goto, Free,
        requestVars, rowVars, lockVars, Refuse
<1>1. SessionTypeOK'
  BY DEF SessionTypeOK
<1>2. OneLiveSession'
  BY DEF OneLiveSession
<1>3. LocksApart'
  BY DEF LocksApart
<1>4. RotationHolds'
  BY DEF RotationHolds
<1>5. FamilyLine'
  BY DEF FamilyLine
<1>6. RootFirst'
  BY DEF RootFirst
<1>7. RevocationCovers'
  BY DEF RevocationCovers
<1>8. QED
  BY <1>1, <1>2, <1>3, <1>4, <1>5, <1>6, <1>7

\* A transaction that does not commit takes its row with it.
LEMMA AbortKeeps ==
  ASSUME SInv, NEW r \in Request, Abort(r)
  PROVE  SInv'
<1> USE SessionAssumption
    DEF SInv, Kind, Stage, RowState, Open, Committed, Goto, Free,
        requestVars, rowVars, lockVars, Abort, Release
<1>1. SessionTypeOK'
  BY DEF SessionTypeOK
<1>2. OneLiveSession'
  BY DEF SessionTypeOK, OneLiveSession
<1>3. LocksApart'
  BY DEF SessionTypeOK, LocksApart, FamilyLine
<1>4. RotationHolds'
  BY DEF SessionTypeOK, RotationHolds, FamilyLine
<1>5. FamilyLine'
  BY DEF SessionTypeOK, FamilyLine
<1>6. RootFirst'
  BY DEF RootFirst
<1>7. RevocationCovers'
  BY DEF SessionTypeOK, RevocationCovers
<1>8. QED
  BY <1>1, <1>2, <1>3, <1>4, <1>5, <1>6, <1>7

---------------------------------------------------------------------------

\* There is no session at the start.
LEMMA InitSInv == SessionInit => SInv
BY SessionAssumption
   DEF SessionInit, SInv, SessionTypeOK, OneLiveSession, LocksApart, RotationHolds,
       FamilyLine, RootFirst, RevocationCovers, Kind, Stage, RowState, Open, Committed

\* Every step keeps the invariant.
LEMMA StepSInv == SInv /\ [SessionNext]_sessionVars => SInv'
<1> SUFFICES ASSUME SInv, [SessionNext]_sessionVars PROVE SInv'
  OBVIOUS
<1>1. CASE UNCHANGED sessionVars
  BY <1>1 DEF sessionVars, requestVars, rowVars, lockVars, SInv, SessionTypeOK,
              OneLiveSession, LocksApart, RotationHolds, FamilyLine, RootFirst,
              RevocationCovers, Committed
<1>2. CASE SessionNext
  <2>1. PICK r \in Request :
          \/ \E k \in Kind \ {"none"}, c \in Request \cup {NoSession} : Arrive(r, k, c)
          \/ Serve(r)
          \/ Disturb(r)
    BY <1>2 DEF SessionNext
  <2>2. CASE \E k \in Kind \ {"none"}, c \in Request \cup {NoSession} : Arrive(r, k, c)
    BY <2>2, ArriveKeeps
  <2>3. CASE Serve(r)
    BY <2>3, LoginKeeps, RotateKeeps, DetectReuseKeeps, LogoutKeeps, StartRevocationKeeps,
       LockNextKeeps, CommitRevocationKeeps, CommitIssueKeeps, CommitLogoutKeeps,
       RefuseKeeps, AbortKeeps
       DEF Serve
  <2>4. CASE Disturb(r)
    BY <2>4, RefuseKeeps, AbortKeeps DEF Disturb
  <2>5. QED
    BY <2>1, <2>2, <2>3, <2>4
<1>3. QED
  BY <1>1, <1>2

\* The invariant of the session table.
THEOREM SInvCorrect == SessionSpec => []SInv
BY InitSInv, StepSInv, PTL DEF SessionSpec

\* Rows, requests and locks keep their types, and pending rows belong to open requests.
THEOREM SessionTypeCorrect == SessionSpec => []SessionTypeOK
BY SInvCorrect, PTL DEF SInv

\* No interleaving of rotations, replays, logouts and failures gives a family two usable
\* sessions.
THEOREM OneLiveSessionCorrect == SessionSpec => []OneLiveSession
BY SInvCorrect, PTL DEF SInv

---------------------------------------------------------------------------
(* What a step may never do. *)

\* A dead family stays dead: a session is issued only in exchange for a usable one of
\* the same family, or by the login that names the family.
THEOREM DeadFamilyCorrect == SessionSpec => DeadFamilyStaysDead
<1> DEFINE Stays(f) == (\E s \in Request : family[s] = f) /\ Dead(f) => Dead(f)'
<1>1. SInv /\ [SessionNext]_sessionVars => \A f \in Request : Stays(f)
  <2> SUFFICES ASSUME SInv, [SessionNext]_sessionVars, NEW f \in Request,
                      NEW s0 \in Request, family[s0] = f, Dead(f)
               PROVE  Dead(f)'
    OBVIOUS
  <2> USE SessionAssumption DEF SInv, Dead, Goto, rowVars
  <2>1. CASE UNCHANGED sessionVars
    BY <2>1 DEF sessionVars
  <2>2. ASSUME NEW r \in Request, NEW k \in Kind \ {"none"},
               NEW c \in Request \cup {NoSession}, Arrive(r, k, c)
        PROVE  Dead(f)'
    BY <2>2 DEF Arrive
  <2>3. ASSUME NEW r \in Request, Login(r) PROVE Dead(f)'
    BY <2>3 DEF Login, Issue, SessionTypeOK, FamilyLine
  <2>4. ASSUME NEW r \in Request, Rotate(r) PROVE Dead(f)'
    BY <2>4 DEF Rotate, LockPresented, Committed, Rotatable, Issue, SessionTypeOK
  <2>5. ASSUME NEW r \in Request, CommitIssue(r) PROVE Dead(f)'
    BY <2>5 DEF CommitIssue, SessionTypeOK
  <2>6. ASSUME NEW r \in Request, CommitRevocation(r) \/ CommitLogout(r) PROVE Dead(f)'
    BY <2>6 DEF CommitRevocation, CommitLogout, SessionTypeOK
  <2>7. ASSUME NEW r \in Request, Abort(r) PROVE Dead(f)'
    BY <2>7 DEF Abort, SessionTypeOK
  <2>8. ASSUME NEW r \in Request,
               \/ DetectReuse(r) \/ StartRevocation(r) \/ Logout(r) \/ Refuse(r)
               \/ \E s \in Request : LockNext(r, s)
        PROVE  Dead(f)'
    BY <2>8 DEF DetectReuse, StartRevocation, Logout, Refuse, LockNext
  <2>9. QED
    BY <2>1, <2>2, <2>3, <2>4, <2>5, <2>6, <2>7, <2>8 DEF SessionNext, Serve, Disturb
<1>2. QED
  BY <1>1, SInvCorrect, PTL DEF SessionSpec, DeadFamilyStaysDead

\* A logout that holds the usable session holds the only one there is, and no rotation
\* of the family can be under way, as it would hold that row too.
THEOREM LogoutCorrect == SessionSpec => LogoutEndsFamily
<1> DEFINE Ends(r) == CommitLogout(r) /\ (\E s \in held[r] : row[s] = "live")
                         => Dead(family[cookie[r]])'
<1>1. SInv => \A r \in Request : Ends(r)
  <2> SUFFICES ASSUME SInv, NEW r \in Request, CommitLogout(r),
                      NEW s \in held[r], row[s] = "live",
                      NEW t \in Request, family[t] = family[s]
               PROVE  s = cookie[r] /\ row'[t] \notin {"pending", "live"}
    BY DEF Dead, CommitLogout, SInv, RotationHolds
  <2>1. s \in Request /\ s = cookie[r] /\ held[r] = {s}
    BY DEF SInv, SessionTypeOK, RotationHolds, CommitLogout
  <2>2. row[t] = "live" => t = s
    BY <2>1 DEF SInv, OneLiveSession
  <2>3. row[t] # "pending"
    <3>1. SUFFICES ASSUME row[t] = "pending" PROVE FALSE
      OBVIOUS
    <3>2. pc[t] = "issued" /\ kind[t] \in {"login", "refresh"} /\ t # s
      BY <3>1 DEF SInv, SessionTypeOK, RotationHolds
    <3>3. CASE kind[t] = "login"
      BY <3>1, <3>2, <3>3, <2>1 DEF SInv, FamilyLine, RootFirst
    <3>4. CASE kind[t] = "refresh"
      <4>1. cookie[t] \in Request /\ cookie[t] \in held[t] /\ row[cookie[t]] = "live"
        BY <3>2, <3>4 DEF SInv, RotationHolds
      <4>2. family[t] = family[cookie[t]]
        BY <3>1, <3>4 DEF SInv, FamilyLine
      <4>3. cookie[t] = s
        BY <4>1, <4>2, <2>1 DEF SInv, OneLiveSession
      <4>4. t = r
        BY <4>1, <4>3, <2>1 DEF SInv, LocksApart
      <4>5. QED
        BY <4>4, <3>2 DEF CommitLogout
    <3>5. QED
      BY <3>2, <3>3, <3>4
  <2>4. QED
    BY <2>1, <2>2, <2>3 DEF CommitLogout, SInv, SessionTypeOK
<1>2. QED
  BY <1>1, SInvCorrect, PTL DEF SessionSpec, LogoutEndsFamily

\* An answered reuse leaves no session that was issued for the presented token.
THEOREM ReuseCorrect == SessionSpec => ReuseStopsReplacement
<1> DEFINE Stops(r) == CommitRevocation(r) =>
                         \A s \in Request : kind[s] = "refresh" /\ cookie[s] = cookie[r]
                                               => row'[s] \notin {"pending", "live"}
<1>1. SInv => \A r \in Request : Stops(r)
  <2> SUFFICES ASSUME SInv, NEW r \in Request, CommitRevocation(r), NEW s \in Request,
                      kind[s] = "refresh", cookie[s] = cookie[r]
               PROVE  row'[s] \notin {"pending", "live"}
    OBVIOUS
  <2>1. cookie[r] \in held[r] /\ left[r] = {}
    BY DEF SInv, RotationHolds, CommitRevocation
  <2>2. row[s] # "pending"
    <3>1. SUFFICES ASSUME row[s] = "pending" PROVE FALSE
      OBVIOUS
    <3>2. pc[s] = "issued" /\ cookie[s] \in held[s]
      BY <3>1 DEF SInv, SessionTypeOK, RotationHolds
    <3>3. s = r
      BY <3>2, <2>1 DEF SInv, LocksApart
    <3>4. QED
      BY <3>2, <3>3 DEF CommitRevocation
  <2>3. row[s] = "live" => s \in held[r]
    BY <2>1 DEF SInv, RevocationCovers, Committed, CommitRevocation
  <2>4. QED
    BY <2>2, <2>3 DEF CommitRevocation, SInv, SessionTypeOK
<1>2. QED
  BY <1>1, SInvCorrect, PTL DEF SessionSpec, ReuseStopsReplacement

---------------------------------------------------------------------------
(* The browser. *)

LEMMA SendIsArrival ==
    ASSUME NEW p \in Page, NEW r \in Request, NEW k \in Kind \ {"none"}, Send(p, r, k),
           jar \in Request \cup {NoSession}
    PROVE  SessionNext
BY DEF Send, SessionNext

\* The jar only ever holds tokens the service issued.
LEMMA JarKept ==
    ASSUME jar \in Request \cup {NoSession}, [BrowserNext]_clientVars
    PROVE  jar' \in Request \cup {NoSession}
<1>1. ASSUME NEW p \in Page, NEW r \in Request, NEW k \in Kind, Send(p, r, k)
      PROVE  jar' = jar
  BY <1>1 DEF Send
<1>2. CASE \E p \in Page, r \in Request : StartRefresh(p, r) \/ SignIn(p, r) \/ SignOut(p, r)
  BY <1>1, <1>2 DEF StartRefresh, SignIn, SignOut, Kind
<1>3. CASE \E r \in Request : ReceiveHeaders(r)
  BY <1>3 DEF ReceiveHeaders
<1>4. CASE \/ \E p \in Page : Reload(p)
           \/ \E r \in Request : ReceiveBody(r) \/ ReceiveError(r) \/ Disconnect(r)
           \/ Service
  BY <1>4 DEF Reload, ReceiveBody, ReceiveError, Disconnect, Service
<1>5. CASE UNCHANGED clientVars
  BY <1>5 DEF clientVars, browserVars
<1>6. QED
  BY <1>2, <1>3, <1>4, <1>5 DEF BrowserNext

LEMMA StepIsServiceStep ==
    ASSUME jar \in Request \cup {NoSession}, [BrowserNext]_clientVars
    PROVE  [SessionNext]_sessionVars
<1>1. CASE \E p \in Page, r \in Request : StartRefresh(p, r) \/ SignIn(p, r) \/ SignOut(p, r)
  BY <1>1, SendIsArrival DEF StartRefresh, SignIn, SignOut, Kind
<1>2. CASE \/ \E p \in Page : Reload(p)
           \/ \E r \in Request : \/ ReceiveHeaders(r) \/ ReceiveBody(r)
                                 \/ ReceiveError(r) \/ Disconnect(r)
  BY <1>2 DEF Reload, ReceiveHeaders, ReceiveBody, ReceiveError, Disconnect
<1>3. CASE Service
  BY <1>3 DEF Service, SessionNext
<1>4. CASE UNCHANGED clientVars
  BY <1>4 DEF clientVars
<1>5. QED
  BY <1>1, <1>2, <1>3, <1>4 DEF BrowserNext

\* Every step of the browser and the service together is a step of the service, or
\* leaves it alone.
THEOREM BrowserUsesSessions == BrowserSpec => UsesSessionsProperly
<1> DEFINE JarOK == jar \in Request \cup {NoSession}
<1>1. BrowserInit => SessionInit /\ JarOK
  BY DEF BrowserInit
<1>2. JarOK /\ [BrowserNext]_clientVars => JarOK' /\ [SessionNext]_sessionVars
  BY JarKept, StepIsServiceStep
<1> HIDE DEF JarOK
<1>3. QED
  BY <1>1, <1>2, PTL DEF BrowserSpec, UsesSessionsProperly, SessionSpec

\* So do the guarantees of a logout, a reuse and a dead family.
THEOREM BrowserKeepsFamilies ==
    BrowserSpec => DeadFamilyStaysDead /\ LogoutEndsFamily /\ ReuseStopsReplacement
BY BrowserUsesSessions, DeadFamilyCorrect, LogoutCorrect, ReuseCorrect, PTL
   DEF UsesSessionsProperly

\* However the pages of the browser race, a family has one usable session.
THEOREM BrowserOneLiveSession == BrowserSpec => []OneLiveSession
BY BrowserUsesSessions, OneLiveSessionCorrect, PTL DEF UsesSessionsProperly

---------------------------------------------------------------------------
(* What the pages of one browser do to each other.  *)

\* The client's variables keep their types; a request that was sent has a kind and
\* the page that sent it, and only such a request is answered or given up.
ClientTypeOK ==
    /\ jar \in Request \cup {NoSession}
    /\ signedIn \in [Page -> BOOLEAN]
    /\ promise \in [Page -> Request \cup {NoSession}]
    /\ sender \in [Request -> Page \cup {Home}]
    /\ opened \in SUBSET Request /\ received \in SUBSET Request /\ vanished \in SUBSET Request
    /\ \A r \in Request : IF pc[r] = "idle" THEN kind[r] = "none" ELSE sender[r] \in Page
    /\ \A r \in opened \cup received \cup vanished : pc[r] # "idle"

\* An answer that the browser has was given: the handler will not find a reuse any more.
AnswersFinal ==
    /\ \A r \in opened : pc[r] \in Granted
    /\ \A r \in received : r \in opened \/ pc[r] = "denied"

\* A token is in the jar, and is sent, only after the answer that set it.
CookiesReceived ==
    /\ jar \in Request => jar \in opened
    /\ \A r \in Request : cookie[r] \in Request => cookie[r] \in opened

\* Once a request was granted, the token it presented has left the jar for good: the
\* answer that set it cannot come a second time.
ExchangedLeft ==
    \A r \in opened : cookie[r] \in Request => jar # cookie[r]

\* A refresh that waits for its answer is the one its page shares.
OneWaits ==
    \A r \in Request : kind[r] = "refresh" /\ Waiting(r) => promise[sender[r]] = r

\* Of two refreshes of one page with the same token, one was refused, or given up.
SamePageRefused ==
    \A q, r \in Request :
        /\ q # r
        /\ kind[q] = "refresh" /\ kind[r] = "refresh"
        /\ cookie[q] \in Request /\ cookie[q] = cookie[r]
        /\ sender[q] = sender[r]
        /\ {q, r} \cap vanished = {}
        => "denied" \in {pc[q], pc[r]}

\* A rotated session was exchanged by a refresh that committed; a login locks no row.
RotatedBy ==
    /\ \A s \in Request : row[s] = "rotated" =>
          \E q \in Request : kind[q] = "refresh" /\ cookie[q] = s /\ pc[q] = "done"
    /\ \A r \in Request : pc[r] = "issued" /\ kind[r] = "login" => held[r] = {}

\* A reuse is found on a row that is rotated or revoked, and stays so while the request
\* has it locked; the rows it revokes are those of the presented session's family.
ReuseLocks ==
    \A r \in Request : pc[r] \in {"reuse", "revoking"} =>
        /\ row[cookie[r]] \in {"rotated", "revoked"}
        /\ \A s \in held[r] \cup left[r] : family[s] = family[cookie[r]]

\* A session was revoked for a sign-out with its token or for a reuse in its family.
RevokedFor ==
    \A s \in Request : row[s] = "revoked" => \E q \in Request : RevokedBy(q, s)

ClientInv == /\ ClientTypeOK
             /\ AnswersFinal /\ CookiesReceived /\ ExchangedLeft
             /\ OneWaits /\ SamePageRefused /\ RotatedBy
             /\ ReuseLocks /\ RevokedFor
CInv == SInv /\ ClientInv

\* What the handlers may do to the requests.
Handled(r) ==
    /\ pc[r] = "idle" <=> pc'[r] = "idle"
    /\ pc[r] \in Granted => pc'[r] \in Granted
    /\ pc[r] \in {"denied", "done"} => pc'[r] = pc[r]

\* A step of the service keeps what was sent, what was answered, and who rotated what.
LEMMA ServiceStep ==
    ASSUME SInv, RotatedBy, NEW r \in Request, Serve(r) \/ Disturb(r)
    PROVE  /\ UNCHANGED <<kind, cookie>>
           /\ \A q \in Request : Handled(q)
           /\ RotatedBy'
<1> DEFINE Goal == /\ UNCHANGED <<kind, cookie>>
                   /\ \A q \in Request : Handled(q)
                   /\ RotatedBy'
<1> USE SessionAssumption DEF SInv, SessionTypeOK, Stage, RowState, Kind, Handled, Granted, Goto
<1>1. CASE Login(r)
  BY <1>1 DEF Login, Issue, RotatedBy, lockVars, Open
<1>2. CASE Rotate(r)
  BY <1>2 DEF Rotate, Issue, LockPresented, RotatedBy
<1>3. CASE DetectReuse(r)
  BY <1>3 DEF DetectReuse, LockPresented, RotatedBy, rowVars
<1>4. CASE Logout(r)
  BY <1>4 DEF Logout, LockPresented, RotatedBy, rowVars, lockVars
<1>5. CASE StartRevocation(r)
  BY <1>5 DEF StartRevocation, RotatedBy, rowVars
<1>6. ASSUME NEW s \in Request, LockNext(r, s) PROVE Goal
  BY <1>6 DEF LockNext, RotatedBy, requestVars, rowVars
<1>7. CASE CommitRevocation(r)
  BY <1>7 DEF CommitRevocation, Release, RotatedBy
<1>8. CASE CommitIssue(r)
  <2>1. kind[r] = "refresh" => held[r] = {cookie[r]}
    BY <1>8 DEF CommitIssue, RotationHolds
  <2>2. kind[r] \in {"login", "refresh"}
    BY <1>8 DEF CommitIssue, RotationHolds
  <2>3. kind[r] = "login" => held[r] = {}
    BY <1>8 DEF CommitIssue, RotatedBy
  <2>4. UNCHANGED <<kind, cookie>> /\ \A q \in Request : Handled(q)
    BY <1>8 DEF CommitIssue
  <2>5. RotatedBy'
    BY <1>8, <2>1, <2>2, <2>3 DEF CommitIssue, Release, RotatedBy
  <2>6. QED
    BY <2>4, <2>5
<1>9. CASE CommitLogout(r)
  BY <1>9 DEF CommitLogout, Release, RotatedBy
<1>10. CASE Refuse(r)
  BY <1>10 DEF Refuse, RotatedBy, rowVars, lockVars
<1>11. CASE Abort(r)
  BY <1>11 DEF Abort, Release, RotatedBy, Open
<1>12. QED
  BY <1>1, <1>2, <1>3, <1>4, <1>5, <1>6, <1>7, <1>8, <1>9, <1>10, <1>11 DEF Serve, Disturb

\* A step of the service leaves committed rows in their families, revokes rows only
\* for a cause, and keeps what is known of the rows a revocation has locked.
RowsStay == \A t \in Request : Committed(t) => Committed(t)' /\ family'[t] = family[t]
RevokesFor(r) == \A s \in Request : row'[s] = "revoked" => row[s] = "revoked" \/ RevokedBy(r, s)'

LEMMA ServiceRows ==
    ASSUME SInv, ReuseLocks, NEW r \in Request, Serve(r) \/ Disturb(r)
    PROVE  RowsStay /\ RevokesFor(r) /\ ReuseLocks'
<1> DEFINE Goal == RowsStay /\ RevokesFor(r) /\ ReuseLocks'
<1> USE SessionAssumption
    DEF SInv, SessionTypeOK, Stage, RowState, Kind, Goto, Committed, RowsStay, RevokesFor
<1>1. CASE Login(r) \/ Rotate(r)
  <2>1. row[r] = "none" /\ pc[r] = "arrived"
    BY <1>1 DEF Login, Rotate, LockPresented, FamilyLine
  <2>2. /\ row' = [row EXCEPT ![r] = "pending"]
        /\ pc' = [pc EXCEPT ![r] = "issued"]
        /\ \A t \in Request \ {r} : family'[t] = family[t]
        /\ UNCHANGED <<cookie, left>>
        /\ \A q \in Request \ {r} : held'[q] = held[q]
    BY <1>1 DEF Login, Rotate, LockPresented, Issue, lockVars
  <2>3. RowsStay /\ RevokesFor(r)
    BY <2>1, <2>2
  <2>4. ReuseLocks'
    <3> SUFFICES ASSUME NEW q \in Request, pc'[q] \in {"reuse", "revoking"}
                 PROVE  /\ row'[cookie'[q]] \in {"rotated", "revoked"}
                        /\ \A s \in (held[q] \cup left[q])' : family'[s] = family'[cookie'[q]]
      BY DEF ReuseLocks
    <3>1. q # r /\ pc[q] = pc'[q]
      BY <2>2
    <3>2. /\ row[cookie[q]] \in {"rotated", "revoked"}
          /\ \A s \in held[q] \cup left[q] : family[s] = family[cookie[q]]
      BY <3>1 DEF ReuseLocks
    <3>3. cookie[q] \in Request /\ cookie[q] # r
      BY <2>1, <3>1, <3>2 DEF RotationHolds
    <3>4. \A s \in held[q] \cup left[q] : s \in Request /\ s # r
      BY <2>1 DEF LocksApart
    <3>5. QED
      BY <2>2, <3>1, <3>2, <3>3, <3>4
  <2>5. QED
    BY <2>3, <2>4
<1>2. CASE DetectReuse(r)
  <2>1. RowsStay /\ RevokesFor(r)
    BY <1>2 DEF DetectReuse, rowVars
  <2>2. ReuseLocks'
    <3>1. left[r] = {}
      BY <1>2 DEF DetectReuse, LockPresented, Open
    <3>2. QED
      BY <1>2, <3>1 DEF DetectReuse, LockPresented, rowVars, ReuseLocks
  <2>3. QED
    BY <2>1, <2>2
<1>3. CASE Logout(r)
  BY <1>3 DEF Logout, LockPresented, rowVars, lockVars, ReuseLocks
<1>4. CASE StartRevocation(r)
  BY <1>4 DEF StartRevocation, rowVars, FamilyOf, ReuseLocks
<1>5. ASSUME NEW s \in Request, LockNext(r, s) PROVE Goal
  BY <1>5 DEF LockNext, requestVars, rowVars, ReuseLocks
<1>6. CASE CommitRevocation(r)
  <2>1. Committed(cookie[r]) /\ kind[r] = "refresh"
    BY <1>6 DEF CommitRevocation, ReuseLocks, RotationHolds
  <2>2. RowsStay
    BY <1>6 DEF CommitRevocation
  <2>3. RevokesFor(r)
    BY <1>6, <2>1, <2>2 DEF CommitRevocation, RevokedBy, ReuseLocks
  <2>4. ReuseLocks'
    BY <1>6 DEF CommitRevocation, Release, ReuseLocks, RotationHolds
  <2>5. QED
    BY <2>2, <2>3, <2>4
<1>7. CASE CommitIssue(r)
  <2>1. RowsStay /\ RevokesFor(r)
    BY <1>7 DEF CommitIssue, LocksApart
  <2>2. ReuseLocks'
    <3> SUFFICES ASSUME NEW q \in Request, pc'[q] \in {"reuse", "revoking"}
                 PROVE  /\ row'[cookie'[q]] \in {"rotated", "revoked"}
                        /\ \A s \in (held[q] \cup left[q])' : family'[s] = family'[cookie'[q]]
      BY DEF ReuseLocks
    <3>1. q # r /\ pc[q] = pc'[q] /\ held'[q] = held[q] /\ left'[q] = left[q]
      BY <1>7 DEF CommitIssue, Release
    <3>2. /\ row[cookie[q]] \in {"rotated", "revoked"}
          /\ \A s \in held[q] \cup left[q] : family[s] = family[cookie[q]]
      BY <3>1 DEF ReuseLocks
    <3>3. cookie[q] \in held[q]
      BY <3>1 DEF RotationHolds
    <3>4. cookie[q] \in Request /\ cookie[q] \notin held[r] /\ row[r] = "pending"
      BY <1>7, <3>1, <3>3 DEF LocksApart, CommitIssue
    <3>5. QED
      BY <1>7, <3>1, <3>2, <3>4 DEF CommitIssue
  <2>3. QED
    BY <2>1, <2>2
<1>8. CASE CommitLogout(r)
  <2>1. RowsStay
    BY <1>8 DEF CommitLogout
  <2>2. RevokesFor(r)
    <3>1. kind[r] = "logout"
      BY <1>8 DEF CommitLogout, RotationHolds
    <3>2. QED
      BY <1>8, <3>1 DEF CommitLogout, RotationHolds, RevokedBy
  <2>3. ReuseLocks'
    BY <1>8 DEF CommitLogout, Release, ReuseLocks, RotationHolds
  <2>4. QED
    BY <2>1, <2>2, <2>3
<1>9. CASE Refuse(r)
  BY <1>9 DEF Refuse, rowVars, lockVars, ReuseLocks
<1>10. CASE Abort(r)
  <2>1. row[r] \in {"none", "pending"}
    BY <1>10 DEF Abort, Open, RotationHolds, FamilyLine
  <2>2. RowsStay /\ RevokesFor(r)
    BY <1>10, <2>1 DEF Abort
  <2>3. ReuseLocks'
    <3> SUFFICES ASSUME NEW q \in Request, pc'[q] \in {"reuse", "revoking"}
                 PROVE  /\ row'[cookie'[q]] \in {"rotated", "revoked"}
                        /\ \A s \in (held[q] \cup left[q])' : family'[s] = family'[cookie'[q]]
      BY DEF ReuseLocks
    <3>1. q # r /\ pc[q] = pc'[q] /\ held'[q] = held[q] /\ left'[q] = left[q]
      BY <1>10 DEF Abort, Release
    <3>2. /\ row[cookie[q]] \in {"rotated", "revoked"}
          /\ \A s \in held[q] \cup left[q] : family[s] = family[cookie[q]]
      BY <3>1 DEF ReuseLocks
    <3>3. cookie[q] \in Request /\ cookie[q] # r
      BY <2>1, <3>1, <3>2 DEF RotationHolds
    <3>4. \A s \in held[q] \cup left[q] : s \in Request /\ s # r
      BY <2>1 DEF LocksApart
    <3>5. QED
      BY <1>10, <3>1, <3>2, <3>3, <3>4 DEF Abort
  <2>4. QED
    BY <2>2, <2>3
<1>11. QED
  BY <1>1, <1>2, <1>3, <1>4, <1>5, <1>6, <1>7, <1>8, <1>9, <1>10 DEF Serve, Disturb

\* So the causes stay, and there are new ones for the rows it revokes.
LEMMA ServiceRevokes ==
    ASSUME SInv, RotatedBy, ReuseLocks, RevokedFor, NEW r \in Request, Serve(r) \/ Disturb(r)
    PROVE  RevokedFor'
<1>1. /\ UNCHANGED <<kind, cookie>>
      /\ \A q \in Request : Handled(q)
      /\ RowsStay /\ RevokesFor(r)
  BY ServiceStep, ServiceRows
<1> SUFFICES ASSUME NEW s \in Request, row'[s] = "revoked"
             PROVE  \E q \in Request : RevokedBy(q, s)'
  BY DEF RevokedFor
<1>2. CASE row[s] = "revoked"
  <2>1. PICK q \in Request : RevokedBy(q, s)
    BY <1>2 DEF RevokedFor
  <2>2. pc[q] \in {"denied", "done"} /\ pc'[q] = pc[q]
    BY <1>1, <2>1 DEF RevokedBy, Handled
  <2>3. family'[s] = family[s]
    BY <1>1, <1>2 DEF RowsStay, Committed
  <2>4. Committed(cookie[q]) =>
            Committed(cookie[q])' /\ family'[cookie[q]] = family[cookie[q]]
    BY <1>1 DEF RowsStay, Committed
  <2>5. RevokedBy(q, s)'
    BY <1>1, <2>1, <2>2, <2>3, <2>4 DEF RevokedBy
  <2>6. QED
    BY <2>5
<1>3. CASE row[s] # "revoked"
  BY <1>1, <1>3 DEF RevokesFor
<1>4. QED
  BY <1>2, <1>3

\* The service answers nobody twice and changes nothing of the client.
LEMMA ServiceKeeps ==
    ASSUME CInv, Service
    PROVE  ClientInv'
<1>1. /\ UNCHANGED <<kind, cookie>>
      /\ \A q \in Request : Handled(q)
      /\ RotatedBy'
  BY ServiceStep DEF Service, CInv, ClientInv
<1>2. UNCHANGED <<jar, signedIn, promise, sender, received, vanished>>
  BY DEF Service, pageVars
<1>r. UNCHANGED opened /\ ReuseLocks' /\ RevokedFor'
  BY ServiceRows, ServiceRevokes DEF Service, CInv, ClientInv
<1>3. ClientTypeOK' /\ AnswersFinal' /\ CookiesReceived'
  BY <1>1, <1>2, <1>r DEF CInv, ClientInv, ClientTypeOK, AnswersFinal, CookiesReceived, Handled
<1>4. ExchangedLeft' /\ OneWaits' /\ SamePageRefused'
  BY <1>1, <1>2, <1>r DEF CInv, ClientInv, ClientTypeOK, ExchangedLeft, OneWaits,
     SamePageRefused, Waiting, Handled
<1>5. QED
  BY <1>1, <1>r, <1>3, <1>4 DEF ClientInv

\* A page sends a refresh only when it waits for none: if an earlier one carried the
\* same token and was granted, that token would have left the jar.
LEMMA SendKeeps ==
    ASSUME CInv, NEW p \in Page, NEW r \in Request,
           \/ StartRefresh(p, r)
           \/ SignIn(p, r)
           \/ SignOut(p, r)
    PROVE  ClientInv'
<1> USE SessionAssumption DEF CInv, ClientInv, ClientTypeOK
<1>1. PICK k \in {"login", "refresh", "logout"} :
          /\ Arrive(r, k, jar)
          /\ sender' = [sender EXCEPT ![r] = p]
          /\ UNCHANGED <<jar, opened, received, vanished, signedIn>>
          /\ k = "refresh" => /\ promise[p] = NoSession
                              /\ promise' = [promise EXCEPT ![p] = r]
          /\ k # "refresh" => promise' = promise
  BY DEF StartRefresh, SignIn, SignOut, Send, pageVars
<1>2. /\ pc[r] = "idle"
      /\ pc' = [pc EXCEPT ![r] = "arrived"]
      /\ kind' = [kind EXCEPT ![r] = k]
      /\ cookie' = [cookie EXCEPT ![r] = jar]
      /\ UNCHANGED <<row, family, held, left>>
  BY <1>1 DEF Arrive, Goto, rowVars, lockVars
<1>3. r \notin opened \cup received \cup vanished
  BY <1>2
<1>t. /\ kind \in [Request -> Kind]
      /\ cookie \in [Request -> Request \cup {NoSession}]
      /\ pc \in [Request -> Stage]
  BY DEF SInv, SessionTypeOK
<1>4. ClientTypeOK'
  BY <1>1, <1>2, <1>3, <1>t
<1>5. AnswersFinal' /\ CookiesReceived' /\ ExchangedLeft'
  BY <1>1, <1>2, <1>3, <1>t DEF AnswersFinal, CookiesReceived, ExchangedLeft
<1>6. OneWaits'
  <2> SUFFICES ASSUME NEW q \in Request, kind'[q] = "refresh", Waiting(q)'
               PROVE  promise'[sender'[q]] = q
    BY DEF OneWaits
  <2>1. CASE q = r
    BY <1>1, <1>2, <1>t, <2>1
  <2>2. CASE q # r
    <3>1. kind[q] = "refresh" /\ Waiting(q) /\ sender'[q] = sender[q]
      BY <1>1, <1>2, <1>t, <2>2 DEF Waiting
    <3>2. promise[sender[q]] = q
      BY <3>1 DEF OneWaits
    <3>3. QED
      BY <1>1, <3>1, <3>2
  <2>3. QED
    BY <2>1, <2>2
<1>7. SamePageRefused'
  <2>1. ASSUME NEW q \in Request, q # r, k = "refresh", kind[q] = "refresh",
               cookie[q] = jar, jar \in Request, sender[q] = p, q \notin vanished
        PROVE  pc[q] = "denied"
    <3>1. ~Waiting(q)
      BY <1>1, <2>1 DEF OneWaits
    <3>2. pc[q] # "idle"
      BY <2>1
    <3>3. q \in received
      BY <2>1, <3>1, <3>2 DEF Waiting
    <3>4. QED
      BY <2>1, <3>3 DEF ExchangedLeft, AnswersFinal
  <2>2. QED
    BY <1>1, <1>2, <1>t, <2>1 DEF SamePageRefused
<1>8. RotatedBy'
  BY <1>1, <1>2, <1>t DEF RotatedBy
<1>9. ReuseLocks' /\ RevokedFor'
  BY <1>1, <1>2, <1>t DEF ReuseLocks, RevokedFor, RevokedBy, Committed
<1>10. QED
  BY <1>4, <1>5, <1>6, <1>7, <1>8, <1>9 DEF ClientInv

\* The headers of a success: the token the request presented is not the one the jar
\* gets, and no request was sent with the new one before.
LEMMA HeadersKeep ==
    ASSUME CInv, NEW r \in Request, ReceiveHeaders(r)
    PROVE  ClientInv'
<1> USE SessionAssumption DEF CInv, ClientInv, ClientTypeOK
<1>1. /\ r \notin opened \cup received \cup vanished
      /\ pc[r] \in Granted
      /\ opened' = opened \cup {r}
      /\ \/ /\ kind[r] = "logout" /\ jar' = NoSession
            /\ received' = received \cup {r}
            /\ signedIn' = [signedIn EXCEPT ![sender[r]] = FALSE]
            /\ promise' = [promise EXCEPT ![sender[r]] = IF @ = r THEN NoSession ELSE @]
         \/ /\ kind[r] # "logout" /\ jar' = r
            /\ UNCHANGED <<received, signedIn, promise>>
      /\ UNCHANGED <<sender, vanished>>
  BY DEF ReceiveHeaders, Waiting, Publish, pageVars
<1>s. UNCHANGED <<pc, kind, cookie, row, family, held, left>>
  BY DEF ReceiveHeaders, sessionVars, requestVars, rowVars, lockVars
<1>2. ClientTypeOK'
  BY <1>1, <1>s DEF Granted
<1>3. AnswersFinal' /\ CookiesReceived'
  BY <1>1, <1>s DEF AnswersFinal, CookiesReceived
<1>4. ExchangedLeft'
  BY <1>1, <1>s DEF CookiesReceived, ExchangedLeft
<1>5. OneWaits'
  BY <1>1, <1>s DEF OneWaits, Waiting
<1>6. SamePageRefused' /\ RotatedBy' /\ ReuseLocks' /\ RevokedFor'
  BY <1>1, <1>s DEF SamePageRefused, RotatedBy, ReuseLocks, RevokedFor, RevokedBy, Committed
<1>7. QED
  BY <1>2, <1>3, <1>4, <1>5, <1>6 DEF ClientInv

\* A body, an error and a lost connection leave the jar alone; the shared refresh is
\* over.
LEMMA EndedKeeps ==
    ASSUME CInv, NEW r \in Request, ReceiveBody(r) \/ ReceiveError(r) \/ Disconnect(r)
    PROVE  ClientInv'
<1> USE SessionAssumption DEF CInv, ClientInv, ClientTypeOK
<1>1. /\ r \notin received \cup vanished
      /\ pc[r] # "idle"
      /\ \/ (r \in opened \/ pc[r] = "denied") /\ received' = received \cup {r} /\ vanished' = vanished
         \/ received' = received /\ vanished' = vanished \cup {r}
      /\ \E auth \in BOOLEAN : signedIn' = [signedIn EXCEPT ![sender[r]] = auth]
      /\ promise' = [promise EXCEPT ![sender[r]] = IF @ = r THEN NoSession ELSE @]
      /\ UNCHANGED <<sender, jar, opened>>
  BY DEF ReceiveBody, ReceiveError, Disconnect, Waiting, Publish
<1>s. UNCHANGED <<pc, kind, cookie, row, family, held, left>>
  BY DEF ReceiveBody, ReceiveError, Disconnect, sessionVars, requestVars, rowVars, lockVars
<1>2. ClientTypeOK'
  BY <1>1, <1>s
<1>3. AnswersFinal' /\ CookiesReceived' /\ ExchangedLeft'
  BY <1>1, <1>s DEF AnswersFinal, CookiesReceived, ExchangedLeft
<1>4. OneWaits'
  BY <1>1, <1>s DEF OneWaits, Waiting
<1>5. SamePageRefused' /\ RotatedBy' /\ ReuseLocks' /\ RevokedFor'
  BY <1>1, <1>s DEF SamePageRefused, RotatedBy, ReuseLocks, RevokedFor, RevokedBy, Committed
<1>6. QED
  BY <1>2, <1>3, <1>4, <1>5 DEF ClientInv

\* A page that is opened again waits for nothing it sent before.
LEMMA ReloadKeeps ==
    ASSUME CInv, NEW p \in Page, Reload(p)
    PROVE  ClientInv'
<1> USE SessionAssumption DEF CInv, ClientInv, ClientTypeOK
<1>1. /\ vanished' = vanished \cup {r \in Request : Waiting(r) /\ sender[r] = p}
      /\ signedIn' = [signedIn EXCEPT ![p] = FALSE]
      /\ promise' = [promise EXCEPT ![p] = NoSession]
      /\ UNCHANGED <<sender, jar, opened, received>>
  BY DEF Reload
<1>s. UNCHANGED <<pc, kind, cookie, row, family, held, left>>
  BY DEF Reload, sessionVars, requestVars, rowVars, lockVars
<1>2. ClientTypeOK'
  BY <1>1, <1>s DEF Waiting
<1>3. AnswersFinal' /\ CookiesReceived' /\ ExchangedLeft'
  BY <1>1, <1>s DEF AnswersFinal, CookiesReceived, ExchangedLeft
<1>4. OneWaits'
  BY <1>1, <1>s DEF OneWaits, Waiting
<1>5. SamePageRefused' /\ RotatedBy' /\ ReuseLocks' /\ RevokedFor'
  BY <1>1, <1>s DEF SamePageRefused, RotatedBy, ReuseLocks, RevokedFor, RevokedBy, Committed
<1>6. QED
  BY <1>2, <1>3, <1>4, <1>5 DEF ClientInv

\* The invariant of the browser and the service together.
THEOREM CInvCorrect == BrowserSpec => []CInv
<1>1. BrowserInit => CInv
  BY InitSInv, SessionAssumption
     DEF BrowserInit, SessionInit, CInv, ClientInv, ClientTypeOK, AnswersFinal, CookiesReceived,
         ExchangedLeft, OneWaits, Waiting, SamePageRefused, RotatedBy, ReuseLocks, RevokedFor
<1>2. CInv /\ [BrowserNext]_clientVars => CInv'
  <2> SUFFICES ASSUME CInv, [BrowserNext]_clientVars PROVE CInv'
    OBVIOUS
  <2>1. SInv'
    BY StepIsServiceStep, StepSInv DEF CInv, ClientInv, ClientTypeOK
  <2>2. CASE UNCHANGED clientVars
    <3>1. UNCHANGED <<pc, kind, cookie, row, family, held, left, jar, signedIn, promise,
                      sender, opened, received, vanished>>
      BY <2>2 DEF clientVars, browserVars, pageVars, sessionVars, requestVars, rowVars,
         lockVars
    <3>2. ClientTypeOK' /\ AnswersFinal' /\ CookiesReceived' /\ ExchangedLeft'
      BY <3>1 DEF CInv, ClientInv, ClientTypeOK, AnswersFinal, CookiesReceived, ExchangedLeft
    <3>3. OneWaits' /\ SamePageRefused' /\ RotatedBy' /\ ReuseLocks' /\ RevokedFor'
      BY <3>1 DEF CInv, ClientInv, OneWaits, Waiting, SamePageRefused, RotatedBy, ReuseLocks, RevokedFor,
         RevokedBy, Committed
    <3>4. QED
      BY <2>1, <3>2, <3>3 DEF CInv, ClientInv
  <2>3. CASE BrowserNext
    <3>1. ClientInv'
      BY <2>3, ServiceKeeps, SendKeeps, HeadersKeep, EndedKeeps, ReloadKeeps
         DEF BrowserNext
    <3>2. QED
      BY <2>1, <3>1 DEF CInv, ClientInv
  <2>4. QED
    BY <2>2, <2>3
<1>3. QED
  BY <1>1, <1>2, PTL DEF BrowserSpec

\* The refreshes within a page never present a token that was exchanged: only another
\* page, or an answer that was given up, leads to its replay.  A session that was
\* revoked is presented after a sign-out with it, or after a reuse in its family.
THEOREM ReuseHasCauseCorrect == BrowserSpec => []ReuseHasCause
<1>1. CInv => ReuseHasCause
  <2> SUFFICES ASSUME CInv, NEW r \in Request, pc[r] \in {"reuse", "revoking"}
               PROVE  \E q \in Request \ {r} :
                         IF row[cookie[r]] = "revoked"
                         THEN RevokedBy(q, cookie[r])
                         ELSE /\ cookie[q] = cookie[r]
                              /\ sender[q] # sender[r] \/ {q, r} \cap vanished # {}
    BY DEF ReuseHasCause
  <2>1. kind[r] = "refresh" /\ cookie[r] \in Request /\ row[cookie[r]] \in {"rotated", "revoked"}
    BY DEF CInv, ClientInv, SInv, SessionTypeOK, RotationHolds, ReuseLocks
  <2>2. CASE row[cookie[r]] = "revoked"
    <3>1. PICK q \in Request : RevokedBy(q, cookie[r])
      BY <2>1, <2>2 DEF CInv, ClientInv, RevokedFor
    <3>2. q # r
      BY <2>1, <3>1 DEF RevokedBy
    <3>3. QED
      BY <2>2, <3>1, <3>2
  <2>3. CASE row[cookie[r]] = "rotated"
    <3>1. PICK q \in Request : kind[q] = "refresh" /\ cookie[q] = cookie[r] /\ pc[q] = "done"
      BY <2>1, <2>3 DEF CInv, ClientInv, RotatedBy
    <3>2. q # r
      BY <3>1
    <3>3. sender[q] # sender[r] \/ {q, r} \cap vanished # {}
      BY <2>1, <3>1, <3>2 DEF CInv, ClientInv, SamePageRefused
    <3>4. QED
      BY <2>3, <3>1, <3>2, <3>3
  <2>4. QED
    BY <2>1, <2>2, <2>3
<1>2. QED
  BY <1>1, CInvCorrect, PTL
==============================================================================
