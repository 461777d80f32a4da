---------------------------- MODULE AuthSessions ----------------------------
(***************************************************************************)
(* The sign-in sessions of one student, employee or parent                 *)
(* (auth-sessions/auth-sessions.service.ts): login under the device limit, *)
(* refresh rotation with its grace window, reissue, and revocation alone   *)
(* or as the tail of a password change.                                    *)
(*                                                                         *)
(* A login is one transaction under an advisory lock; everything else is   *)
(* single statements with other requests in between.  A refresh token is   *)
(* the number of its jti, counted per session; 0 stands for NULL.  Redis'  *)
(* denylist and the sockets are best-effort and left out, and so are the   *)
(* labels a row carries (device name, address, last use, why it ended).    *)
(***************************************************************************)
EXTENDS Integers, FiniteSets

CONSTANTS Sids, Devices,
          NoDevice,      \* a client that sends no device id
          Handlers,
          Limit,         \* devices that may be signed in at once
          Ttl, Grace,    \* refresh lifetime and ROTATION_GRACE_SECONDS, in ticks
          MaxJti,        \* bound: refresh tokens of one session
          MaxTime,       \* bound: ticks of the clock
          Absent

ASSUME SessionConstants ==
  /\ Limit \in Nat \ {0} /\ MaxJti \in Nat \ {0} /\ MaxTime \in Nat
  /\ Ttl \in Nat /\ Grace \in Nat /\ Grace < Ttl

VARIABLES rows,    \* auth_sessions
          minted,  \* how many jtis were drawn for a session
          handed,  \* the jtis clients have received
          clock,
          pc, job, \* the request each handler is serving
          outrun,  \* history: the handlers whose session was written since reissue read it
          revived  \* history: the sessions that were revoked and are not any more

sessionVars == <<rows, minted, handed, clock, pc, job, outrun, revived>>

Jtis == 0 .. MaxJti
Instants == 0 .. MaxTime + Ttl

Columns == {"device", "revoked", "jti", "prev", "rotated", "expires"}

SessionRow == [device : Devices \cup {NoDevice}, revoked : {"no", "yes"},
               jti : Jtis, prev : Jtis, rotated : Instants, expires : Instants]

NoJob == [op |-> "none"]

Jobs == [op : {"login"}, device : Devices \cup {NoDevice}, now : Instants,
         found : SUBSET Sids]
        \cup [op : {"refresh"}, sid : Sids, jti : Jtis, now : Instants]
        \cup [op : {"revoke"}, todo : SUBSET Sids]
        \cup [op : {"password"}, sid : Sids, todo : SUBSET Sids]
        \cup [op : {"reissue"}, sid : Sids, entity : SessionRow, dirty : SUBSET Columns]
        \cup [op : {"answer"}, sid : Sids, jti : Jtis]
        \cup {NoJob}

Labels == {"idle", "lock", "create", "rotate", "missed", "respond", "revoke", "reissue",
           "reload", "flush"}

ASSUME AbsentIsNoRow == Absent \notin SessionRow /\ IsFiniteSet(Sids)

SessionTypeOK ==
  /\ rows \in [Sids -> SessionRow \cup {Absent}]
  /\ minted \in [Sids -> Jtis]
  /\ handed \in [Sids -> SUBSET (1 .. MaxJti)]
  /\ clock \in 0 .. MaxTime
  /\ pc \in [Handlers -> Labels]
  /\ job \in [Handlers -> Jobs]
  /\ \A h \in Handlers : pc[h] = "idle" <=> job[h] = NoJob
  /\ outrun \subseteq Handlers /\ revived \subseteq Sids

SessionInit ==
  /\ rows = [s \in Sids |-> Absent]
  /\ minted = [s \in Sids |-> 0]
  /\ handed = [s \in Sids |-> {}]
  /\ clock = 0
  /\ pc = [h \in Handlers |-> "idle"]
  /\ job = [h \in Handlers |-> NoJob]
  /\ outrun = {} /\ revived = {}

-----------------------------------------------------------------------------
At(h, label) == pc[h] = label
Goto(h, label) == pc' = [pc EXCEPT ![h] = label]
Set(h, j) == job' = [job EXCEPT ![h] = j]
Begin(h, label, j) == At(h, "idle") /\ Goto(h, label) /\ Set(h, j)
Finish(h) == Goto(h, "idle") /\ Set(h, NoJob)
Answer(h, s, j) == Goto(h, "respond") /\ Set(h, [op |-> "answer", sid |-> s, jti |-> j])

Unrevoked(s) == rows[s] # Absent /\ rows[s].revoked = "no"
Live(s) == Unrevoked(s) /\ rows[s].expires > clock
LiveSids == {s \in Sids : Live(s)}

Ended(s) == rows[s] # Absent /\ rows[s].revoked = "yes"

\* Between reissue's read and its save.
InReissue(h) == pc[h] \in {"reload", "flush"}

\* revoke's UPDATE clears both tokens.
Revoked(row) == [row EXCEPT !.revoked = "yes", !.jti = 0, !.prev = 0]

-----------------------------------------------------------------------------
(* createWithinLimit *)

StartLogin(h, d) ==
  /\ Begin(h, "lock", [op |-> "login", device |-> d, now |-> clock, found |-> {}])
  /\ UNCHANGED <<rows, minted, handed, clock>>

\* Mutant: logins of one subject are not serialised.
FindUnlocked(h) ==
  /\ At(h, "lock")
  /\ Set(h, [job[h] EXCEPT !.found = {s \in Sids : Unrevoked(s)}])
  /\ Goto(h, "create")
  /\ UNCHANGED <<rows, minted, handed, clock>>

\* pg_advisory_xact_lock, then the subject's unrevoked rows.
FindSessions(h) ==
  /\ At(h, "lock")
  /\ \A g \in Handlers : ~At(g, "create")
  /\ Set(h, [job[h] EXCEPT !.found = {s \in Sids : Unrevoked(s)}])
  /\ Goto(h, "create")
  /\ UNCHANGED <<rows, minted, handed, clock>>

SameDevice(j) == {s \in j.found : j.device # NoDevice /\ rows[s].device = j.device}
Active(j) == {s \in j.found \ SameDevice(j) : rows[s].expires > j.now}

Replaced(j) == [s \in Sids |-> IF s \in SameDevice(j) THEN Revoked(rows[s]) ELSE rows[s]]

\* At the limit the login is paused; what it replaced stays revoked.
RefuseLogin(h) ==
  LET j == job[h] IN
  /\ At(h, "create") /\ Cardinality(Active(j)) >= Limit
  /\ rows' = Replaced(j)
  /\ Finish(h)
  /\ UNCHANGED <<minted, handed, clock>>

\* A live row of the device that was not replaced violates the partial unique
\* index and is a Fail.
CreateSession(h, s) ==
  LET j == job[h] IN
  /\ At(h, "create") /\ Cardinality(Active(j)) < Limit
  /\ rows[s] = Absent
  /\ \A r \in Sids \ SameDevice(j) : Unrevoked(r) => j.device = NoDevice \/ rows[r].device # j.device
  /\ rows' = [Replaced(j) EXCEPT ![s] = [device |-> j.device, revoked |-> "no", jti |-> 1,
                                         prev |-> 0, rotated |-> 0, expires |-> j.now + Ttl]]
  /\ minted' = [minted EXCEPT ![s] = 1]
  /\ Answer(h, s, 1)
  /\ UNCHANGED <<handed, clock>>

\* The client receives its tokens; a Fail before loses them.
Respond(h) ==
  /\ At(h, "respond")
  /\ handed' = [handed EXCEPT ![job[h].sid] = @ \cup {job[h].jti}]
  /\ Finish(h)
  /\ UNCHANGED <<rows, minted, clock>>

-----------------------------------------------------------------------------
(* rotateOnRefresh *)

StartRefresh(h, s, j) ==
  /\ j \in handed[s]
  /\ Begin(h, "rotate", [op |-> "refresh", sid |-> s, jti |-> j, now |-> clock])
  /\ UNCHANGED <<rows, minted, handed, clock>>

Rotates(j) == Live(j.sid) /\ rows[j.sid].jti = j.jti

\* Mutant: read, compare and save, without the comparison in the statement.
RotateUnlessRevoked(h) ==
  LET j == job[h] next == minted[job[h].sid] + 1 IN
  /\ At(h, "rotate") /\ Live(j.sid) /\ rows[j.sid].jti # 0 /\ next <= MaxJti
  /\ rows' = [rows EXCEPT ![j.sid] = [@ EXCEPT !.prev = j.jti, !.jti = next, !.rotated = j.now,
                                               !.expires = j.now + Ttl]]
  /\ minted' = [minted EXCEPT ![j.sid] = next]
  /\ Answer(h, j.sid, next)
  /\ UNCHANGED <<handed, clock>>

\* The conditional UPDATE: the presented jti is the current one of a live row.
Rotate(h) ==
  LET j == job[h] next == minted[job[h].sid] + 1 IN
  /\ At(h, "rotate") /\ Rotates(j) /\ next <= MaxJti
  /\ rows' = [rows EXCEPT ![j.sid] = [@ EXCEPT !.prev = j.jti, !.jti = next, !.rotated = j.now,
                                               !.expires = j.now + Ttl]]
  /\ minted' = [minted EXCEPT ![j.sid] = next]
  /\ Answer(h, j.sid, next)
  /\ UNCHANGED <<handed, clock>>

MissRotation(h) ==
  /\ At(h, "rotate") /\ ~Rotates(job[h])
  /\ Goto(h, "missed")
  /\ UNCHANGED <<rows, minted, handed, clock, job>>

InGrace(j) == /\ rows[j.sid].prev = j.jti
              /\ j.now - rows[j.sid].rotated <= Grace

\* The row is read to tell an ended session, a lost race and a replay apart.
ExplainMiss(h) ==
  LET j == job[h] row == rows[job[h].sid] IN
  /\ At(h, "missed")
  /\ IF row.revoked # "no" \/ row.jti = 0 \/ row.expires <= j.now
       THEN Finish(h)
     ELSE IF InGrace(j)
       THEN Answer(h, j.sid, row.jti)
     ELSE Set(h, [op |-> "revoke", todo |-> {j.sid}])
          /\ Goto(h, "revoke")
  /\ UNCHANGED <<rows, minted, handed, clock>>

-----------------------------------------------------------------------------
(* revokeById, revokeAllExcept and revoke *)

\* Logout, or the device picked at the limit.
StartRevoke(h, s) ==
  /\ Live(s)
  /\ Begin(h, "revoke", [op |-> "revoke", todo |-> {s}])
  /\ UNCHANGED <<rows, minted, handed, clock>>

\* A password change spares the session it came on; a reset spares none.
StartPasswordChange(h, s) ==
  /\ Live(s)
  /\ LET others == LiveSids \ {s} IN
     Begin(h, IF others = {} THEN "reissue" ELSE "revoke",
           [op |-> "password", sid |-> s, todo |-> others])
  /\ UNCHANGED <<rows, minted, handed, clock>>

StartPasswordReset(h) ==
  /\ LiveSids # {}
  /\ Begin(h, "revoke", [op |-> "revoke", todo |-> LiveSids])
  /\ UNCHANGED <<rows, minted, handed, clock>>

AfterRevoke(h, todo) ==
  IF todo # {} THEN Set(h, [job[h] EXCEPT !.todo = todo]) /\ UNCHANGED pc
  ELSE IF job[h].op = "password" THEN Set(h, [job[h] EXCEPT !.todo = {}]) /\ Goto(h, "reissue")
  ELSE Finish(h)

\* UPDATE ... WHERE revoked_at IS NULL; one row at a time.
RevokeNext(h, s) ==
  /\ At(h, "revoke") /\ s \in job[h].todo
  /\ rows' = IF Unrevoked(s) THEN [rows EXCEPT ![s] = Revoked(@)] ELSE rows
  /\ AfterRevoke(h, job[h].todo \ {s})
  /\ UNCHANGED <<minted, handed, clock>>

-----------------------------------------------------------------------------
(* reissue: findOne, then save, which reads the row again and writes what   *)
(* differs                                                                  *)

\* Mutant: a session another device ended is found as well.
ReadReissueRevoked(h) ==
  LET j == job[h] row == rows[job[h].sid] next == minted[job[h].sid] + 1 IN
  /\ At(h, "reissue") /\ next <= MaxJti /\ row.expires > clock
  /\ Set(h, [op |-> "reissue", sid |-> j.sid, dirty |-> {},
             entity |-> [row EXCEPT !.revoked = "no", !.prev = row.jti, !.jti = next,
                                    !.rotated = clock, !.expires = clock + Ttl]])
  /\ Goto(h, "reload")
  /\ minted' = [minted EXCEPT ![j.sid] = next]
  /\ UNCHANGED <<rows, handed, clock>>

ReadReissue(h) ==
  LET j == job[h] row == rows[job[h].sid] next == minted[job[h].sid] + 1 IN
  /\ At(h, "reissue") /\ next <= MaxJti /\ Unrevoked(j.sid) /\ row.jti # 0
  /\ Set(h, [op |-> "reissue", sid |-> j.sid, dirty |-> {},
             entity |-> [row EXCEPT !.prev = row.jti, !.jti = next, !.rotated = clock,
                                    !.expires = clock + Ttl]])
  /\ Goto(h, "reload")
  /\ minted' = [minted EXCEPT ![j.sid] = next]
  /\ UNCHANGED <<rows, handed, clock>>

RefuseReissue(h) ==
  /\ At(h, "reissue") /\ ~(Unrevoked(job[h].sid) /\ rows[job[h].sid].jti # 0)
  /\ Finish(h)
  /\ UNCHANGED <<rows, minted, handed, clock>>

Reload(h) ==
  LET j == job[h] IN
  /\ At(h, "reload")
  /\ Set(h, [j EXCEPT !.dirty = {c \in DOMAIN j.entity : j.entity[c] # rows[j.sid][c]}])
  /\ Goto(h, "flush")
  /\ UNCHANGED <<rows, minted, handed, clock>>

\* A session that comes back while its device has another violates the partial
\* unique index, and the save is a Fail.
Flush(h) ==
  LET j == job[h] IN
  /\ At(h, "flush")
  /\ Ended(j.sid) /\ "revoked" \in j.dirty =>
       \A r \in Sids : Unrevoked(r) => rows[r].device = NoDevice \/ rows[r].device # rows[j.sid].device
  /\ rows' = [rows EXCEPT ![j.sid] = [c \in DOMAIN @ |-> IF c \in j.dirty THEN j.entity[c] ELSE @[c]]]
  /\ Answer(h, j.sid, j.entity.jti)
  /\ UNCHANGED <<minted, handed, clock>>

-----------------------------------------------------------------------------
\* A lost connection or a crash: an open login rolls back, written rows stay.
Fail(h) == /\ ~At(h, "idle")
           /\ Finish(h)
           /\ UNCHANGED <<rows, minted, handed, clock>>

\* The access token that let a password change in expires long before its session
\* (SESSION_TTL_CONFIG), so the session does not expire under the request; nor
\* does a refresh or a reissue take as long as the token lives that it hands out.
InUse(s) == \E h \in Handlers : job[h].op \in {"password", "reissue"} /\ job[h].sid = s

Tick == /\ clock < MaxTime
        /\ \A s \in Sids : Live(s) /\ InUse(s) => rows[s].expires > clock + 1
        /\ \A h \in Handlers : /\ At(h, "rotate") => job[h].now + Ttl > clock + 1
                               /\ InReissue(h) => job[h].entity.expires > clock + 1
        /\ clock' = clock + 1
        /\ UNCHANGED <<rows, minted, handed, pc, job>>

\* What the history variables keep of a step.
Watch ==
  /\ outrun' = {h \in Handlers : /\ InReissue(h) /\ InReissue(h)'
                                 /\ h \in outrun \/ rows'[job[h].sid] # rows[job[h].sid]}
  /\ revived' = revived \cup {s \in Sids : Ended(s) /\ ~Ended(s)'}

RequestStep(h) ==
  \/ \E d \in Devices \cup {NoDevice} : StartLogin(h, d)
  \/ FindSessions(h) \/ RefuseLogin(h) \/ Respond(h)
  \/ \E s \in Sids : \/ CreateSession(h, s) \/ StartRevoke(h, s) \/ StartPasswordChange(h, s)
                     \/ RevokeNext(h, s)
                     \/ \E j \in 1 .. MaxJti : StartRefresh(h, s, j)
  \/ Rotate(h) \/ MissRotation(h) \/ ExplainMiss(h)
  \/ StartPasswordReset(h)
  \/ ReadReissue(h) \/ RefuseReissue(h) \/ Reload(h) \/ Flush(h)
  \/ Fail(h)

SessionNext == ((\E h \in Handlers : RequestStep(h)) \/ Tick) /\ Watch

SessionSpec == SessionInit /\ [][SessionNext]_sessionVars

-----------------------------------------------------------------------------
(* Properties *)

\* The request h ends with the save of a row that somebody wrote since reissue read it.
SavesLate(h, s) ==
  /\ h \in outrun /\ job[h].sid = s
  /\ At(h, "flush") /\ pc'[h] = "respond"

\* Two concurrent logins cannot both squeeze under the limit, whatever is
\* refreshed, replaced or revoked meanwhile (createWithinLimit); what can exceed it
\* is a session that was ended and has come back.
WithinLimit == Cardinality(LiveSids \ revived) <= Limit

\* The invariant of the table: rows and jobs are well formed, and the devices
\* signed in keep within the limit.
SessionInv == SessionTypeOK /\ WithinLimit

\* revoked_at is set, never deleted (AuthSession.revoked_at): whatever interleaves,
\* an ended session comes back only when reissue saves it, having read it before it
\* was ended.
RevokedStaysRevoked ==
  [][\A s \in Sids : Ended(s) => Ended(s)' \/ \E h \in Handlers : SavesLate(h, s)]_rows

\* The token a rotation takes away is the one the row remembers, so that whoever
\* still holds it is answered within the grace window (prev_refresh_jti, reissue);
\* but for a save that comes after somebody else's rotation.
RotatedOutIsRemembered ==
  [][\A s \in Sids : Unrevoked(s) /\ rows'[s].revoked = "no" /\ rows'[s].jti # rows[s].jti =>
       rows'[s].prev = rows[s].jti \/ \E h \in Handlers : SavesLate(h, s)]_rows
=============================================================================
