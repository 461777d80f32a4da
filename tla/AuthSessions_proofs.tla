------------------------- MODULE AuthSessions_proofs -------------------------
(***************************************************************************)
(* Theorems about the sign-in sessions of one person, for every number of  *)
(* devices, sessions and concurrent requests and every limit.              *)
(***************************************************************************)
EXTENDS AuthSessions, FiniteSetTheorems, TLAPS

Times == 0 .. MaxTime

\* Which requests stand at which statement.
LoginJob == [op : {"login"}, device : Devices \cup {NoDevice}, now : Times, found : SUBSET Sids]
RefreshJob == [op : {"refresh"}, sid : Sids, jti : Jtis, now : Times]
RevokeJob == [op : {"revoke"}, todo : SUBSET Sids]
PasswordJob == [op : {"password"}, sid : Sids, todo : SUBSET Sids]
ReissueJob == [op : {"reissue"}, sid : Sids, entity : SessionRow, dirty : SUBSET Columns]
AnswerJob == [op : {"answer"}, sid : Sids, jti : 1 .. MaxJti]

FitsAt(label, j) ==
  /\ label \in Labels
  /\ label = "idle" => j = NoJob
  /\ label \in {"lock", "create"} => j \in LoginJob
  /\ label \in {"rotate", "missed"} => j \in RefreshJob
  /\ label = "respond" => j \in AnswerJob
  /\ label = "revoke" => j \in RevokeJob \cup PasswordJob
  /\ label = "reissue" => j \in PasswordJob
  /\ label \in {"reload", "flush"} => j \in ReissueJob

\* What reissue read of a session, with a token nobody has yet and a life ahead.
Renewed(e) == e.revoked = "no" /\ e.jti > 0 /\ e.expires > clock /\ e.expires <= clock + Ttl

\* A request knows of sessions that exist, takes its time from the past, and the
\* session whose password it changes is live until somebody ends it; if it has not
\* come back from that.
Holds(label, j) ==
  /\ FitsAt(label, j)
  /\ label \in {"rotate", "missed"} => rows[j.sid] # Absent
  /\ label = "create" => \A s \in j.found : rows[s] # Absent
  /\ label \in {"lock", "create", "rotate", "missed"} => j.now <= clock
  /\ label = "rotate" => j.now + Ttl > clock
  /\ label \in {"reload", "flush"} => Renewed(j.entity)
  /\ j.op \in {"password", "reissue"} =>
       rows[j.sid] # Absent /\ (j.sid \notin revived /\ Unrevoked(j.sid) => Live(j.sid))

JobsFit == /\ pc \in [Handlers -> Labels] /\ job = [h \in Handlers |-> job[h]]
           /\ \A h \in Handlers :
                /\ Holds(pc[h], job[h])
                /\ pc[h] = "respond" => rows[job[h].sid] # Absent

\* A session a client knows of exists, and no token was issued later than now.
TablesFit ==
  /\ rows \in [Sids -> SessionRow \cup {Absent}] /\ minted \in [Sids -> Jtis]
  /\ handed \in [Sids -> SUBSET (1 .. MaxJti)] /\ clock \in Times
  /\ \A s \in Sids : handed[s] # {} => rows[s] # Absent
  /\ \A s \in Sids : rows[s] # Absent => rows[s].expires <= clock + Ttl

\* A login that has read the sessions is alone, and has seen whatever is live.
LoginFits ==
  \A h \in Handlers : pc[h] = "create" =>
    /\ \A g \in Handlers : pc[g] = "create" => g = h
    /\ \A s \in Sids \ revived : Live(s) => s \in job[h].found

\* Unless somebody writes it, the row reissue has read stays as it was read.
StaysAsRead(label, j) ==
  /\ rows[j.sid].revoked = "no" /\ j.entity.prev = rows[j.sid].jti
  /\ label = "flush" => \A c \in Columns : j.entity[c] # rows[j.sid][c] => c \in j.dirty

ReissueFits ==
  \A h \in Handlers : InReissue(h) /\ h \notin outrun => StaysAsRead(pc[h], job[h])

HistoryFits == outrun \subseteq Handlers /\ revived \subseteq Sids

SessionIInv == TablesFit /\ HistoryFits /\ JobsFit /\ LoginFits /\ ReissueFits /\ WithinLimit

-----------------------------------------------------------------------------
(* What a step does to one session's row, and to one request *)

Keeps(s) == rows'[s] = rows[s]
Ends(s) == /\ rows[s] \in SessionRow /\ rows'[s] \in SessionRow
           /\ rows'[s].revoked = "yes" /\ rows'[s].expires <= clock + Ttl
Opens(s) == /\ rows[s] = Absent /\ rows'[s] \in SessionRow
            /\ rows'[s].revoked = "no" /\ rows'[s].expires <= clock + Ttl
            /\ \E g \in Handlers : pc[g] = "create" /\ pc'[g] = "respond"
Renews(s) == /\ rows[s] \in SessionRow /\ rows'[s] \in SessionRow
             /\ rows[s].revoked = "no" /\ rows'[s].revoked = "no"
             /\ Live(s) \/ s \in revived
             /\ rows'[s].expires <= clock + Ttl /\ (Live(s) => rows'[s].expires > clock)
             /\ rows'[s].prev = rows[s].jti \/ \E g \in Handlers : SavesLate(g, s)
Returns(s) == /\ rows[s] \in SessionRow /\ rows'[s] \in SessionRow
              /\ rows[s].revoked = "yes" /\ rows'[s].revoked = "no"
              /\ rows'[s].expires <= clock + Ttl
              /\ \E g \in Handlers : SavesLate(g, s)

RowMoves(s) == Keeps(s) \/ Ends(s) \/ Opens(s) \/ Renews(s) \/ Returns(s)

\* What holds of a request that has just moved.
Moves(h) ==
  /\ Holds(pc'[h], job'[h])
  /\ pc'[h] = "respond" => rows'[job'[h].sid] # Absent
  /\ pc'[h] = "create" => /\ \A g \in Handlers : pc[g] # "create"
                          /\ \A s \in Sids : Live(s) => s \in job'[h].found
  /\ pc'[h] \in {"reload", "flush"} =>
       /\ rows' = rows
       /\ (InReissue(h) /\ h \in outrun) \/ StaysAsRead(pc'[h], job'[h])

TablesMove ==
  /\ rows' \in [Sids -> SessionRow \cup {Absent}] /\ minted' \in [Sids -> Jtis]
  /\ handed' \in [Sids -> SUBSET (1 .. MaxJti)] /\ clock' = clock
  /\ \A s \in Sids : handed'[s] # {} => rows[s] # Absent

StepOf(h) == /\ pc' \in [Handlers -> Labels] /\ job' = [g \in Handlers |-> job'[g]]
             /\ \A g \in Handlers \ {h} : pc'[g] = pc[g] /\ job'[g] = job[g]
             /\ Moves(h) /\ TablesMove /\ \A s \in Sids : RowMoves(s)

\* One request moves, and no other notices.
LEMMA OneJob ==
  ASSUME JobsFit, NEW h \in Handlers, NEW STATE j, NEW STATE label, label \in Labels,
         Goto(h, label), Set(h, j)
  PROVE  /\ pc' \in [Handlers -> Labels] /\ job' = [g \in Handlers |-> job'[g]]
         /\ pc'[h] = label /\ job'[h] = j
         /\ \A g \in Handlers \ {h} : pc'[g] = pc[g] /\ job'[g] = job[g]
  BY DEF JobsFit, Goto, Set

\* The steps that only begin or end a request.
LEMMA JobStep ==
  ASSUME SessionIInv, NEW h \in Handlers, NEW STATE j, NEW STATE label, Holds(label, j),
         label \notin {"create", "reload", "flush"}, Goto(h, label), Set(h, j),
         label = "respond" => rows[j.sid] # Absent,
         UNCHANGED <<rows, minted, handed, clock>>
  PROVE  StepOf(h)
<1>1. label \in Labels
  BY DEF Holds, FitsAt
<1>2. /\ pc' \in [Handlers -> Labels] /\ job' = [g \in Handlers |-> job'[g]]
      /\ pc'[h] = label /\ job'[h] = j
      /\ \A g \in Handlers \ {h} : pc'[g] = pc[g] /\ job'[g] = job[g]
  BY <1>1, OneJob DEF SessionIInv
<1>3. Moves(h)
  BY <1>2 DEF Moves
<1>4. TablesMove /\ \A s \in Sids : RowMoves(s)
  BY DEF TablesMove, SessionIInv, TablesFit, RowMoves, Keeps
<1> QED BY <1>2, <1>3, <1>4 DEF StepOf

\* A row that is there is a row.
LEMMA RowIsThere ==
  ASSUME TablesFit, NEW s \in Sids, rows[s] # Absent PROVE rows[s] \in SessionRow
  BY DEF TablesFit

\* The requests of a client that begin (StartLogin ... StartPasswordReset).
LEMMA StepStart ==
  ASSUME SessionIInv, NEW h \in Handlers,
         \/ \E d \in Devices \cup {NoDevice} : StartLogin(h, d)
         \/ \E s \in Sids : \/ StartRevoke(h, s) \/ StartPasswordChange(h, s)
                            \/ \E j \in 1 .. MaxJti : StartRefresh(h, s, j)
         \/ StartPasswordReset(h)
  PROVE  StepOf(h)
<1> USE DEF Holds, FitsAt, Labels, Times
<1>0. clock \in Times /\ Ttl \in Nat /\ Ttl > 0
  BY SessionConstants DEF SessionIInv, TablesFit
<1>1. ASSUME NEW d \in Devices \cup {NoDevice}, StartLogin(h, d) PROVE StepOf(h)
  <2> DEFINE j == [op |-> "login", device |-> d, now |-> clock, found |-> {}]
  <2>1. Holds("lock", j)
    BY <1>0 DEF LoginJob
  <2>2. Goto(h, "lock") /\ Set(h, j) /\ UNCHANGED <<rows, minted, handed, clock>>
    BY <1>1 DEF StartLogin, Begin
  <2> HIDE DEF j
  <2> QED BY <2>1, <2>2, JobStep
<1>2. ASSUME NEW s \in Sids, NEW t \in 1 .. MaxJti, StartRefresh(h, s, t) PROVE StepOf(h)
  <2> DEFINE j == [op |-> "refresh", sid |-> s, jti |-> t, now |-> clock]
  <2>1. rows[s] # Absent
    BY <1>2 DEF StartRefresh, SessionIInv, TablesFit
  <2>2. t \in Jtis
    BY SessionConstants DEF Jtis
  <2>3. Holds("rotate", j)
    BY <1>0, <2>1, <2>2 DEF RefreshJob
  <2>4. Goto(h, "rotate") /\ Set(h, j) /\ UNCHANGED <<rows, minted, handed, clock>>
    BY <1>2 DEF StartRefresh, Begin
  <2> HIDE DEF j
  <2> QED BY <2>3, <2>4, JobStep
<1>3. ASSUME NEW todo \in SUBSET Sids, Begin(h, "revoke", [op |-> "revoke", todo |-> todo]),
             UNCHANGED <<rows, minted, handed, clock>>
      PROVE  StepOf(h)
  <2> DEFINE j == [op |-> "revoke", todo |-> todo]
  <2>1. Holds("revoke", j)
    BY DEF RevokeJob
  <2>2. Goto(h, "revoke") /\ Set(h, j)
    BY <1>3 DEF Begin
  <2> HIDE DEF j
  <2> QED BY <1>3, <2>1, <2>2, JobStep
<1>4. ASSUME NEW s \in Sids, StartPasswordChange(h, s) PROVE StepOf(h)
  <2> DEFINE j == [op |-> "password", sid |-> s, todo |-> LiveSids \ {s}]
             label == IF LiveSids \ {s} = {} THEN "reissue" ELSE "revoke"
  <2>1. Live(s) /\ rows[s] # Absent
    BY <1>4 DEF StartPasswordChange, Live, Unrevoked
  <2>2. Holds(label, j)
    BY <2>1 DEF PasswordJob, LiveSids
  <2>3. Goto(h, label) /\ Set(h, j) /\ UNCHANGED <<rows, minted, handed, clock>>
    BY <1>4 DEF StartPasswordChange, Begin
  <2>4. label \notin {"create", "reload", "flush", "respond"}
    OBVIOUS
  <2> HIDE DEF j, label
  <2> QED BY <2>2, <2>3, <2>4, JobStep
<1>5. ASSUME NEW s \in Sids, StartRevoke(h, s) PROVE StepOf(h)
  <2>1. {s} \in SUBSET Sids
    OBVIOUS
  <2> QED BY <1>3, <1>5, <2>1 DEF StartRevoke
<1>6. CASE StartPasswordReset(h)
  <2>1. LiveSids \in SUBSET Sids
    BY DEF LiveSids
  <2> QED BY <1>3, <1>6, <2>1 DEF StartPasswordReset
<1> QED BY <1>1, <1>2, <1>4, <1>5, <1>6

\* A request that ends, whether it succeeds or not.
LEMMA StepEnd ==
  ASSUME SessionIInv, NEW h \in Handlers, Fail(h) \/ RefuseReissue(h) PROVE StepOf(h)
<1>1. Holds("idle", NoJob)
  BY DEF Holds, FitsAt, Labels, NoJob
<1>2. Goto(h, "idle") /\ Set(h, NoJob) /\ UNCHANGED <<rows, minted, handed, clock>>
  BY DEF Fail, RefuseReissue, Finish
<1> QED BY <1>1, <1>2, JobStep

\* The steps of a refresh that change no row.
LEMMA StepMiss ==
  ASSUME SessionIInv, NEW h \in Handlers, MissRotation(h) \/ ExplainMiss(h) PROVE StepOf(h)
<1> DEFINE j == job[h]
<1>0. Holds(pc[h], j)
  BY DEF SessionIInv, JobsFit
<1>1. CASE MissRotation(h)
  <2>1. Holds("missed", j)
    BY <1>0, <1>1 DEF MissRotation, At, Holds, FitsAt, Labels, RefreshJob
  <2>2. Goto(h, "missed") /\ Set(h, j) /\ UNCHANGED <<rows, minted, handed, clock>>
    BY <1>1 DEF MissRotation, Set, SessionIInv, JobsFit
  <2> HIDE DEF j
  <2> QED BY <2>1, <2>2, JobStep
<1>2. CASE ExplainMiss(h)
  <2>1. j \in RefreshJob /\ rows[j.sid] # Absent /\ j.sid \in Sids
    BY <1>0, <1>2 DEF ExplainMiss, At, Holds, FitsAt, RefreshJob
  <2>2. rows[j.sid] \in SessionRow
    BY <2>1, RowIsThere DEF SessionIInv
  <2>3. CASE Finish(h)
    <3>1. Holds("idle", NoJob)
      BY DEF Holds, FitsAt, Labels, NoJob
    <3> QED BY <1>2, <2>3, <3>1, JobStep DEF ExplainMiss, Finish
  <2>4. CASE rows[j.sid].jti # 0 /\ Answer(h, j.sid, rows[j.sid].jti)
    <3> DEFINE k == [op |-> "answer", sid |-> j.sid, jti |-> rows[j.sid].jti]
    <3>1. rows[j.sid].jti \in 1 .. MaxJti
      BY <2>2, <2>4, SessionConstants DEF SessionRow, Jtis
    <3>2. Holds("respond", k) /\ rows[k.sid] # Absent
      BY <2>1, <3>1 DEF Holds, FitsAt, Labels, AnswerJob
    <3>3. Goto(h, "respond") /\ Set(h, k) /\ UNCHANGED <<rows, minted, handed, clock>>
      BY <1>2, <2>4 DEF ExplainMiss, Answer
    <3> HIDE DEF k
    <3> QED BY <3>2, <3>3, JobStep
  <2>5. CASE Set(h, [op |-> "revoke", todo |-> {j.sid}]) /\ Goto(h, "revoke")
    <3> DEFINE k == [op |-> "revoke", todo |-> {j.sid}]
    <3>1. Holds("revoke", k)
      BY <2>1 DEF Holds, FitsAt, Labels, RevokeJob
    <3>2. Goto(h, "revoke") /\ Set(h, k) /\ UNCHANGED <<rows, minted, handed, clock>>
      BY <1>2, <2>5 DEF ExplainMiss
    <3> HIDE DEF k
    <3> QED BY <3>1, <3>2, JobStep
  <2> QED BY <1>2, <2>3, <2>4, <2>5 DEF ExplainMiss
<1> QED BY <1>1, <1>2

-----------------------------------------------------------------------------
(* The steps that write, or that read what they will write *)

LEMMA RevokedRow ==
  ASSUME NEW row \in SessionRow
  PROVE  /\ Revoked(row) \in SessionRow /\ Revoked(row).revoked = "yes"
         /\ Revoked(row).expires = row.expires
<1>1. 0 \in Jtis
  BY SessionConstants DEF Jtis
<1>2. Revoked(row) \in SessionRow
  BY <1>1 DEF Revoked, SessionRow
<1>3. Revoked(row).revoked = "yes" /\ Revoked(row).expires = row.expires
  BY DEF Revoked, SessionRow
<1> QED BY <1>2, <1>3

\* The sessions a login has read (createWithinLimit).
LEMMA StepFind ==
  ASSUME SessionIInv, NEW h \in Handlers, FindSessions(h) PROVE StepOf(h)
<1> DEFINE found == {s \in Sids : Unrevoked(s)}
           j == [job[h] EXCEPT !.found = found]
<1>1. job[h] \in LoginJob /\ job[h].now <= clock
  BY DEF SessionIInv, JobsFit, Holds, FitsAt, FindSessions, At
<1>2. /\ j \in LoginJob /\ j.found = found /\ j.now = job[h].now /\ j.op = "login"
  BY <1>1 DEF LoginJob
<1>3. \A s \in Sids : Live(s) => s \in j.found
  BY <1>2 DEF Live
<1>4. Holds("create", j)
  BY <1>1, <1>2 DEF Holds, FitsAt, Labels, Unrevoked
<1>5. Goto(h, "create") /\ Set(h, j) /\ UNCHANGED <<rows, minted, handed, clock>>
  BY DEF FindSessions
<1>6. \A g \in Handlers : pc[g] # "create"
  BY DEF FindSessions, At
<1> HIDE DEF j
<1>7. /\ pc' \in [Handlers -> Labels] /\ job' = [g \in Handlers |-> job'[g]]
      /\ pc'[h] = "create" /\ job'[h] = j
      /\ \A g \in Handlers \ {h} : pc'[g] = pc[g] /\ job'[g] = job[g]
  BY <1>5, OneJob DEF SessionIInv, Labels
<1>8. Moves(h)
  BY <1>3, <1>4, <1>6, <1>7 DEF Moves
<1>9. TablesMove /\ \A s \in Sids : RowMoves(s)
  BY <1>5 DEF TablesMove, SessionIInv, TablesFit, RowMoves, Keeps
<1> QED BY <1>7, <1>8, <1>9 DEF StepOf

\* Whoever writes one row, and none that is being reissued.
LEMMA WriteStep ==
  ASSUME SessionIInv, NEW h \in Handlers, NEW STATE j, NEW STATE label, Holds(label, j),
         label \notin {"create", "reload", "flush"}, Goto(h, label), Set(h, j),
         label = "respond" => rows'[j.sid] # Absent,
         TablesMove, \A s \in Sids : RowMoves(s)
  PROVE  StepOf(h)
<1>1. label \in Labels
  BY DEF Holds, FitsAt
<1>2. /\ pc' \in [Handlers -> Labels] /\ job' = [g \in Handlers |-> job'[g]]
      /\ pc'[h] = label /\ job'[h] = j
      /\ \A g \in Handlers \ {h} : pc'[g] = pc[g] /\ job'[g] = job[g]
  BY <1>1, OneJob DEF SessionIInv
<1>3. Moves(h)
  BY <1>2 DEF Moves
<1> QED BY <1>2, <1>3 DEF StepOf

\* The answer reaches the client (Respond).
LEMMA StepRespond ==
  ASSUME SessionIInv, NEW h \in Handlers, Respond(h) PROVE StepOf(h)
<1>1. job[h] \in AnswerJob /\ rows[job[h].sid] # Absent
  BY DEF SessionIInv, JobsFit, Holds, FitsAt, Respond, At
<1>2. Holds("idle", NoJob)
  BY DEF Holds, FitsAt, Labels, NoJob
<1>3. Goto(h, "idle") /\ Set(h, NoJob) /\ UNCHANGED <<rows, minted, clock>>
  BY DEF Respond, Finish
<1>4. TablesMove
  BY <1>1, <1>3 DEF Respond, TablesMove, SessionIInv, TablesFit, AnswerJob
<1>5. \A s \in Sids : RowMoves(s)
  BY <1>3 DEF RowMoves, Keeps
<1> QED BY <1>2, <1>3, <1>4, <1>5, WriteStep

\* The conditional UPDATE of a refresh (rotateOnRefresh).
LEMMA StepRotate ==
  ASSUME SessionIInv, NEW h \in Handlers, Rotate(h) PROVE StepOf(h)
<1> DEFINE j == job[h]
           s == job[h].sid
           next == minted[s] + 1
           r == [rows[s] EXCEPT !.prev = j.jti, !.jti = next, !.rotated = j.now,
                                !.expires = j.now + Ttl]
           k == [op |-> "answer", sid |-> s, jti |-> next]
<1>1. /\ j \in RefreshJob /\ s \in Sids /\ j.now \in Times /\ j.jti \in Jtis /\ rows[s] # Absent
      /\ j.now <= clock /\ j.now + Ttl > clock
  BY DEF SessionIInv, JobsFit, Holds, FitsAt, Rotate, At, RefreshJob
<1>2. Live(s) /\ rows[s].jti = j.jti /\ rows[s].revoked = "no"
  BY DEF Rotate, Rotates, Live, Unrevoked
<1>3. minted[s] \in Nat /\ next \in 1 .. MaxJti /\ next \in Jtis
  BY <1>1, SessionConstants DEF Rotate, SessionIInv, TablesFit, Jtis
<1>4. j.now + Ttl \in Instants /\ j.now \in Instants /\ clock \in Times
  BY <1>1, SessionConstants DEF Times, Instants, SessionIInv, TablesFit
<1>5. rows[s] \in SessionRow
  BY <1>1, RowIsThere DEF SessionIInv
<1>6. /\ r \in SessionRow /\ r.revoked = "no" /\ r.prev = rows[s].jti
      /\ r.expires = j.now + Ttl
  <2> HIDE DEF j, s, next
  <2> QED BY <1>1, <1>2, <1>3, <1>4, <1>5 DEF SessionRow
<1>7. r.expires > clock /\ r.expires <= clock + Ttl
  BY <1>1, <1>4, <1>6, SessionConstants DEF Times
<1>8. Holds("respond", k) /\ k.sid = s
  BY <1>1, <1>3 DEF Holds, FitsAt, Labels, AnswerJob
<1>9. /\ rows' = [rows EXCEPT ![s] = r] /\ minted' = [minted EXCEPT ![s] = next]
      /\ UNCHANGED <<handed, clock>> /\ Goto(h, "respond") /\ Set(h, k)
  BY DEF Rotate, Answer
<1> HIDE DEF r, k
<1>10. \A t \in Sids : RowMoves(t)
  <2>1. \A t \in Sids \ {s} : Keeps(t)
    BY <1>9 DEF Keeps, SessionIInv, TablesFit
  <2>2. Renews(s)
    BY <1>1, <1>2, <1>5, <1>6, <1>7, <1>9 DEF Renews, SessionIInv, TablesFit
  <2> QED BY <2>1, <2>2 DEF RowMoves
<1>11. TablesMove
  BY <1>1, <1>3, <1>6, <1>9 DEF TablesMove, SessionIInv, TablesFit
<1>12. rows'[k.sid] # Absent
  BY <1>1, <1>6, <1>8, <1>9, AbsentIsNoRow DEF SessionIInv, TablesFit
<1> QED BY <1>8, <1>9, <1>10, <1>11, <1>12, WriteStep

\* A login ends the sessions of its device.
LEMMA ReplacedRows ==
  ASSUME SessionIInv, NEW h \in Handlers, At(h, "create"), NEW s \in Sids
  PROVE  /\ Replaced(job[h])[s] \in SessionRow \cup {Absent}
         /\ s \notin SameDevice(job[h]) => Replaced(job[h])[s] = rows[s]
         /\ s \in SameDevice(job[h]) =>
              /\ rows[s] \in SessionRow /\ Replaced(job[h])[s] = Revoked(rows[s])
              /\ Revoked(rows[s]) \in SessionRow /\ Revoked(rows[s]).revoked = "yes"
              /\ Revoked(rows[s]).expires <= clock + Ttl
<1>1. job[h] \in LoginJob /\ \A t \in job[h].found : rows[t] # Absent
  BY DEF SessionIInv, JobsFit, Holds, FitsAt, At
<1>2. s \in SameDevice(job[h]) => rows[s] \in SessionRow
  BY <1>1, RowIsThere DEF SameDevice, LoginJob, SessionIInv
<1>3. s \in SameDevice(job[h]) =>
        Revoked(rows[s]) \in SessionRow /\ Revoked(rows[s]).revoked = "yes"
  BY <1>2, RevokedRow
<1>4. s \in SameDevice(job[h]) => Revoked(rows[s]).expires <= clock + Ttl
  BY <1>1, <1>2, RevokedRow, AbsentIsNoRow DEF SessionIInv, TablesFit
<1>5. Replaced(job[h])[s] = IF s \in SameDevice(job[h]) THEN Revoked(rows[s]) ELSE rows[s]
  BY DEF Replaced
<1>6. rows[s] \in SessionRow \cup {Absent}
  BY DEF SessionIInv, TablesFit
<1> QED BY <1>2, <1>3, <1>4, <1>5, <1>6

\* At the limit (createWithinLimit).
LEMMA StepRefuse ==
  ASSUME SessionIInv, NEW h \in Handlers, RefuseLogin(h) PROVE StepOf(h)
<1>1. Holds("idle", NoJob)
  BY DEF Holds, FitsAt, Labels, NoJob
<1>2. Goto(h, "idle") /\ Set(h, NoJob) /\ UNCHANGED <<minted, handed, clock>>
  BY DEF RefuseLogin, Finish
<1>3. rows' = Replaced(job[h]) /\ At(h, "create")
  BY DEF RefuseLogin
<1>4. ASSUME NEW s \in Sids PROVE RowMoves(s) /\ rows'[s] \in SessionRow \cup {Absent}
  <2>1. CASE s \notin SameDevice(job[h])
    BY <1>3, <2>1, ReplacedRows DEF RowMoves, Keeps
  <2>2. CASE s \in SameDevice(job[h])
    BY <1>3, <2>2, ReplacedRows DEF RowMoves, Ends
  <2> QED BY <2>1, <2>2
<1>5. TablesMove
  <2>1. rows' = [s \in Sids |-> rows'[s]]
    BY <1>3 DEF Replaced
  <2> QED BY <1>2, <1>4, <2>1 DEF TablesMove, SessionIInv, TablesFit
<1> QED BY <1>1, <1>2, <1>4, <1>5, WriteStep

\* A login within the limit (createWithinLimit).
LEMMA StepOpen ==
  ASSUME SessionIInv, NEW h \in Handlers, NEW s \in Sids, CreateSession(h, s)
  PROVE  StepOf(h)
<1> DEFINE j == job[h]
           r == [device |-> j.device, revoked |-> "no", jti |-> 1, prev |-> 0, rotated |-> 0,
                 expires |-> j.now + Ttl]
           k == [op |-> "answer", sid |-> s, jti |-> 1]
<1>1. j \in LoginJob /\ j.now <= clock /\ \A t \in j.found : rows[t] # Absent
  BY DEF SessionIInv, JobsFit, Holds, FitsAt, CreateSession, At
<1>2. 0 \in Jtis /\ 1 \in Jtis /\ 1 \in 1 .. MaxJti
  BY SessionConstants DEF Jtis
<1>3. 0 \in Instants /\ j.now + Ttl \in Instants /\ j.now + Ttl <= clock + Ttl
  BY <1>1, SessionConstants DEF LoginJob, Times, Instants, SessionIInv, TablesFit
<1>4. r \in SessionRow /\ r.revoked = "no" /\ r.expires <= clock + Ttl
  BY <1>1, <1>2, <1>3 DEF LoginJob, SessionRow
<1>5. /\ rows' = [Replaced(j) EXCEPT ![s] = r] /\ minted' = [minted EXCEPT ![s] = 1]
      /\ UNCHANGED <<handed, clock>> /\ Goto(h, "respond") /\ Set(h, k) /\ At(h, "create")
      /\ rows[s] = Absent
  BY DEF CreateSession, Answer
<1>6. s \notin SameDevice(j)
  BY <1>1, <1>5 DEF SameDevice
<1> HIDE DEF r
<1>7. ASSUME NEW t \in Sids PROVE RowMoves(t) /\ rows'[t] \in SessionRow \cup {Absent}
  <2>1. CASE t = s
    <3>1. rows'[t] = r
      BY <1>5, <2>1 DEF Replaced
    <3>2. pc[h] = "create" /\ pc'[h] = "respond"
      BY <1>5 DEF At, Goto, SessionIInv, JobsFit
    <3> QED BY <1>4, <1>5, <2>1, <3>1, <3>2 DEF RowMoves, Opens
  <2>2. CASE t # s /\ t \notin SameDevice(j)
    <3>1. rows'[t] = rows[t]
      BY <1>5, <2>2 DEF Replaced
    <3> QED BY <3>1 DEF RowMoves, Keeps, SessionIInv, TablesFit
  <2>3. CASE t \in SameDevice(j)
    <3>1. rows'[t] = Replaced(j)[t]
      BY <1>5, <1>6, <2>3 DEF Replaced
    <3> QED BY <1>5, <2>3, <3>1, ReplacedRows DEF RowMoves, Ends
  <2> QED BY <2>1, <2>2, <2>3
<1>8. TablesMove
  <2>1. rows' = [t \in Sids |-> rows'[t]]
    BY <1>5 DEF Replaced
  <2> QED BY <1>2, <1>5, <1>7, <2>1 DEF TablesMove, SessionIInv, TablesFit
<1>9. Holds("respond", k) /\ rows'[k.sid] # Absent
  <2>1. rows'[s] = r
    BY <1>5 DEF Replaced
  <2>2. r # Absent
    BY <1>4, AbsentIsNoRow
  <2> QED BY <1>2, <2>1, <2>2 DEF Holds, FitsAt, Labels, AnswerJob
<1> QED BY <1>5, <1>7, <1>8, <1>9, WriteStep

\* One UPDATE of a revocation (revoke).
LEMMA StepRevoke ==
  ASSUME SessionIInv, NEW h \in Handlers, NEW s \in Sids, RevokeNext(h, s)
  PROVE  StepOf(h)
<1> DEFINE j == job[h]
           todo == j.todo \ {s}
           k == IF todo = {} /\ j.op # "password" THEN NoJob ELSE [j EXCEPT !.todo = todo]
           label == IF todo # {} THEN "revoke" ELSE IF j.op = "password" THEN "reissue" ELSE "idle"
<1>0. Holds("revoke", j) /\ j \in RevokeJob \cup PasswordJob /\ At(h, "revoke")
  BY DEF SessionIInv, JobsFit, Holds, FitsAt, RevokeNext, At
<1>1. j \in RevokeJob => [j EXCEPT !.todo = todo] \in RevokeJob /\ j.op = "revoke"
  BY DEF RevokeJob
<1>2. j \in PasswordJob => /\ [j EXCEPT !.todo = todo] \in PasswordJob /\ j.op = "password"
                           /\ [j EXCEPT !.todo = todo].op = "password"
                           /\ [j EXCEPT !.todo = todo].sid = j.sid
  BY DEF PasswordJob
<1>3. [j EXCEPT !.todo = todo] \in RevokeJob => [j EXCEPT !.todo = todo].op = "revoke"
  BY DEF RevokeJob
<1>4. Holds(label, k)
  BY <1>0, <1>1, <1>2, <1>3 DEF Holds, FitsAt, Labels, NoJob
<1>5. Goto(h, label) /\ Set(h, k)
  <2>1. AfterRevoke(h, todo)
    BY DEF RevokeNext
  <2>2. CASE todo # {}
    <3>1. pc' = [pc EXCEPT ![h] = "revoke"]
      BY <1>0, <2>1, <2>2 DEF AfterRevoke, At, SessionIInv, JobsFit
    <3> QED BY <2>1, <2>2, <3>1 DEF AfterRevoke, Goto
  <2>3. CASE todo = {}
    BY <2>1, <2>3 DEF AfterRevoke, Finish
  <2> QED BY <2>2, <2>3
<1>6. /\ rows' = IF Unrevoked(s) THEN [rows EXCEPT ![s] = Revoked(@)] ELSE rows
      /\ UNCHANGED <<minted, handed, clock>>
  BY DEF RevokeNext
<1>7. label \notin {"create", "reload", "flush", "respond"}
  OBVIOUS
<1> HIDE DEF k, label
<1>8. ASSUME Unrevoked(s)
      PROVE  /\ rows[s] \in SessionRow /\ Revoked(rows[s]) \in SessionRow
             /\ Ends(s) /\ rows'[s] = Revoked(rows[s])
  <2>1. rows[s] \in SessionRow
    BY <1>8, RowIsThere DEF Unrevoked, SessionIInv
  <2>2. rows'[s] = Revoked(rows[s])
    BY <1>6, <1>8 DEF SessionIInv, TablesFit
  <2>3. rows[s].expires <= clock + Ttl
    BY <1>8 DEF Unrevoked, SessionIInv, TablesFit
  <2> QED BY <2>1, <2>2, <2>3, RevokedRow DEF Ends
<1>9. \A t \in Sids : RowMoves(t)
  <2>1. \A t \in Sids \ {s} : Keeps(t)
    BY <1>6 DEF Keeps, SessionIInv, TablesFit
  <2>2. Keeps(s) \/ Ends(s)
    BY <1>6, <1>8 DEF Keeps
  <2> QED BY <2>1, <2>2 DEF RowMoves
<1>10. TablesMove
  <2>1. rows' \in [Sids -> SessionRow \cup {Absent}]
    BY <1>6, <1>8 DEF SessionIInv, TablesFit
  <2> QED BY <1>6, <2>1 DEF TablesMove, SessionIInv, TablesFit
<1> QED BY <1>4, <1>5, <1>7, <1>9, <1>10, WriteStep

\* What reissue reads (findOne).
LEMMA StepReadReissue ==
  ASSUME SessionIInv, NEW h \in Handlers, ReadReissue(h) PROVE StepOf(h)
<1> DEFINE s == job[h].sid
           next == minted[s] + 1
           e == [rows[s] EXCEPT !.prev = rows[s].jti, !.jti = next, !.rotated = clock,
                                !.expires = clock + Ttl]
           k == [op |-> "reissue", sid |-> s, dirty |-> {}, entity |-> e]
<1>1. /\ job[h] \in PasswordJob /\ s \in Sids /\ rows[s] # Absent
      /\ s \notin revived /\ Unrevoked(s) => Live(s)
  BY DEF SessionIInv, JobsFit, Holds, FitsAt, ReadReissue, At, PasswordJob
<1>2. /\ next <= MaxJti /\ Unrevoked(s)
      /\ Goto(h, "reload") /\ Set(h, k) /\ minted' = [minted EXCEPT ![s] = next]
      /\ UNCHANGED <<rows, handed, clock>>
  BY DEF ReadReissue
<1>3. rows[s] \in SessionRow /\ rows[s].revoked = "no" /\ rows[s].expires <= clock + Ttl
  BY <1>1, <1>2, RowIsThere DEF SessionIInv, TablesFit, Unrevoked
<1>4. next \in 1 .. MaxJti /\ next \in Jtis /\ next > 0
  BY <1>1, <1>2, SessionConstants DEF SessionIInv, TablesFit, Jtis
<1>5. clock \in Instants /\ clock + Ttl \in Instants /\ clock + Ttl \in Nat /\ clock + Ttl > clock
  BY SessionConstants DEF Times, Instants, SessionIInv, TablesFit
<1>6. /\ e \in SessionRow /\ e.revoked = "no" /\ e.prev = rows[s].jti /\ e.jti = next
      /\ e.expires = clock + Ttl
  <2> HIDE DEF s, next
  <2> QED BY <1>3, <1>4, <1>5 DEF SessionRow
<1> HIDE DEF e
<1>7. k \in ReissueJob /\ k.op = "reissue" /\ k.sid = s /\ k.entity = e
  BY <1>1, <1>6 DEF ReissueJob
<1>8. Holds("reload", k)
  <2>1. Renewed(e)
    BY <1>4, <1>5, <1>6 DEF Renewed
  <2> QED BY <1>1, <1>7, <2>1 DEF Holds, FitsAt, Labels
<1>9. StaysAsRead("reload", k)
  BY <1>3, <1>6, <1>7 DEF StaysAsRead
<1> HIDE DEF k
<1>11. /\ pc' \in [Handlers -> Labels] /\ job' = [g \in Handlers |-> job'[g]]
       /\ pc'[h] = "reload" /\ job'[h] = k
       /\ \A g \in Handlers \ {h} : pc'[g] = pc[g] /\ job'[g] = job[g]
  BY <1>2, OneJob DEF SessionIInv, Labels
<1>12. Moves(h)
  BY <1>2, <1>8, <1>9, <1>11 DEF Moves
<1>13. TablesMove /\ \A t \in Sids : RowMoves(t)
  BY <1>1, <1>2, <1>4 DEF TablesMove, SessionIInv, TablesFit, RowMoves, Keeps
<1> QED BY <1>11, <1>12, <1>13 DEF StepOf

\* What save reads again, to write what differs.
LEMMA StepReload ==
  ASSUME SessionIInv, NEW h \in Handlers, Reload(h) PROVE StepOf(h)
<1> DEFINE j == job[h]
           dirty == {c \in DOMAIN j.entity : j.entity[c] # rows[j.sid][c]}
           k == [j EXCEPT !.dirty = dirty]
<1>1. /\ j \in ReissueJob /\ Holds("reload", j) /\ InReissue(h)
      /\ h \notin outrun => StaysAsRead("reload", j)
  BY DEF SessionIInv, JobsFit, ReissueFits, InReissue, Holds, FitsAt, Reload, At
<1>2. DOMAIN j.entity = Columns
  BY <1>1 DEF ReissueJob, SessionRow, Columns
<1>3. /\ k \in ReissueJob /\ k.op = j.op /\ k.sid = j.sid /\ k.entity = j.entity /\ k.dirty = dirty
  BY <1>1, <1>2 DEF ReissueJob
<1>4. Goto(h, "flush") /\ Set(h, k) /\ UNCHANGED <<rows, minted, handed, clock>>
  BY DEF Reload
<1>5. \A c \in Columns : k.entity[c] # rows[k.sid][c] => c \in k.dirty
  BY <1>2, <1>3
<1> HIDE DEF k
<1>6. Holds("flush", k)
  BY <1>1, <1>3 DEF Holds, FitsAt, Labels
<1>7. h \notin outrun => StaysAsRead("flush", k)
  BY <1>1, <1>3, <1>5 DEF StaysAsRead
<1>8. /\ pc' \in [Handlers -> Labels] /\ job' = [g \in Handlers |-> job'[g]]
      /\ pc'[h] = "flush" /\ job'[h] = k
      /\ \A g \in Handlers \ {h} : pc'[g] = pc[g] /\ job'[g] = job[g]
  BY <1>4, OneJob DEF SessionIInv, Labels
<1>9. Moves(h)
  BY <1>1, <1>4, <1>6, <1>7, <1>8 DEF Moves
<1>10. TablesMove /\ \A t \in Sids : RowMoves(t)
  BY <1>4 DEF TablesMove, SessionIInv, TablesFit, RowMoves, Keeps
<1> QED BY <1>8, <1>9, <1>10 DEF StepOf

\* What save writes: the row as it was read, with the new token, whatever has
\* become of it since.
LEMMA StepFlush ==
  ASSUME SessionIInv, NEW h \in Handlers, Flush(h) PROVE StepOf(h)
<1> DEFINE j == job[h]
           s == j.sid
           r == [c \in DOMAIN rows[s] |-> IF c \in j.dirty THEN j.entity[c] ELSE rows[s][c]]
           k == [op |-> "answer", sid |-> s, jti |-> j.entity.jti]
<1>1. /\ j \in ReissueJob /\ Holds("flush", j) /\ Renewed(j.entity) /\ InReissue(h)
      /\ h \notin outrun => StaysAsRead("flush", j)
  BY DEF SessionIInv, JobsFit, ReissueFits, InReissue, Holds, FitsAt, Flush, At
<1>2. /\ s \in Sids /\ j.op = "reissue" /\ j.entity \in SessionRow
  BY <1>1 DEF ReissueJob
<1>3. /\ rows[s] # Absent /\ rows[s] \in SessionRow /\ rows[s].expires <= clock + Ttl
      /\ s \notin revived /\ Unrevoked(s) => Live(s)
  BY <1>1, <1>2, RowIsThere DEF SessionIInv, Holds, TablesFit
<1>4. r \in SessionRow /\ \A c \in Columns : r[c] = IF c \in j.dirty THEN j.entity[c] ELSE rows[s][c]
  <2> HIDE DEF s, j
  <2> QED BY <1>2, <1>3 DEF SessionRow, Columns
<1>5. /\ rows' = [rows EXCEPT ![s] = r] /\ UNCHANGED <<minted, handed, clock>>
      /\ Goto(h, "respond") /\ Set(h, k) /\ At(h, "flush")
  BY DEF Flush, Answer
<1> HIDE DEF r
<1>6. /\ r.revoked \in {"no", rows[s].revoked}
      /\ r.expires <= clock + Ttl /\ (rows[s].expires > clock => r.expires > clock)
      /\ h \notin outrun => rows[s].revoked = "no" /\ r.prev = rows[s].jti
  <2>1. {"revoked", "prev", "expires"} \subseteq Columns
    BY DEF Columns
  <2>2. r.revoked \in {j.entity.revoked, rows[s].revoked} /\ r.expires \in {j.entity.expires, rows[s].expires}
    BY <1>4, <2>1
  <2>3. h \notin outrun => r.prev = j.entity.prev
    BY <1>1, <1>4, <2>1 DEF StaysAsRead
  <2> QED BY <1>1, <1>3, <2>2, <2>3 DEF StaysAsRead, Renewed
<1>7. j.entity.jti \in 1 .. MaxJti
  BY <1>1, <1>2, SessionConstants DEF Renewed, SessionRow, Jtis
<1>8. Holds("respond", k) /\ k.sid = s
  BY <1>2, <1>7 DEF Holds, FitsAt, Labels, AnswerJob
<1> HIDE DEF k
<1>9. rows'[s] = r /\ rows'[s] # Absent
  BY <1>2, <1>4, <1>5, AbsentIsNoRow DEF SessionIInv, TablesFit
<1>10. pc'[h] = "respond"
  BY <1>5 DEF Goto, SessionIInv, JobsFit
<1>11. h \in outrun => SavesLate(h, s)
  BY <1>5, <1>10 DEF SavesLate
<1>12. \A t \in Sids : RowMoves(t)
  <2>1. \A t \in Sids \ {s} : Keeps(t)
    BY <1>5 DEF Keeps, SessionIInv, TablesFit
  <2>2. CASE rows[s].revoked = "no"
    <3>1. Live(s) \/ s \in revived
      BY <1>3, <2>2 DEF Unrevoked
    <3>2. Live(s) => rows'[s].expires > clock
      BY <1>6, <1>9 DEF Live
    <3>3. Renews(s)
      BY <1>3, <1>4, <1>6, <1>9, <1>11, <2>2, <3>1, <3>2 DEF Renews
    <3> QED BY <2>1, <3>3 DEF RowMoves
  <2>3. CASE rows[s].revoked # "no"
    <3>1. rows[s].revoked = "yes" /\ h \in outrun
      BY <1>3, <1>6, <2>3 DEF SessionRow
    <3>2. Returns(s) \/ Ends(s)
      BY <1>3, <1>4, <1>6, <1>9, <1>11, <3>1 DEF Returns, Ends
    <3> QED BY <2>1, <3>2 DEF RowMoves
  <2> QED BY <2>2, <2>3
<1>13. TablesMove
  BY <1>4, <1>5 DEF TablesMove, SessionIInv, TablesFit
<1> QED BY <1>5, <1>8, <1>9, <1>12, <1>13, WriteStep

-----------------------------------------------------------------------------
(* The invariant *)

\* A row that is there stays; and unless it has come back from being revoked, one
\* that is live was live or is new.
LEMMA RowsStay ==
  ASSUME SessionIInv, NEW s \in Sids, RowMoves(s), Watch, clock' = clock
  PROVE  /\ rows[s] # Absent => rows'[s] # Absent
         /\ rows'[s] # Absent => rows'[s].expires <= clock' + Ttl
         /\ s \notin revived' => /\ s \notin revived
                                 /\ Live(s)' => Live(s) \/ Opens(s)
                                 /\ Unrevoked(s)' => Live(s)' \/ (Unrevoked(s) /\ ~Live(s)) \/ Opens(s)
<1> USE DEF RowMoves
<1>0. clock \in Nat /\ Ttl \in Nat
  BY SessionConstants DEF SessionIInv, TablesFit, Times
<1>00. s \notin revived' => s \notin revived
  BY DEF Watch
<1>1. CASE Keeps(s)
  BY <1>00, <1>1 DEF Keeps, Live, Unrevoked, SessionIInv, TablesFit
<1>2. CASE Ends(s)
  <2>1. rows[s] # Absent /\ rows'[s] # Absent
    BY <1>2, AbsentIsNoRow DEF Ends
  <2> QED BY <1>00, <1>2, <2>1 DEF Ends, Live, Unrevoked, SessionIInv, TablesFit
<1>3. CASE Opens(s)
  <2>1. rows'[s] # Absent
    BY <1>3, AbsentIsNoRow DEF Opens
  <2> QED BY <1>00, <1>3, <2>1 DEF Opens
<1>4. CASE Renews(s)
  <2>1. rows'[s] # Absent
    BY <1>4, AbsentIsNoRow DEF Renews
  <2> QED BY <1>00, <1>4, <2>1 DEF Renews, Live, Unrevoked
<1>5. CASE Returns(s)
  <2>1. rows[s] # Absent /\ rows'[s] # Absent
    BY <1>5, AbsentIsNoRow DEF Returns
  <2>2. s \in revived'
    BY <1>5, <2>1 DEF Returns, Watch, Ended
  <2> QED BY <1>5, <2>1, <2>2 DEF Returns
<1> QED BY <1>1, <1>2, <1>3, <1>4, <1>5

\* What holds of a request where it has got to, held of the rows before the
\* step, holds of them after it.
LEMMA HoldsOn ==
  ASSUME SessionIInv, NEW h \in Handlers, Holds(pc'[h], job'[h]), Watch, clock' = clock,
         \A s \in Sids : RowMoves(s)
  PROVE  Holds(pc[h], job[h])'
<1>1. FitsAt(pc[h], job[h])'
  BY DEF Holds, FitsAt
<1>2. pc'[h] \in {"rotate", "missed"} => rows'[job'[h].sid] # Absent
  BY <1>1, RowsStay DEF Holds, FitsAt, RefreshJob
<1>3. pc'[h] = "create" => \A s \in job'[h].found : rows'[s] # Absent
  BY <1>1, RowsStay DEF Holds, FitsAt, LoginJob
<1>4. ASSUME job'[h].op \in {"password", "reissue"}
      PROVE  /\ rows'[job'[h].sid] # Absent
             /\ job'[h].sid \notin revived' /\ Unrevoked(job[h].sid)' => Live(job[h].sid)'
  <2> DEFINE s == job'[h].sid
  <2>1. s \in Sids
    BY <1>1, <1>4 DEF FitsAt, Labels, NoJob, LoginJob, RefreshJob, AnswerJob, RevokeJob, PasswordJob, ReissueJob
  <2>2. rows[s] # Absent /\ (s \notin revived /\ Unrevoked(s) => Live(s))
    BY <1>4 DEF Holds
  <2>3. ~Opens(s)
    BY <2>2 DEF Opens
  <2> QED BY <2>1, <2>2, <2>3, RowsStay
<1>5. pc'[h] \in {"reload", "flush"} => Renewed(job[h].entity)'
  BY DEF Holds, Renewed
<1> QED BY <1>1, <1>2, <1>3, <1>4, <1>5 DEF Holds

\* The part of the invariant about single requests and rows survives any step
\* of a request.
LEMMA StepKeeps ==
  ASSUME SessionIInv, NEW h \in Handlers, StepOf(h), Watch
  PROVE  TablesFit' /\ HistoryFits' /\ JobsFit' /\ LoginFits' /\ ReissueFits'
<1>0. /\ clock' = clock /\ \A s \in Sids : RowMoves(s)
      /\ \A g \in Handlers \ {h} : pc'[g] = pc[g] /\ job'[g] = job[g]
  BY DEF StepOf, TablesMove
<1>1. TablesFit' /\ HistoryFits'
  <2>1. HistoryFits'
    BY DEF Watch, HistoryFits, SessionIInv
  <2> QED BY <1>0, <2>1, RowsStay DEF StepOf, TablesMove, SessionIInv, TablesFit
<1>2. JobsFit'
  <2>1. ASSUME NEW g \in Handlers PROVE Holds(pc[g], job[g])'
    <3>1. Holds(pc'[g], job'[g])
      BY <1>0 DEF StepOf, Moves, SessionIInv, JobsFit
    <3> QED BY <1>0, <3>1, HoldsOn
  <2>2. ASSUME NEW g \in Handlers, pc'[g] = "respond" PROVE rows'[job'[g].sid] # Absent
    <3>1. CASE g = h
      BY <2>2, <3>1 DEF StepOf, Moves
    <3>2. CASE g # h
      <4>1. pc[g] = "respond" /\ job'[g] = job[g] /\ rows[job[g].sid] # Absent /\ job[g].sid \in Sids
        BY <1>0, <2>2, <3>2 DEF SessionIInv, JobsFit, Holds, FitsAt, AnswerJob
      <4> QED BY <1>0, <4>1, RowsStay
    <3> QED BY <3>1, <3>2
  <2> QED BY <2>1, <2>2 DEF JobsFit, StepOf
<1>3. LoginFits'
  <2> SUFFICES ASSUME NEW g \in Handlers, pc'[g] = "create"
               PROVE  /\ \A q \in Handlers : pc'[q] = "create" => q = g
                      /\ \A s \in Sids \ revived' : Live(s)' => s \in job'[g].found
    BY DEF LoginFits
  <2>1. pc'[g] = "create"
    OBVIOUS
  <2>2. CASE g = h
    <3>1. /\ \A q \in Handlers : pc[q] # "create"
          /\ \A s \in Sids : Live(s) => s \in job'[h].found
      BY <2>1, <2>2 DEF StepOf, Moves
    <3>2. \A s \in Sids : ~Opens(s)
      BY <3>1 DEF Opens
    <3>3. pc'[h] = "create" => \A q \in Handlers \ {h} : pc'[q] # "create"
      BY <1>0, <3>1
    <3> QED BY <1>0, <2>1, <2>2, <3>1, <3>2, <3>3, RowsStay
  <2>3. CASE g # h
    <3>1. pc[g] = "create" /\ job'[g] = job[g]
      BY <1>0, <2>1, <2>3
    <3>2. /\ \A q \in Handlers : pc[q] = "create" => q = g
          /\ \A s \in Sids \ revived : Live(s) => s \in job[g].found
      BY <3>1 DEF SessionIInv, LoginFits
    <3>3. \A s \in Sids : ~Opens(s)
      BY <2>1, <3>2 DEF Opens
    <3>4. pc'[h] # "create"
      BY <3>1 DEF StepOf, Moves
    <3> QED BY <1>0, <3>1, <3>2, <3>3, <3>4, RowsStay
  <2> QED BY <2>2, <2>3
<1>4. ReissueFits'
  <2> SUFFICES ASSUME NEW g \in Handlers, InReissue(g)', g \notin outrun'
               PROVE  StaysAsRead(pc[g], job[g])'
    BY DEF ReissueFits
  <2>1. InReissue(g) => g \notin outrun /\ rows'[job[g].sid] = rows[job[g].sid]
    BY DEF Watch
  <2>2. CASE g = h
    <3>1. rows' = rows /\ StaysAsRead(pc'[g], job'[g])
      BY <2>1, <2>2 DEF StepOf, Moves, InReissue
    <3> QED BY <3>1 DEF StaysAsRead
  <2>3. CASE g # h
    <3>1. pc'[g] = pc[g] /\ job'[g] = job[g] /\ InReissue(g)
      BY <1>0, <2>3 DEF InReissue
    <3>2. StaysAsRead(pc[g], job[g])
      BY <2>1, <3>1 DEF SessionIInv, ReissueFits
    <3> QED BY <2>1, <3>1, <3>2 DEF StaysAsRead
  <2> QED BY <2>2, <2>3
<1> QED BY <1>1, <1>2, <1>3, <1>4

\* Sessions are finitely many.
LEMMA SidsFinite == ASSUME NEW S \in SUBSET Sids PROVE IsFiniteSet(S) /\ Cardinality(S) \in Nat
  BY AbsentIsNoRow, FS_Subset, FS_CardinalityType

\* A login goes ahead when it counts fewer devices than the limit; what it has
\* not counted it has ended, or it was not live (createWithinLimit).
LEMMA OpenKeepsLimit ==
  ASSUME SessionIInv, NEW h \in Handlers, NEW s \in Sids, CreateSession(h, s), Watch
  PROVE  WithinLimit'
<1> DEFINE j == job[h]
<1>1. j \in LoginJob /\ j.now <= clock /\ At(h, "create")
  BY DEF SessionIInv, JobsFit, Holds, FitsAt, CreateSession, At
<1>2. \A t \in Sids \ revived : Live(t) => t \in j.found
  BY <1>1 DEF SessionIInv, LoginFits, At
<1>3. clock \in Nat /\ j.now \in Nat /\ Limit \in Nat
  BY <1>1, SessionConstants DEF SessionIInv, TablesFit, Times, LoginJob
<1>4. Active(j) \in SUBSET Sids /\ Cardinality(Active(j)) < Limit
  BY <1>1 DEF Active, LoginJob, CreateSession
<1>5. ASSUME NEW t \in Sids, t # s, t \notin revived', Live(t)' PROVE t \in Active(j)
  <2>1. t \notin revived
    BY <1>5 DEF Watch
  <2>2. t \notin SameDevice(j)
    <3>1. ASSUME t \in SameDevice(j) PROVE FALSE
      <4>1. rows'[t] = Replaced(j)[t]
        BY <1>5 DEF CreateSession, Replaced
      <4>2. rows'[t] = Revoked(rows[t]) /\ Revoked(rows[t]).revoked = "yes"
        BY <1>1, <3>1, <4>1, ReplacedRows
      <4> QED BY <1>5, <4>2 DEF Live, Unrevoked
    <3> QED BY <3>1
  <2>3. rows'[t] = rows[t] /\ clock' = clock
    BY <1>5, <2>2 DEF CreateSession, Replaced
  <2>4. Live(t)
    BY <1>5, <2>3 DEF Live, Unrevoked
  <2>5. rows[t].expires \in Nat
    BY <2>4, RowIsThere, SessionConstants DEF Live, Unrevoked, SessionIInv, SessionRow, Instants
  <2> QED BY <1>1, <1>2, <1>3, <2>1, <2>2, <2>4, <2>5 DEF Active, Live
<1>6. (LiveSids \ revived)' \subseteq Active(j) \cup {s}
  BY <1>5 DEF LiveSids
<1>7. Cardinality(Active(j) \cup {s}) <= Cardinality(Active(j)) + 1 /\ IsFiniteSet(Active(j) \cup {s})
  BY <1>4, SidsFinite, FS_AddElement
<1>8. /\ Cardinality((LiveSids \ revived)') <= Cardinality(Active(j) \cup {s})
      /\ (LiveSids \ revived)' \in SUBSET Sids
  BY <1>6, <1>7, FS_Subset DEF LiveSids
<1>9. /\ Cardinality((LiveSids \ revived)') \in Nat /\ Cardinality(Active(j)) \in Nat
      /\ Cardinality(Active(j) \cup {s}) \in Nat
  BY <1>4, <1>8, SidsFinite
<1> QED BY <1>3, <1>4, <1>7, <1>8, <1>9 DEF WithinLimit

\* Where no session opens, and none counts that has come back, none comes to life.
LEMMA FewerKeepLimit ==
  ASSUME SessionIInv, (LiveSids \ revived)' \subseteq LiveSids \ revived PROVE WithinLimit'
<1>1. /\ Cardinality((LiveSids \ revived)') <= Cardinality(LiveSids \ revived) /\ Limit \in Nat
  BY SidsFinite, FS_Subset, SessionConstants DEF LiveSids
<1>2. LiveSids \ revived \in SUBSET Sids /\ (LiveSids \ revived)' \in SUBSET Sids
  BY DEF LiveSids
<1>3. Cardinality(LiveSids \ revived) \in Nat /\ Cardinality((LiveSids \ revived)') \in Nat
  BY <1>2, SidsFinite
<1> QED BY <1>1, <1>3 DEF WithinLimit, SessionIInv

\* Time passes: sessions expire, and none in use does.
LEMMA StepTick ==
  ASSUME SessionIInv, Tick, Watch PROVE SessionIInv'
<1>0. /\ clock \in Nat /\ clock' = clock + 1 /\ clock' \in Times /\ Ttl \in Nat /\ Limit \in Nat
      /\ rows' = rows /\ minted' = minted /\ handed' = handed /\ pc' = pc /\ job' = job
  BY SessionConstants DEF Tick, SessionIInv, TablesFit, Times
<1>1. \A s \in Sids : rows[s] # Absent => rows[s].expires \in Nat
  BY RowIsThere, SessionConstants DEF SessionIInv, SessionRow, Instants
<1>2. \A s \in Sids : (Live(s)' => Live(s)) /\ (Unrevoked(s)' <=> Unrevoked(s))
  BY <1>0, <1>1 DEF Live, Unrevoked
<1>3. TablesFit' /\ HistoryFits' /\ revived' = revived
  <2>1. TablesFit'
    BY <1>0, <1>1 DEF SessionIInv, TablesFit
  <2>2. HistoryFits' /\ revived' = revived
    BY <1>0 DEF Watch, HistoryFits, SessionIInv, Ended
  <2> QED BY <2>1, <2>2
<1>4. JobsFit'
  <2>1. ASSUME NEW h \in Handlers PROVE Holds(pc[h], job[h])'
    <3>1. Holds(pc[h], job[h])
      BY DEF SessionIInv, JobsFit
    <3>2. FitsAt(pc[h], job[h])'
      BY <1>0, <3>1 DEF Holds, FitsAt
    <3>3. pc[h] \in {"lock", "create", "rotate", "missed"} => job[h].now <= clock'
      <4>1. pc[h] \in {"lock", "create", "rotate", "missed"} => job[h].now \in Nat /\ job[h].now <= clock
        BY <3>1, SessionConstants DEF Holds, FitsAt, LoginJob, RefreshJob, Times
      <4> QED BY <1>0, <4>1
    <3>4. pc[h] = "rotate" => job[h].now + Ttl > clock'
      BY <1>0 DEF Tick, At
    <3>5. ASSUME job[h].op \in {"password", "reissue"}
          PROVE  /\ rows[job[h].sid] # Absent
                 /\ job[h].sid \notin revived' /\ Unrevoked(job[h].sid)' => Live(job[h].sid)'
      <4>1. job[h].sid \in Sids
        BY <3>1, <3>5 DEF Holds, FitsAt, Labels, NoJob, LoginJob, RefreshJob, AnswerJob, RevokeJob,
                          PasswordJob, ReissueJob
      <4>2. /\ rows[job[h].sid] # Absent
            /\ job[h].sid \notin revived /\ Unrevoked(job[h].sid) => Live(job[h].sid)
        BY <3>1, <3>5 DEF Holds
      <4>3. Live(job[h].sid) => rows[job[h].sid].expires > clock + 1
        BY <3>5, <4>1 DEF Tick, InUse
      <4> QED BY <1>0, <1>3, <4>1, <4>2, <4>3 DEF Live, Unrevoked
    <3>6. pc[h] \in {"reload", "flush"} => Renewed(job[h].entity)'
      <4>1. ASSUME pc[h] \in {"reload", "flush"}
            PROVE  /\ Renewed(job[h].entity) /\ job[h].entity.expires \in Nat
                   /\ job[h].entity.expires > clock + 1
        BY <3>1, <4>1, SessionConstants
           DEF Tick, InReissue, Holds, FitsAt, ReissueJob, SessionRow, Instants
      <4> QED BY <1>0, <4>1 DEF Renewed
    <3> QED BY <1>0, <3>1, <3>2, <3>3, <3>4, <3>5, <3>6 DEF Holds
  <2> QED BY <1>0, <2>1 DEF SessionIInv, JobsFit
<1>5. LoginFits'
  BY <1>0, <1>2, <1>3 DEF SessionIInv, LoginFits
<1>6. ReissueFits'
  <2> SUFFICES ASSUME NEW h \in Handlers, InReissue(h), h \notin outrun'
               PROVE  StaysAsRead(pc[h], job[h])'
    BY <1>0 DEF ReissueFits, InReissue
  <2>1. h \notin outrun
    BY <1>0 DEF Watch, InReissue
  <2> QED BY <1>0, <2>1 DEF SessionIInv, ReissueFits, StaysAsRead
<1>7. WithinLimit'
  BY <1>2, <1>3, FewerKeepLimit DEF LiveSids
<1> QED BY <1>3, <1>4, <1>5, <1>6, <1>7 DEF SessionIInv

\* A request's step is one of the above.
LEMMA StepRequest ==
  ASSUME SessionIInv, NEW h \in Handlers, RequestStep(h) PROVE StepOf(h)
  BY StepStart, StepEnd, StepMiss, StepFind, StepRespond, StepRotate, StepRefuse, StepOpen,
     StepRevoke, StepReadReissue, StepReload, StepFlush DEF RequestStep

\* Only a login that succeeds adds to the devices signed in.
LEMMA StepWithinLimit ==
  ASSUME SessionIInv, NEW h \in Handlers, RequestStep(h), Watch PROVE WithinLimit'
<1>1. StepOf(h)
  BY StepRequest
<1>2. ASSUME \A s \in Sids : ~CreateSession(h, s) PROVE WithinLimit'
  <2>1. pc[h] = "create" => pc'[h] # "respond"
    BY <1>2 DEF RequestStep, StartLogin, StartRevoke, StartPasswordChange, StartRefresh, StartPasswordReset,
       Begin, FindSessions, RefuseLogin, Respond, RevokeNext, Rotate, MissRotation, ExplainMiss, ReadReissue,
       RefuseReissue, Reload, Flush, Fail, Finish, Goto, At, SessionIInv, JobsFit
  <2>2. \A s \in Sids : ~Opens(s)
    BY <1>1, <2>1 DEF Opens, StepOf
  <2>3. (LiveSids \ revived)' \subseteq LiveSids \ revived
    BY <1>1, <2>2, RowsStay DEF StepOf, TablesMove, LiveSids
  <2> QED BY <2>3, FewerKeepLimit
<1> QED BY <1>2, OpenKeepsLimit

\* Every step keeps the invariant.
LEMMA SessionStep == SessionIInv /\ [SessionNext]_sessionVars => SessionIInv'
<1> SUFFICES ASSUME SessionIInv, [SessionNext]_sessionVars PROVE SessionIInv'
  OBVIOUS
<1>1. ASSUME NEW h \in Handlers, RequestStep(h), Watch PROVE SessionIInv'
  BY <1>1, StepRequest, StepWithinLimit, StepKeeps DEF SessionIInv
<1>2. ASSUME Tick, Watch PROVE SessionIInv'
  BY <1>2, StepTick
<1>3. CASE UNCHANGED sessionVars
  BY <1>3 DEF sessionVars, SessionIInv, TablesFit, HistoryFits, JobsFit, Holds, FitsAt, Renewed, LoginFits,
         ReissueFits, StaysAsRead, WithinLimit, LiveSids, Live, Unrevoked, InReissue
<1> QED BY <1>1, <1>2, <1>3 DEF SessionNext

\* Nobody is signed in at first.
LEMMA SessionInit_IInv == SessionInit => SessionIInv
<1> SUFFICES ASSUME SessionInit PROVE SessionIInv
  OBVIOUS
<1>1. TablesFit /\ HistoryFits
  BY SessionConstants DEF SessionInit, TablesFit, HistoryFits, Jtis, Times
<1>2. JobsFit /\ LoginFits /\ ReissueFits
  BY DEF SessionInit, JobsFit, Holds, FitsAt, Labels, NoJob, LoginFits, ReissueFits, InReissue
<1>3. LiveSids \ revived = {}
  BY DEF SessionInit, LiveSids, Live, Unrevoked
<1>4. WithinLimit
  BY <1>3, FS_EmptySet, SessionConstants DEF WithinLimit
<1> QED BY <1>1, <1>2, <1>4 DEF SessionIInv

\* The invariant gives the types the module states.
LEMMA SessionTypes == SessionIInv => SessionTypeOK
<1> SUFFICES ASSUME SessionIInv PROVE SessionTypeOK
  OBVIOUS
<1>1. ASSUME NEW h \in Handlers PROVE job[h] \in Jobs /\ (pc[h] = "idle" <=> job[h] = NoJob)
  <2>1. FitsAt(pc[h], job[h]) /\ Times \subseteq Instants /\ 1 .. MaxJti \subseteq Jtis
    BY SessionConstants DEF SessionIInv, JobsFit, Holds, Times, Instants, Jtis
  <2> QED BY <2>1 DEF FitsAt, Labels, Jobs, NoJob, LoginJob, RefreshJob, RevokeJob, PasswordJob, ReissueJob, AnswerJob
<1>2. job \in [Handlers -> Jobs]
  BY <1>1 DEF SessionIInv, JobsFit
<1> QED BY <1>1, <1>2 DEF SessionTypeOK, SessionIInv, TablesFit, HistoryFits, JobsFit, Times

LEMMA SessionInvariant == SessionSpec => []SessionIInv
  BY SessionInit_IInv, SessionStep, PTL DEF SessionSpec

\* The devices signed in keep within the limit, whatever the limit, but for sessions
\* that have come back under reissue (createWithinLimit).
THEOREM SessionsWithinLimit == SessionSpec => []SessionInv
<1>1. SessionIInv => SessionInv
  BY SessionTypes DEF SessionInv, SessionIInv
<1> QED BY <1>1, SessionInvariant, PTL

\* Whatever runs, each row makes one of its moves.
LEMMA RowsMove ==
  ASSUME SessionIInv, [SessionNext]_sessionVars PROVE \A s \in Sids : RowMoves(s)
<1>1. ASSUME NEW h \in Handlers, RequestStep(h) PROVE \A s \in Sids : RowMoves(s)
  BY <1>1, StepRequest DEF StepOf
<1>2. CASE Tick \/ UNCHANGED sessionVars
  BY <1>2 DEF Tick, sessionVars, RowMoves, Keeps
<1> QED BY <1>1, <1>2 DEF SessionNext

\* An ended session comes back only when reissue saves it, having read it before it
\* was ended (revoke, reissue).
THEOREM RevokedForGood == SessionSpec => RevokedStaysRevoked
<1>1. SessionIInv /\ [SessionNext]_sessionVars =>
        [\A s \in Sids : Ended(s) => Ended(s)' \/ \E h \in Handlers : SavesLate(h, s)]_rows
  BY RowsMove, AbsentIsNoRow DEF RowMoves, Keeps, Ends, Opens, Renews, Returns, Ended
<1> QED BY <1>1, SessionInvariant, PTL DEF SessionSpec, RevokedStaysRevoked

\* The token a rotation or a reissue takes away is the one the row remembers, but
\* for a save over somebody else's rotation (rotateOnRefresh, reissue).
THEOREM RotationRemembers == SessionSpec => RotatedOutIsRemembered
<1>1. SessionIInv /\ [SessionNext]_sessionVars =>
        [\A s \in Sids : Unrevoked(s) /\ rows'[s].revoked = "no" /\ rows'[s].jti # rows[s].jti =>
           rows'[s].prev = rows[s].jti \/ \E h \in Handlers : SavesLate(h, s)]_rows
  BY RowsMove DEF RowMoves, Keeps, Ends, Opens, Renews, Returns, Unrevoked
<1> QED BY <1>1, SessionInvariant, PTL DEF SessionSpec, RotatedOutIsRemembered
=============================================================================
