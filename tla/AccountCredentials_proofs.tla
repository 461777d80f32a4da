---------------------- MODULE AccountCredentials_proofs ----------------------
(***************************************************************************)
(* Theorems about a student's password and what can set or prove it, for   *)
(* every number of requests, sessions, links and wrong attempts.           *)
(***************************************************************************)
EXTENDS AccountCredentials, FiniteSetTheorems, TLAPS

Labels == {"idle", "revokeLinks", "takeToken", "read", "save", "create", "last",
           "consume", "evict", "list", "end", "revokeOld", "insert", "mail", "commit"}

Admin == {"adminSet", "adminReset"}
Setting == {"change", "reset"} \cup Admin
SigningIn == {"login", "google", "complete"}
Ops == Setting \cup SigningIn \cup {"failed", "send", "accept"}

TaskRecord == [op : Ops, on : Sids \cup Invites \cup Tokens \cup {None}, guess : Passwords,
               entity : Credential, todo : SUBSET (Sids \cup Invites)]

\* A credential as it can be when n passwords were chosen.
WellFormed(c, n) == c \in Credential /\ c.password <= n /\ c.failed < MaxAttempts

\* Which requests stand at which statement.
Fits(label, j, n) ==
  /\ label \in Labels
  /\ label = "idle" <=> j = NoJob
  /\ label # "idle" => j \in TaskRecord /\ WellFormed(j.entity, n) /\ j.guess <= n
  /\ label = "revokeLinks" => j.op \in Admin
  /\ label = "takeToken" => j.op = "reset"
  /\ label = "read" => j.op \in Setting \cup SigningIn
  /\ label = "save" => j.op \in Setting \cup {"login", "google", "failed"}
  /\ label \in {"create", "last"} => j.op \in SigningIn
  /\ label \in {"consume", "evict"} => j.op = "complete"
  /\ label \in {"list", "end"} => j.op \in Setting \cup {"accept"}
  /\ label \in {"revokeOld", "insert", "mail"} => j.op = "send"
  /\ label = "commit" => j.op = "accept"
  /\ label = "insert" => j.todo \subseteq Invites
  /\ label = "mail" => j.on \in Invites
  /\ j.op = "change" => j.on \in Sids
  /\ j.op \in {"reset", "complete"} => j.on \in Tokens
  /\ j.op = "accept" => j.on \in Invites

JobsFit == /\ pc \in [Handlers -> Labels] /\ job = [h \in Handlers |-> job[h]]
           /\ \A h \in Handlers : Fits(pc[h], job[h], chosen)

InviteRow == [state : {"none", "live", "accepted", "revoked", "expired"}, under : Passwords]
Challenge == [state : {"none", "open", "used"}, at : Passwords, proved : Passwords]

TablesFit ==
  /\ chosen \in Passwords /\ WellFormed(cred, chosen)
  /\ sessions \in [Sids -> Passwords \cup {None, Ended}]
  /\ invites \in [Invites -> InviteRow]
  /\ resets \subseteq Tokens /\ challenges \in [Tokens -> Challenge]
  /\ \A t \in Tokens : challenges[t].proved <= chosen /\ challenges[t].at <= chosen
  /\ byAdmin \subseteq 1 .. chosen /\ wrong \in Nat /\ uses \in [Invites \cup Tokens -> Nat]

TypesFit == JobsFit /\ TablesFit

\* One request moves.
LEMMA OneJob ==
  ASSUME JobsFit, NEW h \in Handlers, NEW STATE j, NEW STATE label, NEW CONSTANT n,
         chosen \in Nat, n \in Nat, chosen <= n, chosen' = n, Fits(label, j, n),
         pc' = [pc EXCEPT ![h] = label], job' = [job EXCEPT ![h] = j]
  PROVE  /\ JobsFit' /\ pc'[h] = label /\ job'[h] = j
         /\ \A g \in Handlers \ {h} : pc'[g] = pc[g] /\ job'[g] = job[g]
<1>1. /\ pc' \in [Handlers -> Labels] /\ job' = [g \in Handlers |-> job'[g]]
      /\ pc'[h] = label /\ job'[h] = j
      /\ \A g \in Handlers \ {h} : pc'[g] = pc[g] /\ job'[g] = job[g]
  BY DEF JobsFit, Fits
<1>2. ASSUME NEW g \in Handlers \ {h} PROVE Fits(pc[g], job[g], n)
  <2>1. Fits(pc[g], job[g], chosen)
    BY DEF JobsFit
  <2>2. job[g] \in TaskRecord => job[g].entity.password \in Nat /\ job[g].guess \in Nat
    BY DEF TaskRecord, Credential, Passwords
  <2> QED BY <2>1, <2>2 DEF Fits, WellFormed
<1>3. \A g \in Handlers : Fits(pc'[g], job'[g], n)
  BY <1>1, <1>2
<1> QED BY <1>1, <1>3 DEF JobsFit

\* Passwords are set by their owner or for them.
LEMMA SetFields ==
  ASSUME NEW c \in Credential, NEW p \in Passwords
  PROVE  /\ Own(c, p) \in Credential /\ Own(c, p).password = p /\ ~Own(c, p).must
         /\ Own(c, p).failed = 0 /\ ~Own(c, p).locked
         /\ Imposed(c, p) \in Credential /\ Imposed(c, p).password = p /\ Imposed(c, p).must
         /\ Imposed(c, p).failed = 0 /\ ~Imposed(c, p).locked
<1>1. 0 \in 0 .. MaxAttempts
  BY CredentialAssumption
<1> QED BY <1>1 DEF Own, Imposed, Credential

\* Attempts are counted up to the limit.
LEMMA CountFields ==
  ASSUME NEW c \in Credential, c.failed < MaxAttempts
  PROVE  /\ CountFailure(c) \in Credential /\ CountFailure(c).failed < MaxAttempts
         /\ CountFailure(c).password = c.password /\ CountFailure(c).must = c.must
         /\ CountFailure(c).locked \/ (~c.locked => CountFailure(c).failed = c.failed + 1)
<1>1. c.failed \in Nat /\ MaxAttempts \in Nat \ {0}
  BY CredentialAssumption DEF Credential
<1>2. CASE c.failed + 1 >= MaxAttempts
  <2>1. 0 \in 0 .. MaxAttempts /\ TRUE \in BOOLEAN
    BY <1>1
  <2> DEFINE d == [c EXCEPT !.locked = TRUE, !.failed = 0]
  <2>2. d \in Credential /\ d.failed = 0 /\ d.password = c.password /\ d.must = c.must /\ d.locked = TRUE
    BY <2>1 DEF Credential
  <2>3. CountFailure(c) = d
    BY <1>2 DEF CountFailure
  <2> HIDE DEF d
  <2> QED BY <1>1, <2>2, <2>3
<1>3. CASE ~(c.failed + 1 >= MaxAttempts)
  <2>1. c.failed + 1 \in 0 .. MaxAttempts
    BY <1>1, <1>3
  <2> DEFINE d == [c EXCEPT !.failed = @ + 1]
  <2>2. d \in Credential /\ d.failed = c.failed + 1 /\ d.password = c.password /\ d.must = c.must
    BY <2>1 DEF Credential
  <2>3. CountFailure(c) = d
    BY <1>3 DEF CountFailure
  <2> HIDE DEF d
  <2> QED BY <1>1, <1>3, <2>2, <2>3
<1> QED BY <1>2, <1>3

\* A request that has just read the credential.
LEMMA TaskFields ==
  ASSUME TablesFit, NEW op \in Ops, NEW on \in Sids \cup Invites \cup Tokens \cup {None},
         NEW guess \in Passwords
  PROVE  /\ Task(op, on, guess) \in TaskRecord /\ Task(op, on, guess) # NoJob
         /\ Task(op, on, guess).op = op /\ Task(op, on, guess).on = on
         /\ Task(op, on, guess).guess = guess /\ Task(op, on, guess).entity = cred
         /\ Task(op, on, guess).todo = {}
  BY DEF TablesFit, WellFormed, Task, TaskRecord, Ops, Setting, SigningIn, Admin, NoJob

\* A request with another entity, with another list.
LEMMA TaskEntity ==
  ASSUME NEW j \in TaskRecord, NEW c \in Credential
  PROVE  /\ [j EXCEPT !.entity = c] \in TaskRecord /\ [j EXCEPT !.entity = c].entity = c
         /\ [j EXCEPT !.entity = c].op = j.op /\ [j EXCEPT !.entity = c].on = j.on
         /\ [j EXCEPT !.entity = c].guess = j.guess /\ [j EXCEPT !.entity = c].todo = j.todo
         /\ j # NoJob /\ [j EXCEPT !.entity = c] # NoJob
  BY DEF TaskRecord, Ops, Setting, SigningIn, Admin, NoJob

\* A request with another list.
LEMMA TaskTodo ==
  ASSUME NEW j \in TaskRecord, NEW S \in SUBSET (Sids \cup Invites)
  PROVE  /\ [j EXCEPT !.todo = S] \in TaskRecord /\ [j EXCEPT !.todo = S].todo = S
         /\ [j EXCEPT !.todo = S].op = j.op /\ [j EXCEPT !.todo = S].on = j.on
         /\ [j EXCEPT !.todo = S].guess = j.guess /\ [j EXCEPT !.todo = S].entity = j.entity
         /\ j # NoJob /\ [j EXCEPT !.todo = S] # NoJob
  BY DEF TaskRecord, Ops, Setting, SigningIn, Admin, NoJob

\* What a step of a request does to the requests: j is what it remembers next.
JobMove(h, label, j) ==
  /\ pc' = [pc EXCEPT ![h] = label] /\ job' = [job EXCEPT ![h] = j] /\ Fits(label, j, chosen')

\* The tables stay within their types, and no password is forgotten.
TablesMove == TablesFit' /\ chosen' \in {chosen, chosen + 1}

\* Where nothing is written, the tables keep their types.
LEMMA StoresStay ==
  ASSUME TypesFit, UNCHANGED <<stores, histories>> PROVE TablesMove
  BY DEF TypesFit, TablesFit, stores, histories, WellFormed, TablesMove

\* The requests that begin without writing, and all that a request does.
Starting(h) ==
  \/ \E guess \in 1 .. chosen : \/ StartLogin(h, guess)
                                \/ \E s \in Sids : StartChange(h, s, guess)
  \/ StartGoogle(h)
  \/ \E t \in Tokens : StartReset(h, t) \/ \E evicted \in SUBSET OpenSids : StartComplete(h, t, evicted)
  \/ StartAdmin(h, "adminSet") \/ StartAdmin(h, "adminReset")
  \/ \E onlyUninvited, resend \in BOOLEAN : StartSend(h, onlyUninvited, resend)

Reading(h) == ReadGoogle(h) \/ ReadComplete(h) \/ ReadChange(h) \/ ReadReset(h) \/ ReadAdmin(h)

Writing(h) ==
  \/ Save(h) \/ CreateSession(h) \/ PauseLogin(h) \/ SaveLastLogin(h) \/ ConsumeChallenge(h)
  \/ CommitAccept(h) \/ ListSessions(h) \/ \E s \in Sids : EndSession(h, s)

Inviting(h) ==
  RevokeOutstanding(h) \/ FindOldInvites(h) \/ (\E i \in Invites : InsertInvite(h, i)) \/ SendMail(h)

Request(h) == \/ Starting(h) \/ (\E i \in Invites : StartAccept(h, i))
              \/ DeleteToken(h) \/ ReadLogin(h) \/ Reading(h) \/ MailFails(h)
              \/ Writing(h) \/ Inviting(h)

\* The requests that begin without writing.
LEMMA StepStart ==
  ASSUME TypesFit, NEW h \in Handlers, Starting(h)
  PROVE  TablesMove /\ \E label \in Labels, j \in TaskRecord : JobMove(h, label, j)
<1> USE DEF TypesFit
<1>0. /\ UNCHANGED <<stores, histories>> /\ chosen' = chosen /\ TablesMove
  <2>1. UNCHANGED <<stores, histories>>
    BY DEF Starting, StartLogin, StartChange, StartGoogle, StartReset, StartComplete, StartAdmin, StartSend
  <2> QED BY <2>1, StoresStay DEF stores
<1>1. ASSUME NEW label \in Labels, NEW op \in Ops, NEW on \in Sids \cup Invites \cup Tokens \cup {None},
             NEW guess \in Passwords, guess <= chosen, Begin(h, Task(op, on, guess), label),
             Fits(label, Task(op, on, guess), chosen)
      PROVE  \E l \in Labels, j \in TaskRecord : JobMove(h, l, j)
  <2>1. Task(op, on, guess) \in TaskRecord
    BY TaskFields
  <2> QED BY <1>0, <1>1, <2>1 DEF Begin, JobMove
<1>2. \A guess \in 1 .. chosen : guess \in Passwords /\ guess <= chosen
  BY CredentialAssumption DEF TablesFit, Passwords
<1>3. 0 \in Passwords /\ 0 <= chosen
  BY CredentialAssumption DEF TablesFit, Passwords
<1>4. WellFormed(cred, chosen)
  BY DEF TablesFit
<1> USE DEF Fits, Labels, Ops, Setting, SigningIn, Admin
<1>5. ASSUME NEW guess \in 1 .. chosen, StartLogin(h, guess)
      PROVE  \E l \in Labels, j \in TaskRecord : JobMove(h, l, j)
  <2>1. Fits("read", Task("login", None, guess), chosen)
    BY <1>2, <1>4, TaskFields
  <2> QED BY <1>1, <1>2, <1>5, <2>1 DEF StartLogin
<1>6. ASSUME NEW s \in Sids, NEW guess \in 1 .. chosen, StartChange(h, s, guess)
      PROVE  \E l \in Labels, j \in TaskRecord : JobMove(h, l, j)
  <2>1. Fits("read", Task("change", s, guess), chosen)
    BY <1>2, <1>4, TaskFields
  <2> QED BY <1>1, <1>2, <1>6, <2>1 DEF StartChange
<1>7. ASSUME StartGoogle(h) PROVE \E l \in Labels, j \in TaskRecord : JobMove(h, l, j)
  <2>1. Fits("read", Task("google", None, 0), chosen)
    BY <1>3, <1>4, TaskFields
  <2> QED BY <1>1, <1>3, <1>7, <2>1 DEF StartGoogle
<1>8. ASSUME NEW t \in Tokens, StartReset(h, t)
      PROVE  \E l \in Labels, j \in TaskRecord : JobMove(h, l, j)
  <2>1. Fits("takeToken", Task("reset", t, 0), chosen)
    BY <1>3, <1>4, TaskFields
  <2> QED BY <1>1, <1>3, <1>8, <2>1 DEF StartReset
<1>9. ASSUME NEW t \in Tokens, NEW evicted \in SUBSET OpenSids, StartComplete(h, t, evicted)
      PROVE  \E l \in Labels, j \in TaskRecord : JobMove(h, l, j)
  <2>1. challenges[t].proved \in Passwords /\ challenges[t].proved <= chosen /\ evicted \subseteq Sids
    BY DEF TablesFit, Challenge, OpenSids
  <2> DEFINE k == Task("complete", t, challenges[t].proved)
             j == [k EXCEPT !.todo = evicted]
  <2>2. k \in TaskRecord /\ k.op = "complete" /\ k.on = t /\ k.guess = challenges[t].proved /\ k.entity = cred
    BY <2>1, TaskFields
  <2>3. Begin(h, j, "read")
    BY <1>9 DEF StartComplete
  <2> HIDE DEF k
  <2>4. /\ j \in TaskRecord /\ j.op = "complete" /\ j.on = t /\ j.guess = challenges[t].proved
        /\ j.entity = cred /\ j # NoJob
    BY <1>4, <2>1, <2>2, TaskTodo
  <2> HIDE DEF j
  <2>5. Fits("read", j, chosen)
    BY <1>4, <2>1, <2>4
  <2> QED BY <1>0, <2>3, <2>4, <2>5 DEF Begin, JobMove
<1>10. ASSUME NEW op \in Admin, StartAdmin(h, op) PROVE \E l \in Labels, j \in TaskRecord : JobMove(h, l, j)
  <2>1. Fits("revokeLinks", Task(op, None, 0), chosen)
    BY <1>3, <1>4, TaskFields
  <2> QED BY <1>1, <1>3, <1>10, <2>1 DEF StartAdmin, AdminFirst
<1>11. ASSUME NEW a, NEW b, StartSend(h, a, b) PROVE \E l \in Labels, j \in TaskRecord : JobMove(h, l, j)
  <2>1. Fits("revokeOld", Task("send", None, 0), chosen)
    BY <1>3, <1>4, TaskFields
  <2> QED BY <1>1, <1>3, <1>11, <2>1 DEF StartSend
<1> QED BY <1>0, <1>5, <1>6, <1>7, <1>8, <1>9, <1>10, <1>11 DEF Starting

Moves(h) == \E label \in Labels, j \in TaskRecord \cup {NoJob} : JobMove(h, label, j)

\* A request ends; it goes on as it is, with a credential, or with a list.
LEMMA EndMoves == ASSUME NEW h \in Handlers, End(h) PROVE Moves(h)
<1>1. Fits("idle", NoJob, chosen')
  BY DEF Fits, Labels, NoJob
<1> QED BY <1>1 DEF End, Continue, Moves, JobMove, Labels

\* A request that goes on takes one of the moves.
LEMMA ContinueMoves ==
  ASSUME NEW h \in Handlers, NEW STATE j, NEW STATE label, Continue(h, j, label), Fits(label, j, chosen'),
         label # "idle"
  PROVE  Moves(h)
<1>1. label \in Labels /\ j \in TaskRecord
  BY DEF Fits
<1> QED BY <1>1 DEF Continue, Moves, JobMove

\* What the job of a busy request is like.
LEMMA Working ==
  ASSUME TypesFit, NEW h \in Handlers, pc[h] # "idle"
  PROVE  /\ job[h] \in TaskRecord /\ Fits(pc[h], job[h], chosen) /\ WellFormed(job[h].entity, chosen)
         /\ job[h].guess <= chosen /\ job[h].guess \in Nat /\ job[h].entity \in Credential
         /\ job[h].entity.password \in Nat /\ chosen \in Nat
<1>1. job[h] \in TaskRecord /\ Fits(pc[h], job[h], chosen)
  BY DEF TypesFit, JobsFit, Fits
<1> QED BY <1>1 DEF TypesFit, TablesFit, Fits, WellFormed, TaskRecord, Credential, Passwords

\* A number chosen is one that may be chosen, and new.
LEMMA ChooseFields ==
  ASSUME TypesFit, Choose
  PROVE  chosen + 1 \in Passwords /\ chosen' = chosen + 1 /\ chosen + 1 # 0 /\ chosen + 1 \notin byAdmin
         /\ byAdmin \subseteq 1 .. chosen' /\ chosen + 1 \in 1 .. chosen' /\ chosen \in Nat
  BY CredentialAssumption DEF TypesFit, TablesFit, Choose, Passwords

\* What is well formed stays so when a password is chosen.
LEMMA WellFormedOn ==
  ASSUME TypesFit, NEW c, WellFormed(c, chosen), chosen' \in {chosen, chosen + 1}
  PROVE  WellFormed(c, chosen')
  BY CredentialAssumption DEF TypesFit, TablesFit, WellFormed, Credential, Passwords

\* The tables when only the number of passwords, and who chose it, changes.
LEMMA ChooseTables ==
  ASSUME TypesFit, Choose, UNCHANGED <<cred, sessions, invites, resets, challenges, wrong, uses>>,
         byAdmin' \in {byAdmin, byAdmin \cup {chosen + 1}}
  PROVE  TablesMove
<1>1. WellFormed(cred, chosen')
  BY ChooseFields, WellFormedOn DEF TypesFit, TablesFit
<1>2. \A t \in Tokens : challenges[t].proved <= chosen' /\ challenges[t].at <= chosen'
  BY ChooseFields DEF TypesFit, TablesFit, Challenge, Passwords
<1> QED BY <1>1, <1>2, ChooseFields DEF TypesFit, TablesFit, TablesMove

\* The request reads the credential and checks it.
LEMMA StepReadLogin ==
  ASSUME TypesFit, NEW h \in Handlers, ReadLogin(h) PROVE TablesMove /\ Moves(h)
<1> DEFINE t == job[h]
<1>1. /\ t \in TaskRecord /\ t.op = "login" /\ t.guess \in Nat /\ t.guess <= chosen
      /\ Fits("read", t, chosen)
  BY Working DEF ReadLogin
<1>2. WellFormed(cred, chosen) /\ cred \in Credential /\ cred.failed < MaxAttempts /\ chosen' = chosen
  BY DEF TypesFit, TablesFit, WellFormed, ReadLogin, stores
<1>3. TablesMove
  <2>1. wrong' \in Nat
    BY DEF ReadLogin, TypesFit, TablesFit
  <2> QED BY <2>1 DEF ReadLogin, TypesFit, TablesFit, TablesMove, stores, WellFormed
<1>4. CASE End(h)
  BY <1>3, <1>4, EndMoves
<1>5. CASE Proceed(h, [cred EXCEPT !.failed = 0, !.locked = FALSE], "save")
  <2> DEFINE c == [cred EXCEPT !.failed = 0, !.locked = FALSE]
             j == [t EXCEPT !.entity = c]
  <2>1. WellFormed(c, chosen) /\ c \in Credential
    <3>1. 0 \in 0 .. MaxAttempts /\ 0 < MaxAttempts
      BY CredentialAssumption
    <3> QED BY <1>2, <3>1 DEF WellFormed, Credential
  <2>2. Continue(h, j, "save")
    BY <1>5 DEF Proceed
  <2> HIDE DEF c, t
  <2>3. j \in TaskRecord /\ j.entity = c /\ j.op = t.op /\ j.on = t.on /\ j.guess = t.guess /\ j # NoJob
    BY <1>1, <2>1, TaskEntity
  <2> HIDE DEF j
  <2>4. Fits("save", j, chosen)
    BY <1>1, <2>1, <2>3 DEF Fits, Labels
  <2> QED BY <1>2, <1>3, <2>2, <2>4, ContinueMoves
<1>6. CASE Continue(h, [t EXCEPT !.op = "failed", !.entity = CountFailure(cred)], "save")
  <2> DEFINE c == CountFailure(cred)
             j == [t EXCEPT !.op = "failed", !.entity = c]
  <2>1. WellFormed(c, chosen) /\ c \in Credential
    BY <1>2, CountFields DEF WellFormed
  <2>2. Continue(h, j, "save")
    BY <1>6
  <2> HIDE DEF c, t
  <2>3. j \in TaskRecord /\ j.entity = c /\ j.op = "failed" /\ j.on = t.on /\ j.guess = t.guess /\ j # NoJob
    BY <1>1, <2>1 DEF TaskRecord, Ops, Setting, SigningIn, Admin, NoJob
  <2> HIDE DEF j
  <2>4. Fits("save", j, chosen)
    BY <1>1, <2>1, <2>3 DEF Fits, Labels
  <2> QED BY <1>2, <1>3, <2>2, <2>4, ContinueMoves
<1> QED BY <1>3, <1>4, <1>5, <1>6 DEF ReadLogin

\* The request goes on with another credential, having written nothing.
LEMMA ProceedMoves ==
  ASSUME TypesFit, NEW h \in Handlers, NEW STATE c, NEW STATE label, pc[h] # "idle",
         WellFormed(c, chosen'), chosen' \in {chosen, chosen + 1},
         Proceed(h, c, label), label \in {"save", "create", "evict"},
         Fits(label, job[h], chosen) \/ (pc[h] = "read" /\ label = "save" /\ job[h].op # "complete")
  PROVE  Moves(h)
<1> DEFINE t == job[h]
           j == [t EXCEPT !.entity = c]
<1>1. t \in TaskRecord /\ Fits(pc[h], t, chosen) /\ t.guess <= chosen /\ t.guess \in Nat /\ chosen \in Nat
  BY Working
<1>2. Continue(h, j, label)
  BY DEF Proceed
<1> HIDE DEF t
<1>3. j \in TaskRecord /\ j.entity = c /\ j.op = t.op /\ j.on = t.on /\ j.guess = t.guess /\ j # NoJob
  BY <1>1, TaskEntity DEF WellFormed
<1> HIDE DEF j
<1>4. Fits(label, j, chosen')
  BY <1>1, <1>3 DEF t, Fits, Labels, SigningIn
<1> QED BY <1>2, <1>4, ContinueMoves

\* The statements that read the credential, and those that write nothing.
LEMMA StepRead ==
  ASSUME TypesFit, NEW h \in Handlers,
         DeleteToken(h) \/ Reading(h) \/ MailFails(h)
  PROVE  TablesMove /\ Moves(h)
<1>0. WellFormed(cred, chosen) /\ cred \in Credential
  BY DEF TypesFit, TablesFit, WellFormed
<1>1. CASE DeleteToken(h)
  <2>1. pc[h] = "takeToken" /\ Continue(h, job[h], "read") /\ chosen' = chosen
    BY <1>1 DEF DeleteToken
  <2>2. Fits("takeToken", job[h], chosen) /\ job[h].on \in Tokens
    BY <2>1, Working DEF Fits
  <2>3. Fits("read", job[h], chosen)
    BY <2>2 DEF Fits, Labels, Setting
  <2>4. TablesMove
    BY <1>1, <2>2 DEF DeleteToken, TypesFit, TablesFit, TablesMove, WellFormed
  <2> QED BY <2>1, <2>3, <2>4, ContinueMoves
<1>2. CASE ReadGoogle(h)
  <2> DEFINE c == [cred EXCEPT !.google = TRUE]
  <2>1. WellFormed(c, chosen)
    BY <1>0 DEF WellFormed, Credential
  <2>2. Proceed(h, c, "save") /\ chosen' = chosen /\ UNCHANGED <<stores, histories>>
    BY <1>2 DEF ReadGoogle, stores
  <2>3. pc[h] = "read" /\ job[h].op = "google"
    BY <1>2 DEF ReadGoogle
  <2> HIDE DEF c
  <2> QED BY <2>1, <2>2, <2>3, ProceedMoves, StoresStay
<1>3. CASE ReadComplete(h)
  <2>1. pc[h] = "read" /\ job[h].op = "complete" /\ chosen' = chosen /\ UNCHANGED <<stores, histories>>
    BY <1>3 DEF ReadComplete, stores
  <2>2. Fits("create", job[h], chosen) /\ Fits("evict", job[h], chosen)
    BY <2>1, Working DEF Fits, Labels, SigningIn
  <2>3. CASE End(h)
    BY <2>1, <2>3, EndMoves, StoresStay
  <2>4. ASSUME NEW label \in {"create", "evict"}, Proceed(h, cred, label) PROVE Moves(h)
    BY <1>0, <2>1, <2>2, <2>4, ProceedMoves
  <2> QED BY <1>3, <2>1, <2>3, <2>4, StoresStay DEF ReadComplete
<1>4. CASE ReadChange(h)
  <2>1. pc[h] = "read" /\ job[h].op = "change"
    BY <1>4 DEF ReadChange
  <2>2. CASE End(h) /\ UNCHANGED chosen
    <3>1. UNCHANGED <<stores, histories>>
      BY <1>4, <2>2 DEF ReadChange, stores
    <3> QED BY <2>2, <3>1, EndMoves, StoresStay
  <2>3. CASE Choose /\ Proceed(h, Own(cred, chosen + 1), "save")
    <3>1. WellFormed(Own(cred, chosen + 1), chosen')
      BY <1>0, <2>3, ChooseFields, SetFields, CredentialAssumption DEF WellFormed
    <3>2. Moves(h)
      BY <2>1, <2>3, <3>1, ChooseFields, ProceedMoves
    <3> QED BY <1>4, <2>3, <3>2, ChooseTables DEF ReadChange, histories
  <2> QED BY <1>4, <2>2, <2>3 DEF ReadChange
<1>5. CASE ReadReset(h) \/ ReadAdmin(h)
  <2>1. pc[h] = "read" /\ job[h].op # "complete" /\ Choose
    BY <1>5 DEF ReadReset, ReadAdmin
  <2>2. \E c \in {Own(cred, chosen + 1), Imposed(cred, chosen + 1)} :
          WellFormed(c, chosen') /\ Proceed(h, c, "save")
    BY <1>0, <1>5, <2>1, ChooseFields, SetFields, CredentialAssumption DEF WellFormed, ReadReset, ReadAdmin
  <2>3. Moves(h)
    BY <2>1, <2>2, ChooseFields, ProceedMoves
  <2> QED BY <1>5, <2>1, <2>3, ChooseTables DEF ReadReset, ReadAdmin, histories
<1>6. CASE MailFails(h)
  BY <1>6, EndMoves, StoresStay DEF MailFails
<1> QED BY <1>1, <1>2, <1>3, <1>4, <1>5, <1>6 DEF Reading

\* A request goes on as it is, or with another list.
LEMMA GoOn ==
  ASSUME TypesFit, NEW h \in Handlers, NEW STATE label, NEW STATE S, chosen' = chosen, pc[h] # "idle",
         label # "idle", S \in SUBSET (Sids \cup Invites),
         Continue(h, job[h], label) \/ Continue(h, [job[h] EXCEPT !.todo = S], label),
         Fits(label, job[h], chosen), label = "insert" => S \subseteq Invites
  PROVE  Moves(h)
<1> DEFINE t == job[h]
           j == [t EXCEPT !.todo = S]
<1>1. t \in TaskRecord
  BY Working
<1>2. Continue(h, t, label) \/ Continue(h, j, label)
  OBVIOUS
<1> HIDE DEF t
<1>3. /\ j \in TaskRecord /\ j.entity = t.entity /\ j.op = t.op /\ j.on = t.on /\ j.guess = t.guess
      /\ j.todo = S /\ j # NoJob
  BY <1>1, TaskTodo
<1> HIDE DEF j
<1>4. Fits(label, j, chosen)
  BY <1>1, <1>3 DEF t, Fits
<1> QED BY <1>2, <1>4, ContinueMoves DEF t

\* The statements that write the credential and its sessions.
LEMMA StepWrite ==
  ASSUME TypesFit, NEW h \in Handlers, Writing(h)
  PROVE  TablesMove /\ Moves(h)
<1> DEFINE t == job[h]
<1>0. /\ pc[h] # "idle" /\ t \in TaskRecord /\ Fits(pc[h], t, chosen) /\ WellFormed(t.entity, chosen)
      /\ t.entity.password \in Passwords /\ t.guess \in Passwords /\ t.guess <= chosen /\ chosen' = chosen
      /\ t.todo \in SUBSET (Sids \cup Invites)
  <2>1. pc[h] # "idle" /\ chosen' = chosen
    BY DEF Writing, Save, CreateSession, PauseLogin, SaveLastLogin, ConsumeChallenge, CommitAccept,
           ListSessions, EndSession
  <2> QED BY <2>1, Working DEF TaskRecord, Credential
<1>1. Forgiven(t.entity) \in Nat /\ 0 \in Nat
  BY DEF Forgiven, TypesFit, TablesFit
<1> USE DEF TypesFit, TablesFit, TablesMove
<1>2. CASE Save(h)
  <2>1. TablesMove
    BY <1>0, <1>1, <1>2 DEF Save
  <2>2. CASE End(h)
    BY <2>1, <2>2, EndMoves
  <2>3. CASE t.op # "failed" /\ Continue(h, t, AfterSave(t.op))
    <3>1. Fits(AfterSave(t.op), t, chosen) /\ AfterSave(t.op) # "idle"
      BY <1>0, <1>2, <2>3 DEF Save, AfterSave, Fits, Labels, SigningIn
    <3> QED BY <1>0, <2>1, <2>3, <3>1, ContinueMoves
  <2> QED BY <1>2, <2>2, <2>3 DEF Save
<1>3. CASE CreateSession(h)
  <2>1. TablesMove
    BY <1>0, <1>3 DEF CreateSession, Proved, histories
  <2>2. Fits("last", t, chosen)
    BY <1>0, <1>3 DEF CreateSession, Fits, Labels
  <2> QED BY <1>0, <1>3, <2>1, <2>2, ContinueMoves DEF CreateSession
<1>4. CASE PauseLogin(h)
  <2>1. Proved(t) \in Passwords /\ Proved(t) <= chosen
    BY <1>0 DEF Proved, WellFormed
  <2>2. TablesMove
    <3>1. CASE UNCHANGED challenges
      BY <1>0, <1>4, <3>1 DEF PauseLogin, histories
    <3>2. ASSUME NEW u \in Tokens,
                 challenges' = [challenges EXCEPT ![u] = [state |-> "open", at |-> chosen, proved |-> Proved(t)]]
          PROVE  TablesMove
      <4>1. [state |-> "open", at |-> chosen, proved |-> Proved(t)] \in Challenge /\ chosen <= chosen
        BY <2>1 DEF Challenge, Passwords
      <4> QED BY <1>0, <1>4, <2>1, <3>2, <4>1 DEF PauseLogin, histories
    <3> QED BY <1>4, <3>1, <3>2 DEF PauseLogin
  <2> QED BY <1>4, <2>2, EndMoves DEF PauseLogin
<1>5. CASE SaveLastLogin(h)
  <2>1. TablesMove
    BY <1>0, <1>1, <1>5 DEF SaveLastLogin
  <2>2. t.op = "complete" => Fits("consume", t, chosen)
    BY <1>0, <1>5 DEF SaveLastLogin, Fits, Labels
  <2> QED BY <1>0, <1>5, <2>1, <2>2, EndMoves, ContinueMoves DEF SaveLastLogin
<1>6. CASE ConsumeChallenge(h)
  <2>1. t.on \in Tokens
    BY <1>0, <1>6 DEF ConsumeChallenge, Fits
  <2>2. TablesMove
    <3>1. challenges' \in [Tokens -> Challenge]
      BY <1>6, <2>1 DEF ConsumeChallenge, Challenge
    <3>2. \A u \in Tokens : challenges'[u].at = challenges[u].at /\ challenges'[u].proved = challenges[u].proved
      BY <1>6, <2>1 DEF ConsumeChallenge, Challenge
    <3> QED BY <1>0, <1>6, <2>1, <3>1, <3>2 DEF ConsumeChallenge
  <2> QED BY <1>6, <2>2, EndMoves DEF ConsumeChallenge
<1>7. CASE CommitAccept(h)
  <2>1. t.on \in Invites /\ Fits("list", t, chosen)
    BY <1>0, <1>7 DEF CommitAccept, Fits, Labels
  <2>2. TablesMove
    BY <1>0, <1>1, <1>7, <2>1 DEF CommitAccept, InviteRow
  <2> QED BY <1>0, <1>7, <2>1, <2>2, ContinueMoves DEF CommitAccept
<1>8. CASE ListSessions(h)
  <2>1. TablesMove
    BY <1>0, <1>8 DEF ListSessions, histories
  <2>2. Fits("end", t, chosen) /\ OpenSids \ Spared(t) \in SUBSET (Sids \cup Invites)
    BY <1>0, <1>8 DEF ListSessions, Fits, Labels, OpenSids
  <2> QED BY <1>0, <1>8, <2>1, <2>2, EndMoves, GoOn DEF ListSessions
<1>9. ASSUME NEW s \in Sids, EndSession(h, s) PROVE TablesMove /\ Moves(h)
  <2>1. TablesMove
    BY <1>0, <1>9 DEF EndSession, histories
  <2>2. t.todo \ {s} \in SUBSET (Sids \cup Invites) /\ {} \in SUBSET (Sids \cup Invites)
    BY <1>0
  <2>3. pc[h] = "evict" => Fits("create", t, chosen)
    BY <1>0 DEF Fits, Labels, SigningIn
  <2>4. CASE End(h)
    BY <2>1, <2>4, EndMoves
  <2>5. CASE Continue(h, [t EXCEPT !.todo = t.todo \ {s}], pc[h])
    BY <1>0, <1>9, <2>1, <2>2, <2>5, GoOn DEF EndSession
  <2>6. CASE pc[h] = "evict" /\ Continue(h, [t EXCEPT !.todo = {}], "create")
    BY <1>0, <2>1, <2>2, <2>3, <2>6, GoOn
  <2> QED BY <1>9, <2>4, <2>5, <2>6 DEF EndSession
<1> QED BY <1>2, <1>3, <1>4, <1>5, <1>6, <1>7, <1>8, <1>9 DEF Writing

\* Revoked invitations are invitations.
LEMMA RevokeFields ==
  ASSUME TablesFit, NEW dead
  PROVE  /\ Revoke(dead) \in [Invites -> InviteRow]
         /\ \A i \in Invites : \/ Revoke(dead)[i] = invites[i]
                               \/ /\ i \in dead /\ invites[i].state = "live"
                                  /\ Revoke(dead)[i].state = "revoked" /\ Revoke(dead)[i].under = invites[i].under
         /\ \A i \in Invites : Revoke(dead)[i].state = "live" => invites[i].state = "live" /\ i \notin dead
  BY DEF TablesFit, Revoke, InviteRow

\* The statements about invitations.
LEMMA StepInvite ==
  ASSUME TypesFit, NEW h \in Handlers, Inviting(h)
  PROVE  TablesMove /\ Moves(h)
<1> DEFINE t == job[h]
<1>0. /\ pc[h] # "idle" /\ t \in TaskRecord /\ Fits(pc[h], t, chosen) /\ WellFormed(t.entity, chosen)
      /\ chosen' = chosen /\ t.guess <= chosen
  <2>1. pc[h] # "idle" /\ chosen' = chosen
    BY DEF Inviting, RevokeOutstanding, FindOldInvites, InsertInvite, SendMail, stores
  <2> QED BY <2>1, Working DEF TaskRecord
<1> USE DEF TypesFit, TablesFit, TablesMove
<1>1. CASE RevokeOutstanding(h)
  <2>1. TablesMove
    BY <1>0, <1>1, RevokeFields DEF RevokeOutstanding, histories
  <2>2. Fits("read", t, chosen)
    BY <1>0, <1>1 DEF RevokeOutstanding, Fits, Labels, Setting
  <2> QED BY <1>0, <1>1, <2>1, <2>2, ContinueMoves DEF RevokeOutstanding
<1>2. CASE FindOldInvites(h)
  <2>1. TablesMove
    BY <1>2, StoresStay DEF FindOldInvites
  <2>2. LiveInvites \in SUBSET (Sids \cup Invites) /\ LiveInvites \subseteq Invites
    BY DEF LiveInvites
  <2>3. CASE LiveInvites = LiveInvites
    <3> DEFINE j == [t EXCEPT !.todo = LiveInvites]
    <3>1. Continue(h, j, "insert")
      BY <1>2 DEF FindOldInvites
    <3>2. /\ j \in TaskRecord /\ j.entity = t.entity /\ j.op = t.op /\ j.on = t.on /\ j.guess = t.guess
          /\ j.todo = LiveInvites /\ j # NoJob
      <4> HIDE DEF t
      <4> QED BY <1>0, <2>2, TaskTodo
    <3> HIDE DEF j
    <3>3. Fits("insert", j, chosen)
      BY <1>0, <1>2, <2>2, <3>2 DEF FindOldInvites, Fits, Labels
    <3> QED BY <1>0, <2>1, <3>1, <3>3, ContinueMoves
  <2> QED BY <2>3
<1>3. ASSUME NEW i \in Invites, InsertInvite(h, i) PROVE TablesMove /\ Moves(h)
  <2> DEFINE j == [t EXCEPT !.on = i]
  <2>1. TablesMove
    <3>1. [state |-> "live", under |-> cred.password] \in InviteRow
      BY DEF InviteRow, WellFormed, Credential
    <3> QED BY <1>0, <1>3, <3>1, RevokeFields DEF InsertInvite, histories
  <2>2. Continue(h, j, "mail") /\ pc[h] = "insert"
    BY <1>3 DEF InsertInvite
  <2>3. /\ j \in TaskRecord /\ j.entity = t.entity /\ j.op = t.op /\ j.on = i /\ j.guess = t.guess
        /\ j.todo = t.todo /\ j # NoJob
    <3> HIDE DEF t
    <3> QED BY <1>0 DEF TaskRecord, Ops, Setting, SigningIn, Admin, NoJob
  <2> HIDE DEF j
  <2>4. Fits("mail", j, chosen)
    BY <1>0, <2>2, <2>3 DEF Fits, Labels
  <2> QED BY <1>0, <2>1, <2>2, <2>4, ContinueMoves
<1>4. CASE SendMail(h)
  <2>1. t.on \in Invites
    BY <1>0, <1>4 DEF SendMail, Fits
  <2>2. TablesMove
    <3>1. invites' \in [Invites -> InviteRow]
      BY <1>4, <2>1 DEF SendMail, InviteRow
    <3> QED BY <1>0, <1>4, <3>1 DEF SendMail, histories
  <2> QED BY <1>4, <2>2, EndMoves DEF SendMail
<1> QED BY <1>1, <1>2, <1>3, <1>4 DEF Inviting

\* An invitation is accepted: a password is chosen, not yet set.
LEMMA StepAccept ==
  ASSUME TypesFit, NEW h \in Handlers, NEW i \in Invites, StartAccept(h, i)
  PROVE  TablesMove /\ Moves(h)
<1> DEFINE k == Task("accept", i, 0)
           c == Own(cred, chosen + 1)
           j == [k EXCEPT !.entity = c]
<1>1. Choose /\ Begin(h, j, "commit")
  BY DEF StartAccept
<1>2. 0 \in Passwords /\ 0 <= chosen' /\ chosen' = chosen + 1 /\ cred \in Credential /\ cred.failed < MaxAttempts
  BY <1>1, ChooseFields, CredentialAssumption DEF TypesFit, TablesFit, Passwords, WellFormed
<1>3. WellFormed(c, chosen')
  <2>1. c \in Credential /\ c.password = chosen + 1 /\ c.failed = 0
    BY <1>1, <1>2, ChooseFields, SetFields
  <2>2. chosen + 1 <= chosen' /\ 0 < MaxAttempts
    BY <1>1, ChooseFields, CredentialAssumption
  <2> HIDE DEF c
  <2> QED BY <2>1, <2>2 DEF WellFormed
<1>4. k \in TaskRecord /\ k.op = "accept" /\ k.on = i /\ k.guess = 0
  BY <1>2, TaskFields DEF TypesFit, Ops
<1> HIDE DEF k, c
<1>5. j \in TaskRecord /\ j.entity = c /\ j.op = "accept" /\ j.on = i /\ j.guess = 0 /\ j # NoJob
  BY <1>3, <1>4, TaskEntity DEF WellFormed
<1> HIDE DEF j
<1>6. Fits("commit", j, chosen')
  BY <1>2, <1>3, <1>5 DEF Fits, Labels
<1>7. Moves(h)
  BY <1>1, <1>5, <1>6 DEF Begin, Moves, JobMove, Labels
<1>8. TablesMove
  BY <1>1, ChooseTables DEF StartAccept, histories
<1> QED BY <1>7, <1>8

\* Whatever a request does: the tables keep their types, and it alone moves.
LEMMA RequestStep ==
  ASSUME TypesFit, NEW h \in Handlers, Request(h)
  PROVE  TypesFit' /\ \A g \in Handlers \ {h} : pc'[g] = pc[g] /\ job'[g] = job[g]
<1>1. TablesMove /\ Moves(h)
  BY StepStart, StepAccept, StepReadLogin, StepRead, StepWrite, StepInvite DEF Moves, Request
<1>2. PICK label \in Labels, j \in TaskRecord \cup {NoJob} : JobMove(h, label, j)
  BY <1>1 DEF Moves
<1>3. chosen \in Nat /\ chosen' \in Nat /\ chosen <= chosen'
  BY <1>1, CredentialAssumption DEF TablesMove, TypesFit, TablesFit, Passwords
<1>4. JobsFit' /\ \A g \in Handlers \ {h} : pc'[g] = pc[g] /\ job'[g] = job[g]
  BY <1>2, <1>3, OneJob DEF JobMove, TypesFit
<1> QED BY <1>1, <1>4 DEF TypesFit, TablesMove

\* Time and failures keep the types.
LEMMA WorldStep ==
  ASSUME TypesFit, (\E t \in Tokens : ForgotPassword(t)) \/ (\E i \in Invites : ExpireInvite(i)) \/ Unlock \/ Crash
  PROVE  TypesFit'
<1> USE DEF TypesFit
<1>1. ASSUME NEW t \in Tokens, ForgotPassword(t) PROVE TypesFit'
  BY <1>1 DEF ForgotPassword, JobsFit, TablesFit, histories
<1>2. ASSUME NEW i \in Invites, ExpireInvite(i) PROVE TypesFit'
  <2>1. invites' \in [Invites -> InviteRow]
    BY <1>2 DEF ExpireInvite, TablesFit, InviteRow
  <2> QED BY <1>2, <2>1 DEF ExpireInvite, JobsFit, TablesFit, histories
<1>3. CASE Unlock
  <2>1. ASSUME NEW c, WellFormed(c, chosen) PROVE WellFormed([c EXCEPT !.locked = FALSE], chosen)
    BY <2>1 DEF WellFormed, Credential
  <2>2. TablesFit'
    BY <1>3, <2>1 DEF Unlock, TablesFit, histories
  <2>3. ASSUME NEW h \in Handlers PROVE Fits(pc'[h], job'[h], chosen')
    <3>1. Fits(pc[h], job[h], chosen)
      BY DEF JobsFit
    <3>2. CASE job[h] = NoJob
      BY <1>3, <3>1, <3>2 DEF Unlock
    <3>3. CASE job[h] # NoJob
      <4> DEFINE j == job[h]
                 k == [j EXCEPT !.entity = [j.entity EXCEPT !.locked = FALSE]]
      <4>1. j \in TaskRecord /\ WellFormed(j.entity, chosen)
        BY <3>1, <3>3 DEF Fits
      <4>2. job'[h] = [j EXCEPT !.entity.locked = FALSE] /\ pc' = pc /\ chosen' = chosen
        BY <1>3, <3>3 DEF Unlock
      <4>3. job'[h] = k
        BY <4>1, <4>2 DEF TaskRecord
      <4>4. WellFormed([j.entity EXCEPT !.locked = FALSE], chosen)
        BY <2>1, <4>1
      <4>5. /\ k \in TaskRecord /\ k.op = j.op /\ k.on = j.on /\ k.guess = j.guess /\ k.todo = j.todo
            /\ k # NoJob /\ WellFormed(k.entity, chosen)
        <5> HIDE DEF j
        <5> QED BY <4>1, <4>4, TaskEntity DEF WellFormed
      <4>6. Fits(pc[h], j, chosen) /\ pc'[h] = pc[h] /\ chosen' = chosen /\ job'[h] = k /\ j # NoJob
        BY <3>1, <3>3, <4>2, <4>3
      <4> HIDE DEF j, k
      <4>7. Fits(pc[h], k, chosen)
        BY <4>5, <4>6 DEF Fits
      <4> QED BY <4>6, <4>7
    <3> QED BY <3>2, <3>3
  <2>4. job' = [h \in Handlers |-> job'[h]] /\ pc' = pc
    BY <1>3 DEF Unlock
  <2> QED BY <2>2, <2>3, <2>4 DEF JobsFit
<1>4. CASE Crash
  <2>1. JobsFit'
    BY <1>4 DEF Crash, JobsFit, Fits, Labels, NoJob
  <2> QED BY <1>4, <2>1 DEF Crash, TablesFit, stores, histories
<1> QED BY <1>1, <1>2, <1>3, <1>4
-----------------------------------------------------------------------------
World == (\E t \in Tokens : ForgotPassword(t)) \/ (\E i \in Invites : ExpireInvite(i)) \/ Unlock \/ Crash

\* A step is a request's, the world's, or none.
LEMMA NextCases ==
  ASSUME [CredentialNext]_credentialVars
  PROVE  (\E h \in Handlers : Request(h)) \/ World \/ UNCHANGED credentialVars
BY DEF CredentialNext, Request, Starting, Reading, Writing, Inviting, World

\* The row as it is at the start: without a password, or with the owner's.
LEMMA FirstRow ==
  ASSUME CredentialInit
  PROVE  /\ cred \in Credential /\ cred.failed = 0 /\ cred.password \in {0, 1}
         /\ cred.must <=> cred.password = 0
<1> DEFINE row(p) == [password |-> p, must |-> p = 0, google |-> FALSE, failed |-> 0, locked |-> FALSE]
<1>1. 0 \in 0 .. MaxAttempts /\ {0, 1} \subseteq Passwords
  BY CredentialAssumption DEF Passwords
<1>2. PICK p \in {0, 1} : cred = row(p)
  BY DEF CredentialInit
<1> QED BY <1>1, <1>2 DEF Credential

\* At the start everything is well formed.
LEMMA TypesStart == CredentialInit => TypesFit
<1> SUFFICES ASSUME CredentialInit PROVE TypesFit
  OBVIOUS
<1>1. cred \in Credential /\ cred.failed = 0 /\ cred.password \in {0, 1} /\ chosen = cred.password
  BY FirstRow DEF CredentialInit
<1>2. JobsFit
  BY DEF CredentialInit, JobsFit, Fits, Labels, NoJob
<1>3. NoInvite \in InviteRow /\ NoChallenge \in Challenge /\ NoChallenge.at = 0 /\ NoChallenge.proved = 0
  BY CredentialAssumption DEF NoInvite, InviteRow, NoChallenge, Challenge, Passwords
<1>4. TablesFit
  BY <1>1, <1>3, CredentialAssumption DEF CredentialInit, TablesFit, WellFormed, Passwords
<1> QED BY <1>2, <1>4 DEF TypesFit

\* Every step keeps the types.
LEMMA TypesStep == ASSUME TypesFit, [CredentialNext]_credentialVars PROVE TypesFit'
<1>1. ASSUME UNCHANGED credentialVars PROVE TypesFit'
  BY <1>1 DEF credentialVars, stores, histories, TypesFit, JobsFit, TablesFit
<1> QED BY <1>1, NextCases, RequestStep, WorldStep DEF World

-----------------------------------------------------------------------------
(* Invitations *)

Untouched(row) == row.state \in {"none", "live"}

\* Where a password was set by an invitation, it is spent; who is accepting one
\* holds it, live and alone.
InvitesFit ==
  /\ \A i \in Invites : uses[i] # 0 => ~Untouched(invites[i])
  /\ \A h \in Handlers : pc[h] = "commit" => invites[job[h].on].state = "live"
  /\ \A g, h \in Handlers : pc[g] = "commit" /\ pc[h] = "commit" /\ job[g].on = job[h].on => g = h

\* What one step of a request may do to an invitation.
InviteMove(h, i) ==
  \/ invites'[i] = invites[i] /\ uses'[i] = uses[i]
  \/ ~Claimed(i) /\ uses'[i] = uses[i] /\ (Untouched(invites'[i]) => Untouched(invites[i]))
  \/ pc[h] = "commit" /\ job[h].on = i /\ pc'[h] # "commit" /\ ~Untouched(invites'[i])

\* Only an acceptance comes to hold an invitation, a live one that nobody holds.
Claims(h) ==
  pc'[h] = "commit" => /\ job'[h].on \in Invites /\ ~Claimed(job'[h].on)
                       /\ invites' = invites /\ invites[job'[h].on].state = "live"

\* Each statement of a request leaves every other invitation alone.
LEMMA InviteMoves ==
  ASSUME TypesFit, InvitesFit, NEW h \in Handlers, Request(h)
  PROVE  Claims(h) /\ \A i \in Invites : InviteMove(h, i)
<1> DEFINE Quiet == /\ \A i \in Invites : invites'[i] = invites[i] /\ uses'[i] = uses[i]
                    /\ pc'[h] # "commit"
           Goal == Claims(h) /\ \A i \in Invites : InviteMove(h, i)
<1>0. /\ pc \in [Handlers -> Labels] /\ job = [g \in Handlers |-> job[g]]
      /\ invites \in [Invites -> InviteRow] /\ uses \in [Invites \cup Tokens -> Nat]
  BY DEF TypesFit, JobsFit, TablesFit
<1>1. Quiet => Goal
  BY DEF InviteMove, Untouched, Claims
<1>2. CASE Starting(h)
  <2>1. UNCHANGED <<stores, histories>> /\ pc'[h] # "commit"
    BY <1>0, <1>2 DEF Starting, StartLogin, StartChange, StartGoogle, StartReset, StartComplete, StartAdmin,
                      StartSend, AdminFirst, Begin
  <2> QED BY <1>1, <2>1 DEF stores, histories
<1>3. ASSUME NEW i \in Invites, StartAccept(h, i) PROVE Goal
  <2>1. /\ invites' = invites /\ uses' = uses /\ invites[i].state = "live" /\ ~Claimed(i)
        /\ Begin(h, [Task("accept", i, 0) EXCEPT !.entity = Own(cred, chosen + 1)], "commit")
    BY <1>3 DEF StartAccept, Acceptable, histories
  <2>2. job'[h].on = i
    BY <1>0, <2>1 DEF Begin, Task
  <2> QED BY <2>1, <2>2 DEF InviteMove, Untouched, Claims
<1>4. CASE DeleteToken(h)
  <2>1. job[h].on \in Tokens /\ pc'[h] # "commit"
    BY <1>0, <1>4, Working DEF DeleteToken, Fits, Continue
  <2>2. \A i \in Invites : invites'[i] = invites[i] /\ uses'[i] = uses[i]
    BY <1>0, <1>4, <2>1, CredentialAssumption DEF DeleteToken
  <2> QED BY <1>1, <2>1, <2>2
<1>5. CASE ReadLogin(h) \/ Reading(h) \/ MailFails(h)
  <2>1. invites' = invites /\ uses' = uses
    BY <1>5 DEF ReadLogin, Reading, ReadGoogle, ReadComplete, ReadChange, ReadReset, ReadAdmin, MailFails,
                stores, histories
  <2>2. pc'[h] # "commit"
    BY <1>0, <1>5 DEF ReadLogin, Reading, ReadGoogle, ReadComplete, ReadChange, ReadReset, ReadAdmin,
                      MailFails,
                Proceed, Continue, End
  <2> QED BY <1>1, <2>1, <2>2
<1>6. CASE Save(h) \/ CreateSession(h) \/ PauseLogin(h) \/ SaveLastLogin(h) \/ ListSessions(h)
           \/ (\E s \in Sids : EndSession(h, s))
  <2>1. invites' = invites /\ uses' = uses
    BY <1>6 DEF Save, CreateSession, PauseLogin, SaveLastLogin, ListSessions, EndSession, histories
  <2>2. pc'[h] # "commit"
    BY <1>0, <1>6 DEF Save, AfterSave, CreateSession, PauseLogin, SaveLastLogin, ListSessions, EndSession,
                      Continue, End
  <2> QED BY <1>1, <2>1, <2>2
<1>7. CASE ConsumeChallenge(h)
  <2>1. job[h].on \in Tokens /\ pc'[h] # "commit"
    BY <1>0, <1>7, Working DEF ConsumeChallenge, Fits, Continue, End
  <2>2. \A i \in Invites : invites'[i] = invites[i] /\ uses'[i] = uses[i]
    BY <1>0, <1>7, <2>1, CredentialAssumption DEF ConsumeChallenge
  <2> QED BY <1>1, <2>1, <2>2
<1>8. CASE CommitAccept(h)
  <2>1. job[h].on \in Invites /\ pc'[h] # "commit" /\ pc[h] = "commit"
    BY <1>0, <1>8, Working DEF CommitAccept, Fits, Continue
  <2>2. \A i \in Invites \ {job[h].on} : invites'[i] = invites[i] /\ uses'[i] = uses[i]
    BY <1>0, <1>8, <2>1 DEF CommitAccept
  <2>3. invites'[job[h].on].state = "accepted"
    BY <1>0, <1>8, <2>1 DEF CommitAccept, InviteRow
  <2> QED BY <2>1, <2>2, <2>3 DEF InviteMove, Untouched, Claims
<1>9. CASE RevokeOutstanding(h)
  <2>1. uses' = uses /\ pc'[h] # "commit" /\ invites' = Revoke(LiveInvites) /\ \A i \in LiveInvites : ~Claimed(i)
    BY <1>0, <1>9 DEF RevokeOutstanding, Continue, histories
  <2> QED BY <2>1, RevokeFields DEF InviteMove, Untouched, Claims, TypesFit
<1>10. CASE FindOldInvites(h)
  <2>1. invites' = invites /\ uses' = uses /\ pc'[h] # "commit"
    BY <1>0, <1>10 DEF FindOldInvites, Continue, stores, histories
  <2> QED BY <1>1, <2>1
<1>11. ASSUME NEW i \in Invites, InsertInvite(h, i) PROVE Goal
  <2> DEFINE todo == job[h].todo
  <2>1. /\ uses' = uses /\ pc'[h] # "commit" /\ \A j \in todo : ~Claimed(j)
        /\ invites' = [Revoke(todo) EXCEPT ![i] = [state |-> "live", under |-> cred.password]]
        /\ invites[i] = NoInvite
    BY <1>0, <1>11 DEF InsertInvite, Continue, histories
  <2> HIDE DEF todo
  <2>2. /\ Revoke(todo) \in [Invites -> InviteRow]
        /\ \A j \in Invites : \/ Revoke(todo)[j] = invites[j]
                              \/ j \in todo /\ invites[j].state = "live" /\ Revoke(todo)[j].state = "revoked"
    BY RevokeFields DEF TypesFit
  <2>3. \A j \in Invites \ {i} : InviteMove(h, j)
    BY <2>1, <2>2 DEF InviteMove, Untouched, Claims
  <2>4. ~Claimed(i)
    BY <2>1 DEF InvitesFit, Claimed, NoInvite
  <2>5. InviteMove(h, i)
    BY <2>1, <2>2, <2>4 DEF InviteMove, Untouched, NoInvite
  <2> QED BY <2>1, <2>3, <2>5 DEF Claims
<1>12. CASE SendMail(h)
  <2>1. uses' = uses /\ pc'[h] # "commit"
    BY <1>0, <1>12 DEF SendMail, End, Continue, histories
  <2>2. CASE invites' = invites
    BY <1>1, <2>1, <2>2
  <2>3. CASE ~Claimed(job[h].on) /\ invites' = [invites EXCEPT ![job[h].on].state = "revoked"]
    <3> DEFINE i == job[h].on
    <3>1. i \in Invites
      BY <1>12, Working DEF SendMail, Fits
    <3>2. invites'[i].state = "revoked" /\ \A j \in Invites \ {i} : invites'[j] = invites[j]
      BY <1>0, <2>3, <3>1 DEF InviteRow
    <3> QED BY <2>1, <2>3, <3>1, <3>2 DEF InviteMove, Untouched, Claims
  <2> QED BY <1>12, <2>2, <2>3 DEF SendMail
<1> QED BY <1>2, <1>3, <1>4, <1>5, <1>6, <1>7, <1>8, <1>9, <1>10, <1>11, <1>12 DEF Request, Writing, Inviting
\* Requests one by one, time and crashes keep what is known of the invitations.
LEMMA InvitesStep ==
  ASSUME TypesFit, InvitesFit, [CredentialNext]_credentialVars
  PROVE  /\ InvitesFit'
         /\ \A i \in Invites : uses'[i] # uses[i] => uses[i] = 0 /\ invites[i].state = "live"
<1>1. ASSUME NEW h \in Handlers, Request(h)
      PROVE  /\ InvitesFit'
             /\ \A i \in Invites : uses'[i] # uses[i] => uses[i] = 0 /\ invites[i].state = "live"
  <2>1. Claims(h) /\ \A i \in Invites : InviteMove(h, i)
    BY <1>1, InviteMoves
  <2>2. \A g \in Handlers \ {h} : pc'[g] = pc[g] /\ job'[g] = job[g]
    BY <1>1, RequestStep
  <2>3. \A g \in Handlers : pc[g] = "commit" => job[g].on \in Invites
    BY DEF TypesFit, JobsFit, Fits
  <2>4. ASSUME NEW i \in Invites, uses'[i] # 0 PROVE ~Untouched(invites'[i])
    BY <2>1, <2>4 DEF InviteMove, InvitesFit
  <2>5. ASSUME NEW g \in Handlers, pc'[g] = "commit" PROVE invites'[job'[g].on].state = "live"
    <3>1. CASE g = h
      BY <2>1, <2>5, <3>1 DEF InviteMove, Claimed, Claims
    <3>2. CASE g # h
      BY <2>1, <2>2, <2>3, <2>5, <3>2 DEF InviteMove, Claimed, InvitesFit
    <3> QED BY <3>1, <3>2
  <2>6. ASSUME NEW g \in Handlers, NEW k \in Handlers, pc'[g] = "commit", pc'[k] = "commit",
               job'[g].on = job'[k].on
        PROVE  g = k
    BY <2>1, <2>2, <2>6 DEF InvitesFit, Claimed, Claims
  <2>7. ASSUME NEW i \in Invites, uses'[i] # uses[i] PROVE uses[i] = 0 /\ invites[i].state = "live"
    BY <2>1, <2>7 DEF InviteMove, InvitesFit, Untouched
  <2> QED BY <2>4, <2>5, <2>6, <2>7 DEF InvitesFit
<1>2. ASSUME World \/ UNCHANGED credentialVars PROVE InvitesFit' /\ uses' = uses
  <2>1. uses' = uses
    BY <1>2 DEF World, ForgotPassword, ExpireInvite, Unlock, Crash, credentialVars, histories
  <2>2. CASE (\E t \in Tokens : ForgotPassword(t)) \/ UNCHANGED credentialVars
    BY <2>2 DEF ForgotPassword, credentialVars, stores, histories, InvitesFit
  <2>3. ASSUME NEW i \in Invites, ExpireInvite(i) PROVE InvitesFit'
    <3>1. invites'[i].state = "expired" /\ \A j \in Invites \ {i} : invites'[j] = invites[j]
      BY <2>3 DEF ExpireInvite, TypesFit, TablesFit, InviteRow
    <3>2. \A g \in Handlers : pc[g] = "commit" => job[g].on \in Invites \ {i}
      BY <2>3 DEF TypesFit, JobsFit, Fits, ExpireInvite, Claimed
    <3> QED BY <2>3, <3>1, <3>2 DEF ExpireInvite, InvitesFit, Untouched, histories
  <2>4. CASE Unlock
    <3>1. \A g \in Handlers : pc[g] = "commit" => job'[g].on = job[g].on
      BY <2>4 DEF Unlock, TypesFit, JobsFit, Fits, TaskRecord
    <3> QED BY <2>4, <3>1 DEF Unlock, InvitesFit, histories
  <2>5. CASE Crash
    BY <2>5 DEF Crash, stores, histories, InvitesFit
  <2> QED BY <1>2, <2>1, <2>2, <2>3, <2>4, <2>5 DEF World
<1> QED BY <1>1, <1>2, NextCases

\* Requests at the same time included, an invitation sets a password once, and
\* only while it is live (acceptInvite's conditional UPDATE).
THEOREM InvitationsSetOnce == CredentialSpec => InviteSetsOnce
<1>1. CredentialInit => TypesFit /\ InvitesFit
  BY TypesStart DEF CredentialInit, InvitesFit
<1>2. TypesFit /\ InvitesFit /\ [CredentialNext]_credentialVars
        => /\ TypesFit' /\ InvitesFit'
           /\ [\A i \in Invites :
                 uses'[i] # uses[i] => uses[i] = 0 /\ invites[i].state = "live"]_<<uses, invites>>
  BY TypesStep, InvitesStep
<1> QED BY <1>1, <1>2, PTL DEF CredentialSpec, InviteSetsOnce
-----------------------------------------------------------------------------
(* Invitations that are sent *)

Sending(h) == pc[h] \in {"revokeOld", "insert", "mail"}

\* One send at a time: when it inserts its invitation, every live one is among
\* those it revokes.
SendsFit ==
  "sends" \notin noise =>
    /\ \A g, h \in Handlers : Sending(g) /\ Sending(h) => g = h
    /\ \A h \in Handlers : pc[h] = "insert" => LiveInvites \subseteq job[h].todo
    /\ \A i, j \in LiveInvites : i = j

\* A request begins: nothing but the noise looks at the others.
LEMMA BeginShape ==
  ASSUME TypesFit, NEW h \in Handlers, NEW j, NEW label, Begin(h, j, label)
  PROVE  /\ pc[h] = "idle" /\ pc'[h] = label /\ job'[h] = j /\ noise \subseteq noise'
         /\ "overlap" \notin noise' => ~Busy
         /\ "sends" \notin noise' /\ j.op = "send" => \A g \in Handlers : ~Sending(g)
<1>1. pc[h] = "idle" /\ pc'[h] = label /\ job'[h] = j
  BY DEF TypesFit, JobsFit, Begin
<1>2. noise \subseteq noise' /\ ("overlap" \notin noise' => ~Busy)
  BY DEF Begin
<1>3. ASSUME NEW g \in Handlers, Sending(g), j.op = "send" PROVE "sends" \in noise'
  <2>1. job[g].op = "send"
    BY <1>3 DEF TypesFit, JobsFit, Fits, Sending
  <2>2. {j.op, job[g].op} = {"send"}
    BY <1>3, <2>1
  <2> QED BY <2>2 DEF Begin
<1> QED BY <1>1, <1>2, <1>3

\* Where a request stands when it goes on, and when it ends.
LEMMA ContinueShape ==
  ASSUME TypesFit, NEW h \in Handlers, NEW j, NEW label, Continue(h, j, label)
  PROVE  pc'[h] = label /\ job'[h] = j /\ noise' = noise
BY DEF TypesFit, JobsFit, Continue

\* A request that ends forgets its task.
LEMMA EndShape ==
  ASSUME TypesFit, NEW h \in Handlers, End(h) PROVE pc'[h] = "idle" /\ job'[h] = NoJob /\ noise' = noise
BY DEF TypesFit, JobsFit, Continue, End

\* The request goes on with another credential.
LEMMA ProceedShape ==
  ASSUME TypesFit, NEW h \in Handlers, NEW c, NEW label, Proceed(h, c, label), pc[h] # "idle"
  PROVE  /\ pc'[h] = label /\ noise' = noise /\ job'[h].entity = c
         /\ job'[h].op = job[h].op /\ job'[h].on = job[h].on
         /\ job'[h].guess = job[h].guess /\ job'[h].todo = job[h].todo
<1> DEFINE t == job[h]
           j == [t EXCEPT !.entity = c]
<1>1. t \in TaskRecord
  BY Working
<1>2. pc'[h] = label /\ job'[h] = j /\ noise' = noise
  BY ContinueShape DEF Proceed
<1> HIDE DEF t
<1>3. j.entity = c /\ j.op = t.op /\ j.on = t.on /\ j.guess = t.guess /\ j.todo = t.todo
  BY <1>1 DEF TaskRecord
<1> QED BY <1>2, <1>3 DEF t

\* The request goes on with another list.
LEMMA TodoShape ==
  ASSUME TypesFit, NEW h \in Handlers, NEW S, NEW label, Continue(h, [job[h] EXCEPT !.todo = S], label),
         pc[h] # "idle"
  PROVE  /\ pc'[h] = label /\ noise' = noise /\ job'[h].todo = S
         /\ job'[h].op = job[h].op /\ job'[h].on = job[h].on
         /\ job'[h].guess = job[h].guess /\ job'[h].entity = job[h].entity
<1> DEFINE t == job[h]
           j == [t EXCEPT !.todo = S]
<1>1. t \in TaskRecord
  BY Working
<1>2. pc'[h] = label /\ job'[h] = j /\ noise' = noise
  BY ContinueShape
<1> HIDE DEF t
<1>3. j.todo = S /\ j.op = t.op /\ j.on = t.on /\ j.guess = t.guess /\ j.entity = t.entity
  BY <1>1 DEF TaskRecord
<1> QED BY <1>2, <1>3 DEF t

\* The labels requests begin with.
LEMMA StartShape ==
  ASSUME TypesFit, NEW h \in Handlers, Starting(h)
  PROVE  /\ UNCHANGED <<stores, histories>> /\ pc[h] = "idle"
         /\ pc'[h] \in {"read", "takeToken", "revokeLinks", "revokeOld"} /\ noise \subseteq noise'
         /\ "overlap" \notin noise' => ~Busy
         /\ "sends" \notin noise' /\ pc'[h] = "revokeOld" => \A g \in Handlers : ~Sending(g)
         /\ pc'[h] = "read" => job'[h].op \notin Admin
<1>1. UNCHANGED <<stores, histories>>
  BY DEF Starting, StartLogin, StartChange, StartGoogle, StartReset, StartComplete, StartAdmin, StartSend
<1>2. \/ \E j : \E label \in {"takeToken", "revokeLinks"} : Begin(h, j, label)
      \/ \E j : Begin(h, j, "read") /\ j.op \notin Admin
      \/ Begin(h, Task("send", None, 0), "revokeOld")
  <2>1. \A op, on, guess : Task(op, on, guess).op = op
    BY DEF Task
  <2>2. \A t \in Tokens : \A S : [Task("complete", t, challenges[t].proved) EXCEPT !.todo = S].op = "complete"
    BY DEF Task
  <2>3. ASSUME StartAdmin(h, "adminSet") \/ StartAdmin(h, "adminReset") \/ \E t \in Tokens : StartReset(h, t)
        PROVE  \E j : \E label \in {"takeToken", "revokeLinks"} : Begin(h, j, label)
    BY <2>3 DEF StartAdmin, StartReset, AdminFirst
  <2>4. ASSUME NEW op \in Ops \ Admin, NEW on, NEW guess, Begin(h, Task(op, on, guess), "read")
        PROVE  \E j : Begin(h, j, "read") /\ j.op \notin Admin
    BY <2>1, <2>4
  <2>5. ASSUME NEW t \in Tokens, NEW S, Begin(h, [Task("complete", t, challenges[t].proved) EXCEPT !.todo = S], "read")
        PROVE  \E j : Begin(h, j, "read") /\ j.op \notin Admin
    <3> DEFINE j == [Task("complete", t, challenges[t].proved) EXCEPT !.todo = S]
    <3>1. j.op = "complete" /\ Begin(h, j, "read")
      BY <2>2, <2>5
    <3> HIDE DEF j
    <3> QED BY <3>1 DEF Admin
  <2>6. {"login", "change", "google"} \subseteq Ops \ Admin
    BY DEF Ops, Setting, SigningIn, Admin
  <2>7. ASSUME NEW guess, StartLogin(h, guess) \/ StartGoogle(h) \/ \E s \in Sids : StartChange(h, s, guess)
        PROVE  \E j : Begin(h, j, "read") /\ j.op \notin Admin
    BY <2>4, <2>6, <2>7 DEF StartLogin, StartGoogle, StartChange
  <2>8. ASSUME NEW t \in Tokens, NEW S, StartComplete(h, t, S)
        PROVE  \E j : Begin(h, j, "read") /\ j.op \notin Admin
    BY <2>5, <2>8 DEF StartComplete
  <2> QED BY <2>3, <2>7, <2>8 DEF Starting, StartSend
<1>3. Task("send", None, 0).op = "send"
  BY DEF Task
<1> QED BY <1>1, <1>2, <1>3, BeginShape

\* Only an insertion makes an invitation live, and only sends go on as sends.
LEMMA SendMoves ==
  ASSUME TypesFit, NEW h \in Handlers, Request(h)
  PROVE  /\ noise \subseteq noise'
         /\ \/ LiveInvites' \subseteq LiveInvites /\ ~(pc'[h] \in {"revokeOld", "insert", "mail"})
            \/ /\ LiveInvites' = LiveInvites /\ pc'[h] = "revokeOld"
               /\ "sends" \notin noise' => \A g \in Handlers : ~Sending(g)
            \/ LiveInvites' = LiveInvites /\ Sending(h) /\ pc'[h] = "insert" /\ job'[h].todo = LiveInvites
            \/ /\ pc[h] = "insert" /\ pc'[h] = "mail"
               /\ \E i \in Invites : \A j \in LiveInvites' : j = i \/ (j \in LiveInvites /\ j \notin job[h].todo)
<1> DEFINE Fewer == LiveInvites' \subseteq LiveInvites /\ ~(pc'[h] \in {"revokeOld", "insert", "mail"})
<1>0. /\ pc \in [Handlers -> Labels] /\ job = [g \in Handlers |-> job[g]]
      /\ invites \in [Invites -> InviteRow]
  BY DEF TypesFit, JobsFit, TablesFit
<1>1. CASE Starting(h)
  <2>1. LiveInvites' = LiveInvites
    BY <1>1, StartShape DEF stores, LiveInvites
  <2> QED BY <1>1, <2>1, StartShape
<1>2. ASSUME NEW i \in Invites, StartAccept(h, i) PROVE Fewer /\ noise \subseteq noise'
  BY <1>2, BeginShape DEF StartAccept, LiveInvites
<1>3. CASE DeleteToken(h)
  BY <1>3, ContinueShape DEF DeleteToken, LiveInvites
<1>4. CASE ReadLogin(h) \/ Reading(h) \/ MailFails(h)
  <2>1. invites' = invites /\ noise' = noise
    BY <1>4 DEF ReadLogin, Reading, ReadGoogle, ReadComplete, ReadChange, ReadReset, ReadAdmin, MailFails,
                stores, Proceed, Continue, End
  <2>2. ~(pc'[h] \in {"revokeOld", "insert", "mail"})
    BY <1>0, <1>4 DEF ReadLogin, Reading, ReadGoogle, ReadComplete, ReadChange, ReadReset, ReadAdmin,
                      MailFails,
                Proceed, Continue, End
  <2> QED BY <2>1, <2>2 DEF LiveInvites
<1>5. CASE Save(h) \/ CreateSession(h) \/ PauseLogin(h) \/ SaveLastLogin(h) \/ ConsumeChallenge(h)
           \/ ListSessions(h) \/ (\E s \in Sids : EndSession(h, s))
  <2>1. invites' = invites /\ noise' = noise
    BY <1>5 DEF Save, CreateSession, PauseLogin, SaveLastLogin, ConsumeChallenge, ListSessions, EndSession,
                Continue, End
  <2>2. ~(pc'[h] \in {"revokeOld", "insert", "mail"})
    BY <1>0, <1>5 DEF Save, AfterSave, CreateSession, PauseLogin, SaveLastLogin, ConsumeChallenge,
                      ListSessions,
                      EndSession, Continue, End
  <2> QED BY <2>1, <2>2 DEF LiveInvites
<1>6. CASE CommitAccept(h)
  <2>1. job[h].on \in Invites /\ pc'[h] = "list" /\ noise' = noise
    BY <1>0, <1>6, Working DEF CommitAccept, Fits, Continue
  <2>2. \A i \in Invites : invites'[i].state = "live" => invites[i].state = "live"
    BY <1>0, <1>6, <2>1 DEF CommitAccept, InviteRow
  <2> QED BY <2>1, <2>2 DEF LiveInvites
<1>7. CASE RevokeOutstanding(h)
  BY <1>7, RevokeFields, ContinueShape DEF RevokeOutstanding, LiveInvites, TypesFit
<1>8. CASE FindOldInvites(h)
  <2>1. pc[h] = "revokeOld" /\ LiveInvites' = LiveInvites
    BY <1>8 DEF FindOldInvites, stores, LiveInvites
  <2>2. /\ pc'[h] = "insert" /\ noise' = noise
        /\ job'[h].todo = LiveInvites /\ job'[h].op = job[h].op
    BY <1>8, <2>1, TodoShape DEF FindOldInvites
  <2> QED BY <2>1, <2>2 DEF Sending
<1>9. ASSUME NEW i \in Invites, InsertInvite(h, i)
      PROVE  /\ noise \subseteq noise' /\ pc[h] = "insert" /\ pc'[h] = "mail"
             /\ \A j \in LiveInvites' : j = i \/ (j \in LiveInvites /\ j \notin job[h].todo)
  <2> DEFINE todo == job[h].todo
  <2>1. /\ invites' = [Revoke(todo) EXCEPT ![i] = [state |-> "live", under |-> cred.password]]
        /\ pc[h] = "insert" /\ pc'[h] = "mail" /\ noise' = noise
    BY <1>0, <1>9 DEF InsertInvite, Continue
  <2> HIDE DEF todo
  <2>2. \A j \in Invites : invites'[j].state = "live" => j = i \/ (invites[j].state = "live" /\ j \notin todo)
    BY <2>1, RevokeFields DEF TypesFit
  <2> QED BY <2>1, <2>2 DEF todo, LiveInvites
<1>10. CASE SendMail(h)
  <2>1. pc'[h] = "idle" /\ noise' = noise
    BY <1>0, <1>10 DEF SendMail, End, Continue
  <2>2. job[h].on \in Invites
    BY <1>10, Working DEF SendMail, Fits
  <2>3. \A i \in Invites : invites'[i].state = "live" => invites[i].state = "live"
    BY <1>0, <1>10, <2>2 DEF SendMail, InviteRow
  <2> QED BY <2>1, <2>3 DEF LiveInvites
<1> QED BY <1>1, <1>2, <1>3, <1>4, <1>5, <1>6, <1>7, <1>8, <1>9, <1>10 DEF Request, Writing, Inviting

\* Time and crashes make no invitation live; a crash stops every send.
LEMMA WorldSends ==
  ASSUME TypesFit, World \/ UNCHANGED credentialVars
  PROVE  /\ LiveInvites' \subseteq LiveInvites /\ noise \subseteq noise'
         /\ \/ pc' = pc /\ \A h \in Handlers : pc[h] = "insert" => job'[h].todo = job[h].todo
            \/ \A h \in Handlers : pc'[h] = "idle"
<1>1. CASE (\E t \in Tokens : ForgotPassword(t)) \/ UNCHANGED credentialVars
  BY <1>1 DEF ForgotPassword, credentialVars, stores, LiveInvites
<1>2. CASE \E i \in Invites : ExpireInvite(i)
  <2>1. \A i \in Invites : invites'[i].state = "live" => invites[i].state = "live"
    BY <1>2 DEF ExpireInvite, TypesFit, TablesFit, InviteRow
  <2> QED BY <1>2, <2>1 DEF ExpireInvite, LiveInvites
<1>3. CASE Unlock
  <2>1. \A h \in Handlers : pc[h] = "insert" => job'[h].todo = job[h].todo
    BY <1>3 DEF Unlock, TypesFit, JobsFit, Fits, TaskRecord
  <2> QED BY <1>3, <2>1 DEF Unlock, LiveInvites
<1>4. CASE Crash
  BY <1>4 DEF Crash, stores, LiveInvites
<1> QED BY <1>1, <1>2, <1>3, <1>4 DEF World

\* Every step keeps what is known of the sends.
LEMMA SendsStep == ASSUME TypesFit, SendsFit, [CredentialNext]_credentialVars PROVE SendsFit'
<1> SUFFICES ASSUME "sends" \notin noise'
             PROVE  /\ \A g, h \in Handlers : (Sending(g) /\ Sending(h))' => g = h
                    /\ \A h \in Handlers : pc'[h] = "insert" => LiveInvites' \subseteq job'[h].todo
                    /\ \A i, j \in LiveInvites' : i = j
  BY DEF SendsFit
<1>1. CASE World \/ UNCHANGED credentialVars
  BY <1>1, WorldSends DEF SendsFit, Sending
<1>2. ASSUME NEW h \in Handlers, Request(h)
      PROVE  /\ \A g, k \in Handlers : (Sending(g) /\ Sending(k))' => g = k
             /\ \A g \in Handlers : pc'[g] = "insert" => LiveInvites' \subseteq job'[g].todo
             /\ \A i, j \in LiveInvites' : i = j
  <2>1. \A g \in Handlers \ {h} : pc'[g] = pc[g] /\ job'[g] = job[g]
    BY <1>2, RequestStep
  <2>2. "sends" \notin noise
    BY <1>2, SendMoves
  <2>3. CASE LiveInvites' \subseteq LiveInvites /\ ~(pc'[h] \in {"revokeOld", "insert", "mail"})
    BY <2>1, <2>2, <2>3 DEF SendsFit, Sending
  <2>4. CASE LiveInvites' = LiveInvites /\ pc'[h] = "revokeOld" /\ \A g \in Handlers : ~Sending(g)
    BY <2>1, <2>2, <2>4 DEF SendsFit, Sending
  <2>5. CASE LiveInvites' = LiveInvites /\ Sending(h) /\ pc'[h] = "insert" /\ job'[h].todo = LiveInvites
    BY <2>1, <2>2, <2>5 DEF SendsFit, Sending
  <2>6. CASE /\ pc[h] = "insert" /\ pc'[h] = "mail"
             /\ \E i \in Invites : \A j \in LiveInvites' : j = i \/ (j \in LiveInvites /\ j \notin job[h].todo)
    BY <2>1, <2>2, <2>6 DEF SendsFit, Sending
  <2> QED BY <1>2, <2>3, <2>4, <2>5, <2>6, SendMoves
<1> QED BY <1>1, <1>2, NextCases
-----------------------------------------------------------------------------
(* One request at a time *)

Alone == \A g, h \in Handlers : pc[g] # "idle" /\ pc[h] # "idle" => g = h

\* The change is forced where the owner did not choose the password.
Marked(c) == c.must <=> c.password \in byAdmin \cup {0}

\* Where a request holds a credential that it will write.
Holding == {"save", "create", "last", "evict", "commit"}

JobMarked(h) ==
  /\ pc[h] \in Holding =>
       /\ Marked(job[h].entity)
       /\ job[h].op \in Admin \/ job[h].entity.password = cred.password \/ job[h].entity.password \notin byAdmin
  /\ pc[h] \in {"read", "save"} /\ job[h].op \in Admin => LiveInvites = {}

NoneOlder == cred.password \in byAdmin => \A i \in LiveInvites : invites[i].under >= cred.password

\* An administrator's password is written when every invitation is revoked.
OverlapFit ==
  "overlap" \notin noise => Alone /\ Marked(cred) /\ NoneOlder /\ \A h \in Handlers : JobMarked(h)

\* Every step but the first finds its request at work.
LEMMA AtWork ==
  ASSUME TypesFit, NEW h \in Handlers, Request(h)
  PROVE  /\ noise \subseteq noise'
         /\ pc[h] = "idle" /\ "overlap" \notin noise' => ~Busy
<1>1. CASE Starting(h)
  BY <1>1, StartShape
<1>2. ASSUME NEW i \in Invites, StartAccept(h, i)
      PROVE  noise \subseteq noise' /\ ("overlap" \notin noise' => ~Busy)
  BY <1>2, BeginShape DEF StartAccept
<1>3. CASE DeleteToken(h) \/ ReadLogin(h) \/ Reading(h) \/ MailFails(h)
  BY <1>3, SendMoves DEF DeleteToken, ReadLogin, Reading, ReadGoogle, ReadComplete, ReadChange, ReadReset,
                         ReadAdmin, MailFails
<1>4. CASE Writing(h)
  BY <1>4, SendMoves DEF Writing, Save, CreateSession, PauseLogin, SaveLastLogin, ConsumeChallenge,
                         CommitAccept, ListSessions, EndSession
<1>5. CASE Inviting(h)
  BY <1>5, SendMoves DEF Inviting, RevokeOutstanding, FindOldInvites, InsertInvite, SendMail
<1> QED BY <1>1, <1>2, <1>3, <1>4, <1>5 DEF Request

\* Where nothing overlaps, the request that moves is the only one.
LEMMA Solo ==
  ASSUME TypesFit, OverlapFit, NEW h \in Handlers, Request(h), "overlap" \notin noise'
  PROVE  /\ "overlap" \notin noise
         /\ \A g \in Handlers \ {h} : pc[g] = "idle" /\ pc'[g] = "idle" /\ job[g] = NoJob /\ job'[g] = NoJob
<1>1. "overlap" \notin noise
  BY AtWork
<1>2. \A g \in Handlers \ {h} : pc[g] = "idle"
  BY <1>1, AtWork DEF OverlapFit, Alone, Busy
<1>3. \A g \in Handlers \ {h} : pc'[g] = pc[g] /\ job'[g] = job[g]
  BY RequestStep
<1> QED BY <1>1, <1>2, <1>3 DEF TypesFit, JobsFit, Fits

\* What a step of the only request must bring.
LEMMA OverlapKept ==
  ASSUME TypesFit, OverlapFit, NEW h \in Handlers, Request(h), "overlap" \notin noise',
         (Marked(cred) /\ NoneOlder /\ JobMarked(h))'
  PROVE  OverlapFit'
<1>1. \A g \in Handlers \ {h} : pc'[g] = "idle" /\ job'[g] = NoJob
  BY Solo
<1>2. \A g \in Handlers \ {h} : JobMarked(g)'
  BY <1>1 DEF JobMarked, Holding
<1> QED BY <1>1, <1>2 DEF OverlapFit, Alone
\* A credential read, and what can be done with it without choosing a password.
LEMMA ReadFields ==
  ASSUME TypesFit
  PROVE  /\ \A b \in BOOLEAN : /\ [cred EXCEPT !.google = b].password = cred.password
                               /\ [cred EXCEPT !.google = b].must = cred.must
                               /\ [cred EXCEPT !.google = b].failed = cred.failed
         /\ [cred EXCEPT !.failed = 0, !.locked = FALSE].password = cred.password
         /\ [cred EXCEPT !.failed = 0, !.locked = FALSE].must = cred.must
         /\ [cred EXCEPT !.failed = 0, !.locked = FALSE].failed = 0
         /\ CountFailure(cred).password = cred.password /\ CountFailure(cred).must = cred.must
         /\ cred \in Credential /\ cred.password \in Nat /\ cred.password <= chosen
  BY CountFields DEF TypesFit, TablesFit, WellFormed, Credential, Passwords

\* A wrong password: the request goes on as a failed one.
LEMMA FailedShape ==
  ASSUME TypesFit, NEW h \in Handlers, pc[h] # "idle",
         Continue(h, [job[h] EXCEPT !.op = "failed", !.entity = CountFailure(cred)], "save")
  PROVE  /\ pc'[h] = "save" /\ job'[h].op = "failed" /\ job'[h].entity = CountFailure(cred)
         /\ job'[h].guess = job[h].guess /\ job'[h].todo = job[h].todo
<1> DEFINE t == job[h]
           c == CountFailure(cred)
           j == [t EXCEPT !.op = "failed", !.entity = c]
<1>1. t \in TaskRecord
  BY Working
<1>2. pc'[h] = "save" /\ job'[h] = j
  BY ContinueShape
<1> HIDE DEF t, c
<1>3. j.op = "failed" /\ j.entity = c /\ j.guess = t.guess /\ j.todo = t.todo
  BY <1>1 DEF TaskRecord
<1> QED BY <1>2, <1>3 DEF t, c

\* An invitation being accepted: the request holds the new password.
LEMMA AcceptShape ==
  ASSUME TypesFit, NEW h \in Handlers, NEW i \in Invites, StartAccept(h, i)
  PROVE  /\ pc'[h] = "commit" /\ job'[h].op = "accept" /\ job'[h].entity = Own(cred, chosen + 1)
         /\ pc[h] = "idle" /\ Choose
         /\ UNCHANGED <<cred, sessions, invites, resets, challenges, histories>>
<1> DEFINE k == Task("accept", i, 0)
           c == Own(cred, chosen + 1)
           j == [k EXCEPT !.entity = c]
<1>1. pc'[h] = "commit" /\ job'[h] = j /\ pc[h] = "idle" /\ Choose
      /\ UNCHANGED <<cred, sessions, invites, resets, challenges, histories>>
  BY BeginShape DEF StartAccept
<1>2. k.op = "accept" /\ k \in TaskRecord
  <2>1. 0 \in Passwords /\ "accept" \in Ops
    BY CredentialAssumption DEF Ops, Passwords
  <2> QED BY <2>1, TaskFields DEF TypesFit
<1> HIDE DEF k, c
<1>3. j.op = "accept" /\ j.entity = c
  BY <1>2 DEF TaskRecord
<1> QED BY <1>1, <1>3 DEF c

\* New passwords are nobody's yet.
LEMMA NewPassword ==
  ASSUME TypesFit, Choose
  PROVE  /\ \A b \in {byAdmin} : Own(cred, chosen + 1).password \notin b \cup {0}
         /\ ~Own(cred, chosen + 1).must /\ Imposed(cred, chosen + 1).must
         /\ Own(cred, chosen + 1).password = chosen + 1 /\ Imposed(cred, chosen + 1).password = chosen + 1
         /\ cred.password # chosen + 1 /\ cred.password < chosen + 1
  BY ChooseFields, SetFields, ReadFields

\* A request keeps the passwords and the invitations apart.
LEMMA OverlapRequest == ASSUME TypesFit, OverlapFit, NEW h \in Handlers, Request(h) PROVE OverlapFit'
<1> DEFINE Goal == (Marked(cred) /\ NoneOlder /\ JobMarked(h))'
           t == job[h]
<1> SUFFICES ASSUME "overlap" \notin noise' PROVE Goal
  BY OverlapKept DEF OverlapFit
<1>0. /\ Marked(cred) /\ NoneOlder /\ JobMarked(h)
      /\ pc \in [Handlers -> Labels] /\ job = [g \in Handlers |-> job[g]]
      /\ invites \in [Invites -> InviteRow] /\ cred.password \in Nat
  BY Solo, ReadFields DEF OverlapFit, TypesFit, JobsFit, TablesFit
<1>1. ASSUME UNCHANGED <<cred, byAdmin, invites>>, pc'[h] \notin Holding, pc'[h] = "read" => job'[h].op \notin Admin
      PROVE  Goal
  BY <1>0, <1>1 DEF Marked, NoneOlder, JobMarked, LiveInvites, Holding
<1>2. CASE Starting(h)
  BY <1>1, <1>2, StartShape DEF Holding, stores, histories
<1>3. ASSUME NEW i \in Invites, StartAccept(h, i) PROVE Goal
  <2>1. cred' = cred /\ byAdmin' = byAdmin /\ invites' = invites
    BY <1>3 DEF StartAccept, histories
  <2> QED BY <1>0, <1>3, <2>1, AcceptShape, NewPassword
          DEF Marked, NoneOlder, JobMarked, LiveInvites, Admin
<1>4. CASE DeleteToken(h)
  <2>1. t.op = "reset"
    BY <1>4, Working DEF DeleteToken, Fits
  <2> QED BY <1>1, <1>4, <2>1, ContinueShape DEF DeleteToken, Holding, Admin
<1>5. CASE End(h) /\ UNCHANGED <<cred, byAdmin, invites>>
  BY <1>1, <1>5, EndShape DEF Holding
<1>6. ASSUME UNCHANGED <<cred, byAdmin, invites>>, job'[h].entity.password = cred.password,
             job'[h].entity.must = cred.must, job'[h].op \notin Admin
      PROVE  Goal
  BY <1>0, <1>6 DEF Marked, NoneOlder, JobMarked, LiveInvites
<1>7. CASE ReadLogin(h)
  <2>1. pc[h] = "read" /\ t.op = "login" /\ UNCHANGED <<cred, byAdmin, invites>>
    BY <1>7 DEF ReadLogin, stores
  <2>2. CASE Proceed(h, [cred EXCEPT !.failed = 0, !.locked = FALSE], "save")
    BY <1>6, <2>1, <2>2, ProceedShape, ReadFields DEF Admin
  <2>3. CASE Continue(h, [job[h] EXCEPT !.op = "failed", !.entity = CountFailure(cred)], "save")
    BY <1>6, <2>1, <2>3, FailedShape, ReadFields DEF Admin
  <2> QED BY <1>5, <1>7, <2>1, <2>2, <2>3 DEF ReadLogin
<1>8. CASE ReadGoogle(h) \/ ReadComplete(h)
  <2>1. pc[h] = "read" /\ t.op \notin Admin /\ UNCHANGED <<cred, byAdmin, invites>>
    BY <1>8 DEF ReadGoogle, ReadComplete, stores, histories, Admin
  <2>2. ASSUME NEW label, Proceed(h, cred, label) \/ Proceed(h, [cred EXCEPT !.google = TRUE], label)
        PROVE  Goal
    BY <1>6, <2>1, <2>2, ProceedShape, ReadFields
  <2> QED BY <1>5, <1>8, <2>1, <2>2 DEF ReadGoogle, ReadComplete
<1>9. CASE ReadChange(h) \/ ReadReset(h)
  <2>1. pc[h] = "read" /\ t.op \notin Admin /\ UNCHANGED <<cred, byAdmin, invites>>
    BY <1>9 DEF ReadChange, ReadReset, histories, Admin
  <2>2. CASE Choose /\ Proceed(h, Own(cred, chosen + 1), "save")
    BY <1>0, <2>1, <2>2, ProceedShape, NewPassword DEF Marked, NoneOlder, JobMarked, LiveInvites
  <2> QED BY <1>5, <1>9, <2>1, <2>2 DEF ReadChange, ReadReset
<1>10. CASE ReadAdmin(h)
  <2>1. /\ pc[h] = "read" /\ t.op \in Admin /\ cred' = cred /\ invites' = invites /\ Choose
        /\ byAdmin' = byAdmin \cup {chosen + 1} /\ Proceed(h, Imposed(cred, chosen + 1), "save")
    BY <1>10 DEF ReadAdmin, Admin
  <2>2. LiveInvites' = LiveInvites /\ LiveInvites = {}
    BY <1>0, <2>1 DEF JobMarked, LiveInvites
  <2>3. job'[h].op = t.op /\ job'[h].entity = Imposed(cred, chosen + 1)
    BY <2>1, ProceedShape
  <2> QED BY <1>0, <2>1, <2>2, <2>3, NewPassword DEF Marked, NoneOlder, JobMarked
<1>11. CASE MailFails(h)
  BY <1>5, <1>11 DEF MailFails, stores, histories
<1>12. CASE Save(h) \/ SaveLastLogin(h)
  <2>1. /\ pc[h] \in Holding /\ cred' = t.entity /\ byAdmin' = byAdmin /\ invites' = invites
        /\ pc[h] \in {"save", "last"}
    BY <1>12 DEF Save, SaveLastLogin, Holding
  <2>2. (Marked(cred) /\ NoneOlder)'
    <3>1. t.op \in Admin => pc[h] = "save"
      BY <1>12, <2>1, Working DEF Fits, SigningIn, Admin
    <3>2. LiveInvites' = LiveInvites
      BY <2>1 DEF LiveInvites
    <3> QED BY <1>0, <2>1, <3>1, <3>2 DEF Marked, NoneOlder, JobMarked
  <2>3. CASE pc'[h] \notin Holding /\ pc'[h] # "read"
    BY <2>2, <2>3 DEF JobMarked, Holding
  <2>4. CASE t.op \in SigningIn /\ Continue(h, t, "create")
    <3>1. job'[h] = t /\ pc'[h] = "create" /\ t.op \notin Admin
      BY <2>4, ContinueShape DEF SigningIn, Admin
    <3> QED BY <1>0, <2>1, <2>2, <3>1 DEF Marked, JobMarked
  <2>5. \/ End(h) \/ Continue(h, t, "list") \/ Continue(h, t, "consume")
        \/ t.op \in SigningIn /\ Continue(h, t, "create")
    BY <1>12 DEF Save, AfterSave, SaveLastLogin, SigningIn
  <2> QED BY <2>3, <2>4, <2>5, ContinueShape, EndShape DEF Holding
<1>13. CASE CreateSession(h)
  <2>1. UNCHANGED <<cred, byAdmin, invites>> /\ pc[h] = "create" /\ Continue(h, t, "last")
    BY <1>13 DEF CreateSession, histories
  <2> QED BY <1>0, <2>1, ContinueShape DEF Marked, NoneOlder, JobMarked, LiveInvites, Holding
<1>14. CASE PauseLogin(h) \/ ConsumeChallenge(h)
  BY <1>5, <1>14 DEF PauseLogin, ConsumeChallenge, histories
<1>15. CASE ListSessions(h)
  <2>1. UNCHANGED <<cred, byAdmin, invites>>
    BY <1>15 DEF ListSessions, histories
  <2>2. pc'[h] \in {"idle", "end"}
    BY <1>0, <1>15 DEF ListSessions, End, Continue
  <2> QED BY <1>1, <2>1, <2>2 DEF Holding
<1>16. ASSUME NEW s \in Sids, EndSession(h, s) PROVE Goal
  <2>1. UNCHANGED <<cred, byAdmin, invites>> /\ pc[h] \in {"end", "evict"}
    BY <1>16 DEF EndSession, histories
  <2>2. CASE pc[h] = "end"
    <3>1. pc'[h] \in {"idle", "end"}
      BY <1>0, <1>16, <2>2 DEF EndSession, End, Continue
    <3> QED BY <1>1, <2>1, <3>1 DEF Holding
  <2>3. CASE pc[h] = "evict"
    <3>1. job'[h].op = t.op /\ job'[h].entity = t.entity /\ pc'[h] \in {"evict", "create"}
      BY <1>16, <2>3, TodoShape DEF EndSession
    <3> QED BY <1>0, <2>1, <2>3, <3>1 DEF Marked, NoneOlder, JobMarked, LiveInvites, Holding
  <2> QED BY <2>1, <2>2, <2>3
<1>17. CASE CommitAccept(h)
  <2>1. /\ pc[h] = "commit" /\ t.op \notin Admin /\ cred' = t.entity /\ byAdmin' = byAdmin /\ t.on \in Invites
        /\ invites' = [invites EXCEPT ![t.on].state = "accepted"] /\ pc'[h] = "list"
    BY <1>17, Working, ContinueShape DEF CommitAccept, Fits, Admin
  <2>2. \A i \in LiveInvites' : i \in LiveInvites /\ invites'[i] = invites[i]
    BY <1>0, <2>1 DEF LiveInvites, InviteRow
  <2> QED BY <1>0, <2>1, <2>2 DEF Marked, NoneOlder, JobMarked, Holding
<1>18. CASE RevokeOutstanding(h)
  <2>1. /\ cred' = cred /\ byAdmin' = byAdmin /\ invites' = Revoke(LiveInvites) /\ pc'[h] = "read"
    BY <1>18, ContinueShape DEF RevokeOutstanding, histories
  <2>2. LiveInvites' = {}
    BY <2>1, RevokeFields DEF LiveInvites, TypesFit
  <2> QED BY <1>0, <2>1, <2>2 DEF Marked, NoneOlder, JobMarked, Holding
<1>19. CASE FindOldInvites(h)
  BY <1>1, <1>19, TodoShape DEF FindOldInvites, stores, histories, Holding
<1>20. ASSUME NEW i \in Invites, InsertInvite(h, i) PROVE Goal
  <2>1. /\ cred' = cred /\ byAdmin' = byAdmin /\ pc'[h] = "mail"
        /\ invites' = [Revoke(t.todo) EXCEPT ![i] = [state |-> "live", under |-> cred.password]]
    BY <1>20, ContinueShape DEF InsertInvite, histories
  <2>2. Revoke(t.todo) \in [Invites -> InviteRow]
        /\ \A j \in Invites : Revoke(t.todo)[j].state = "live" => j \in LiveInvites /\ Revoke(t.todo)[j] = invites[j]
    BY RevokeFields DEF LiveInvites, TypesFit
  <2>3. \A j \in LiveInvites' : \/ invites'[j].under = cred.password
                                \/ j \in LiveInvites /\ invites'[j] = invites[j]
    BY <2>1, <2>2 DEF LiveInvites
  <2> QED BY <1>0, <2>1, <2>3 DEF Marked, NoneOlder, JobMarked, Holding
<1>21. CASE SendMail(h)
  <2>1. /\ cred' = cred /\ byAdmin' = byAdmin /\ pc'[h] = "idle" /\ t.on \in Invites
        /\ invites' \in {invites, [invites EXCEPT ![t.on].state = "revoked"]}
    BY <1>21, Working, EndShape DEF SendMail, histories, Fits
  <2>2. \A i \in LiveInvites' : i \in LiveInvites /\ invites'[i] = invites[i]
    BY <1>0, <2>1 DEF LiveInvites, InviteRow
  <2> QED BY <1>0, <2>1, <2>2 DEF Marked, NoneOlder, JobMarked, Holding
<1> QED BY <1>2, <1>3, <1>4, <1>7, <1>8, <1>9, <1>10, <1>11, <1>12, <1>13, <1>14, <1>15, <1>16, <1>17,
           <1>18, <1>19, <1>20, <1>21 DEF Request, Reading, Writing, Inviting
\* So do time and crashes.
LEMMA OverlapWorld ==
  ASSUME TypesFit, OverlapFit, World \/ UNCHANGED credentialVars PROVE OverlapFit'
<1>1. CASE (\E t \in Tokens : ForgotPassword(t)) \/ UNCHANGED credentialVars
  BY <1>1 DEF ForgotPassword, credentialVars, stores, histories, OverlapFit, Alone, Marked, NoneOlder,
              JobMarked, LiveInvites
<1>2. ASSUME NEW i \in Invites, ExpireInvite(i) PROVE OverlapFit'
  <2>1. \A j \in LiveInvites' : j \in LiveInvites /\ invites'[j] = invites[j]
    BY <1>2 DEF ExpireInvite, LiveInvites, TypesFit, TablesFit, InviteRow
  <2>2. LiveInvites = {} => LiveInvites' = {}
    BY <2>1
  <2> QED BY <1>2, <2>1, <2>2 DEF ExpireInvite, histories, OverlapFit, Alone, Marked, NoneOlder, JobMarked
<1>3. CASE Unlock
  <2>1. cred'.password = cred.password /\ cred'.must = cred.must
    BY <1>3 DEF Unlock, TypesFit, TablesFit, WellFormed, Credential
  <2>2. ASSUME NEW h \in Handlers, pc[h] # "idle"
        PROVE  /\ job'[h].op = job[h].op /\ job'[h].entity.password = job[h].entity.password
               /\ job'[h].entity.must = job[h].entity.must
    <3>1. job[h] \in TaskRecord /\ job[h].entity \in Credential /\ job[h] # NoJob
      BY <2>2, Working DEF TaskRecord, Ops, Setting, SigningIn, Admin, NoJob
    <3>2. job'[h] = [job[h] EXCEPT !.entity.locked = FALSE]
      BY <1>3, <3>1 DEF Unlock
    <3> QED BY <3>1, <3>2 DEF TaskRecord, Credential
  <2>3. pc' = pc /\ noise' = noise /\ byAdmin' = byAdmin /\ invites' = invites /\ LiveInvites' = LiveInvites
    BY <1>3 DEF Unlock, histories, LiveInvites
  <2>4. ASSUME NEW h \in Handlers, JobMarked(h) PROVE JobMarked(h)'
    BY <2>1, <2>2, <2>3, <2>4 DEF JobMarked, Marked, Holding
  <2> QED BY <2>1, <2>3, <2>4 DEF OverlapFit, Alone, Marked, NoneOlder
<1>4. CASE Crash
  BY <1>4 DEF Crash, stores, histories, OverlapFit, Alone, Marked, NoneOlder, JobMarked, LiveInvites, Holding
<1> QED BY <1>1, <1>2, <1>3, <1>4 DEF World

\* Every step keeps them apart.
LEMMA OverlapStep ==
  ASSUME TypesFit, OverlapFit, [CredentialNext]_credentialVars PROVE OverlapFit'
BY OverlapRequest, OverlapWorld, NextCases

\* At the start there are no invitations.
LEMMA OverlapStart == CredentialInit => SendsFit /\ OverlapFit
<1> SUFFICES ASSUME CredentialInit PROVE SendsFit /\ OverlapFit
  OBVIOUS
<1>1. LiveInvites = {} /\ byAdmin = {} /\ \A h \in Handlers : pc[h] = "idle"
  BY DEF CredentialInit, LiveInvites, NoInvite
<1>2. cred.must <=> cred.password = 0
  BY FirstRow
<1> QED BY <1>1, <1>2 DEF SendsFit, OverlapFit, Sending, Alone, Marked, NoneOlder, JobMarked, Holding

-----------------------------------------------------------------------------
(* No crash, and one request at a time: links and challenges *)

TokenOnce(t) ==
  /\ t \in resets => uses[t] = 0 /\ challenges[t] = NoChallenge
  /\ challenges[t].state = "open" => uses[t] = 0
  /\ uses[t] <= 1

LinkHeld(h) ==
  /\ pc[h] = "takeToken" => job[h].on \in resets
  /\ pc[h] # "idle" /\ job[h].op = "complete" =>
       challenges[job[h].on].state = "open" /\ job[h].guess = challenges[job[h].on].proved

\* What a request was sent is still good for one use.
LinksFit == noise = {} => (\A t \in Tokens : TokenOnce(t)) /\ \A h \in Handlers : LinkHeld(h)

\* In quiet the request that moves is the only one.
LEMMA QuietSolo ==
  ASSUME TypesFit, OverlapFit, NEW h \in Handlers, Request(h), noise' = {}
  PROVE  /\ noise = {}
         /\ \A g \in Handlers \ {h} : pc[g] = "idle" /\ pc'[g] = "idle" /\ job[g] = NoJob /\ job'[g] = NoJob
BY AtWork, Solo

\* A request begins with a link that is still good.
LEMMA StartLinks ==
  ASSUME TypesFit, NEW h \in Handlers, Starting(h), LinksFit, noise = {} PROVE LinkHeld(h)'
<1> DEFINE Goal == LinkHeld(h)'
<1>0. UNCHANGED <<resets, challenges>>
  BY StartShape DEF stores
<1>1. ASSUME NEW op, NEW on, NEW guess, NEW label, op # "complete", label # "takeToken",
             Begin(h, Task(op, on, guess), label)
      PROVE  Goal
  <2>1. Task(op, on, guess).op = op
    BY DEF Task
  <2> QED BY <1>1, <2>1, BeginShape DEF LinkHeld
<1>2. ASSUME NEW t \in Tokens, StartReset(h, t) PROVE Goal
  <2>1. Task("reset", t, 0).op = "reset" /\ Task("reset", t, 0).on = t
    BY DEF Task
  <2> QED BY <1>0, <1>2, <2>1, BeginShape DEF StartReset, LinkHeld
<1>3. ASSUME NEW t \in Tokens, NEW S \in SUBSET OpenSids, StartComplete(h, t, S) PROVE Goal
  <2> DEFINE k == Task("complete", t, challenges[t].proved)
             j == [k EXCEPT !.todo = S]
  <2>1. Begin(h, j, "read") /\ challenges[t].state = "open"
    BY <1>3 DEF StartComplete
  <2>2. j.on = t /\ j.guess = challenges[t].proved
    BY DEF Task
  <2> HIDE DEF j
  <2> QED BY <1>0, <2>1, <2>2, BeginShape DEF LinkHeld
<1>4. ASSUME NEW guess, StartLogin(h, guess) \/ StartGoogle(h) \/ \E s \in Sids : StartChange(h, s, guess)
      PROVE  Goal
  BY <1>1, <1>4 DEF StartLogin, StartGoogle, StartChange
<1>5. ASSUME NEW a, NEW b, StartAdmin(h, "adminSet") \/ StartAdmin(h, "adminReset") \/ StartSend(h, a, b)
      PROVE  Goal
  BY <1>1, <1>5 DEF StartAdmin, AdminFirst, StartSend
<1> QED BY <1>2, <1>3, <1>4, <1>5 DEF Starting

\* A request at work keeps its operation, and what it was sent.
LEMMA JobKept ==
  ASSUME TypesFit, NEW h \in Handlers, Request(h), pc[h] # "idle"
  PROVE  /\ pc'[h] # "takeToken"
         /\ pc'[h] = "idle" \/ job'[h].op \in {job[h].op, "failed"}
         /\ pc'[h] # "idle" /\ job'[h].op = job[h].op /\ job[h].op # "send" =>
              job'[h].on = job[h].on /\ job'[h].guess = job[h].guess
<1> DEFINE t == job[h]
           Goal == /\ pc'[h] # "takeToken"
                   /\ pc'[h] = "idle" \/ job'[h].op \in {t.op, "failed"}
                   /\ pc'[h] # "idle" /\ job'[h].op = t.op /\ t.op # "send" =>
                        job'[h].on = t.on /\ job'[h].guess = t.guess
<1>1. ASSUME NEW label, label # "takeToken", Continue(h, t, label) PROVE Goal
  BY <1>1, ContinueShape
<1>2. CASE End(h)
  BY <1>2, EndShape
<1>3. ASSUME NEW label, NEW c, label # "takeToken", Proceed(h, c, label) PROVE Goal
  BY <1>3, ProceedShape
<1>4. ASSUME NEW label, NEW S, label # "takeToken", Continue(h, [t EXCEPT !.todo = S], label) PROVE Goal
  BY <1>4, TodoShape
<1>5. CASE DeleteToken(h) \/ MailFails(h)
  BY <1>1, <1>2, <1>5 DEF DeleteToken, MailFails
<1>6. CASE ReadLogin(h)
  <2>1. CASE Continue(h, [t EXCEPT !.op = "failed", !.entity = CountFailure(cred)], "save")
    BY <1>6, <2>1, FailedShape DEF ReadLogin
  <2> QED BY <1>2, <1>3, <1>6, <2>1 DEF ReadLogin
<1>7. CASE Reading(h)
  BY <1>2, <1>3, <1>7 DEF Reading, ReadGoogle, ReadComplete, ReadChange, ReadReset, ReadAdmin
<1>8. CASE Save(h) \/ CreateSession(h) \/ PauseLogin(h) \/ SaveLastLogin(h) \/ ConsumeChallenge(h) \/ CommitAccept(h)
  BY <1>1, <1>2, <1>8 DEF Save, AfterSave, CreateSession, PauseLogin, SaveLastLogin, ConsumeChallenge,
                          CommitAccept
<1>9. CASE ListSessions(h) \/ \E s \in Sids : EndSession(h, s)
  BY <1>2, <1>4, <1>9 DEF ListSessions, EndSession
<1>10. CASE RevokeOutstanding(h) \/ FindOldInvites(h) \/ SendMail(h)
  BY <1>1, <1>2, <1>4, <1>10 DEF RevokeOutstanding, FindOldInvites, SendMail
<1>11. ASSUME NEW i \in Invites, InsertInvite(h, i) PROVE Goal
  <2> DEFINE j == [t EXCEPT !.on = i]
  <2>1. t.op = "send" /\ t \in TaskRecord
    BY <1>11, Working DEF InsertInvite, Fits
  <2>2. pc'[h] = "mail" /\ job'[h] = j
    BY <1>11, ContinueShape DEF InsertInvite
  <2> HIDE DEF t
  <2>3. j.op = t.op
    BY <2>1 DEF TaskRecord
  <2> QED BY <2>1, <2>2, <2>3 DEF t
<1>12. ~Starting(h) /\ \A i \in Invites : ~StartAccept(h, i)
  BY StartShape, AcceptShape
<1> QED BY <1>5, <1>6, <1>7, <1>8, <1>9, <1>10, <1>11, <1>12 DEF Request, Writing, Inviting

\* A request spends its own link, once.
LEMMA LinksRequest ==
  ASSUME TypesFit, OverlapFit, LinksFit, NEW h \in Handlers, Request(h) PROVE LinksFit'
<1> DEFINE Tables == \A t \in Tokens : TokenOnce(t)'
           k == job[h]
<1> SUFFICES ASSUME noise' = {} PROVE Tables /\ LinkHeld(h)'
  <2>1. \A g \in Handlers \ {h} : noise' = {} => LinkHeld(g)'
    BY QuietSolo DEF LinkHeld, NoJob
  <2> QED BY <2>1 DEF LinksFit
<1>0. /\ noise = {} /\ (\A t \in Tokens : TokenOnce(t)) /\ LinkHeld(h)
      /\ challenges \in [Tokens -> Challenge] /\ uses \in [Invites \cup Tokens -> Nat]
  BY QuietSolo DEF LinksFit, TypesFit, TablesFit
<1>1. ASSUME UNCHANGED <<resets, challenges>>, \A t \in Tokens : uses'[t] = uses[t] PROVE Tables
  BY <1>0, <1>1 DEF TokenOnce
<1>2. ASSUME UNCHANGED <<resets, challenges>>, pc[h] # "idle" PROVE LinkHeld(h)'
  <2>1. pc'[h] # "idle" /\ job'[h].op = "complete" => k.op = "complete" /\ job'[h].op = k.op
    BY <1>2, JobKept
  <2> QED BY <1>0, <1>2, <2>1, JobKept DEF LinkHeld
<1>3. CASE Starting(h)
  BY <1>0, <1>1, <1>3, StartLinks, StartShape DEF stores, histories
<1>4. ASSUME NEW i \in Invites, StartAccept(h, i) PROVE Tables /\ LinkHeld(h)'
  BY <1>1, <1>4, AcceptShape DEF LinkHeld, histories
<1>5. CASE DeleteToken(h)
  <2>1. /\ k.op = "reset" /\ k.on \in resets /\ k.on \in Tokens /\ pc'[h] = "read" /\ job'[h] = k
        /\ resets' = resets \ {k.on} /\ challenges' = challenges /\ uses' = [uses EXCEPT ![k.on] = @ + 1]
    BY <1>0, <1>5, Working, ContinueShape DEF DeleteToken, Fits, LinkHeld
  <2>2. uses'[k.on] = 1 /\ challenges[k.on] = NoChallenge /\ \A t \in Tokens \ {k.on} : uses'[t] = uses[t]
    BY <1>0, <2>1 DEF TokenOnce
  <2>3. Tables
    BY <1>0, <2>1, <2>2 DEF TokenOnce, NoChallenge
  <2> QED BY <2>1, <2>3 DEF LinkHeld
<1>6. CASE ReadLogin(h) \/ Reading(h) \/ MailFails(h)
  <2>1. UNCHANGED <<resets, challenges, uses>> /\ pc[h] # "idle"
    BY <1>6 DEF ReadLogin, Reading, ReadGoogle, ReadComplete, ReadChange, ReadReset, ReadAdmin, MailFails,
                stores, histories
  <2> QED BY <1>1, <1>2, <2>1
<1>7. CASE Save(h) \/ CreateSession(h) \/ SaveLastLogin(h) \/ ListSessions(h) \/ \E s \in Sids : EndSession(h, s)
  <2>1. UNCHANGED <<resets, challenges, uses>> /\ pc[h] # "idle"
    BY <1>7 DEF Save, CreateSession, SaveLastLogin, ListSessions, EndSession, histories
  <2> QED BY <1>1, <1>2, <2>1
<1>8. CASE PauseLogin(h)
  <2>1. pc'[h] = "idle" /\ resets' = resets /\ uses' = uses
    BY <1>8, EndShape DEF PauseLogin, histories
  <2>2. CASE UNCHANGED challenges
    BY <1>1, <2>1, <2>2 DEF LinkHeld
  <2>3. ASSUME NEW u \in Tokens, NEW row, challenges[u] = NoChallenge, u \notin resets, uses[u] = 0,
               challenges' = [challenges EXCEPT ![u] = row]
        PROVE  Tables
    BY <1>0, <2>1, <2>3 DEF TokenOnce
  <2> QED BY <1>8, <2>1, <2>2, <2>3 DEF PauseLogin, LinkHeld
<1>9. CASE ConsumeChallenge(h)
  <2>1. /\ k.op = "complete" /\ k.on \in Tokens /\ pc'[h] = "idle" /\ resets' = resets
        /\ challenges' = [challenges EXCEPT ![k.on].state = "used"] /\ uses' = [uses EXCEPT ![k.on] = @ + 1]
        /\ challenges[k.on].state = "open"
    BY <1>0, <1>9, Working, EndShape DEF ConsumeChallenge, Fits, LinkHeld
  <2>2. /\ uses'[k.on] = 1 /\ k.on \notin resets /\ challenges'[k.on].state = "used"
        /\ \A t \in Tokens \ {k.on} : uses'[t] = uses[t] /\ challenges'[t] = challenges[t]
    BY <1>0, <2>1 DEF TokenOnce, NoChallenge, Challenge
  <2>3. Tables
    BY <1>0, <2>1, <2>2 DEF TokenOnce
  <2> QED BY <2>1, <2>3 DEF LinkHeld
<1>10. CASE CommitAccept(h)
  <2>1. k.on \in Invites /\ pc[h] # "idle" /\ UNCHANGED <<resets, challenges>>
        /\ uses' = [uses EXCEPT ![k.on] = @ + 1]
    BY <1>10, Working DEF CommitAccept, Fits
  <2>2. \A t \in Tokens : uses'[t] = uses[t]
    BY <1>0, <2>1, CredentialAssumption
  <2> QED BY <1>1, <1>2, <2>1, <2>2
<1>11. CASE Inviting(h)
  <2>1. UNCHANGED <<resets, challenges, uses>> /\ pc[h] # "idle"
    BY <1>11 DEF Inviting, RevokeOutstanding, FindOldInvites, InsertInvite, SendMail, stores, histories
  <2> QED BY <1>1, <1>2, <2>1
<1> QED BY <1>3, <1>4, <1>5, <1>6, <1>7, <1>8, <1>9, <1>10, <1>11 DEF Request, Writing

\* Time and crashes spend none.
LEMMA LinksWorld ==
  ASSUME TypesFit, LinksFit, World \/ UNCHANGED credentialVars PROVE LinksFit'
<1>1. ASSUME NEW t \in Tokens, ForgotPassword(t) PROVE LinksFit'
  BY <1>1 DEF ForgotPassword, histories, LinksFit, TokenOnce, LinkHeld, NoChallenge
<1>2. CASE (\E i \in Invites : ExpireInvite(i)) \/ UNCHANGED credentialVars
  BY <1>2 DEF ExpireInvite, credentialVars, stores, histories, LinksFit, TokenOnce, LinkHeld
<1>3. CASE Unlock
  <2>1. ASSUME NEW h \in Handlers, pc[h] # "idle"
        PROVE  job'[h].op = job[h].op /\ job'[h].on = job[h].on /\ job'[h].guess = job[h].guess
    <3>1. job[h] \in TaskRecord /\ job[h] # NoJob
      BY <2>1, Working DEF TaskRecord, Ops, Setting, SigningIn, Admin, NoJob
    <3>2. job'[h] = [job[h] EXCEPT !.entity.locked = FALSE]
      BY <1>3, <3>1 DEF Unlock
    <3> QED BY <3>1, <3>2 DEF TaskRecord
  <2>2. UNCHANGED <<pc, noise, resets, challenges, uses>>
    BY <1>3 DEF Unlock, histories
  <2>3. ASSUME NEW h \in Handlers, LinkHeld(h) PROVE LinkHeld(h)'
    BY <2>1, <2>2, <2>3 DEF LinkHeld
  <2> QED BY <2>2, <2>3 DEF LinksFit, TokenOnce
<1>4. CASE Crash
  BY <1>4 DEF Crash, LinksFit
<1> QED BY <1>1, <1>2, <1>3, <1>4 DEF World

\* Until requests overlap, or send at once, or crash, links behave.
LinksInv == TypesFit /\ SendsFit /\ OverlapFit /\ LinksFit

\* At the start no link is out.
LEMMA LinksStart == CredentialInit => LinksInv
<1>1. CredentialInit => LinksFit
  BY CredentialAssumption DEF CredentialInit, LinksFit, TokenOnce, LinkHeld, NoChallenge
<1> QED BY <1>1, TypesStart, OverlapStart DEF LinksInv

\* Every step keeps the links current.
LEMMA LinksStep == LinksInv /\ [CredentialNext]_credentialVars => LinksInv'
BY NextCases, TypesStep, SendsStep, OverlapStep, LinksRequest, LinksWorld DEF LinksInv

\* What the runs check of the links follows.
LEMMA LinksImply == LinksInv => LinksAreCurrent
<1> SUFFICES ASSUME LinksInv PROVE LinksAreCurrent
  OBVIOUS
<1>1. ASSUME "sends" \notin noise PROVE Cardinality(LiveInvites) <= 1
  <2>1. \A i, j \in LiveInvites : i = j
    BY <1>1 DEF LinksInv, SendsFit
  <2>2. LiveInvites = {} \/ \E i \in Invites : LiveInvites = {i}
    BY <2>1 DEF LiveInvites
  <2> QED BY <2>2, FS_EmptySet, FS_Singleton
<1>2. NoInviteOlderThanAdminPassword
  BY DEF NoInviteOlderThanAdminPassword, LinksInv, OverlapFit, NoneOlder
<1>3. SingleUse
  BY DEF SingleUse, LinksInv, LinksFit, TokenOnce
<1> QED BY <1>1, <1>2, <1>3 DEF LinksAreCurrent, OneLiveInvite

\* The latest invitation alone works unless two sends overlap, none outlives an
\* administrator's password unless requests overlap, and challenges and reset
\* links work once in quiet (createInviteRow, setLoginPassword, device-limit
\* challenges, forgotPassword).
THEOREM LinksStayCurrent == CredentialSpec => []LinksAreCurrent
BY LinksStart, LinksStep, LinksImply, PTL DEF CredentialSpec
-----------------------------------------------------------------------------
(* No crash, and one request at a time: the password in force *)

\* A challenge that is not superseded was proved with the password in force.
ProvedFit(t) ==
  challenges[t].state = "open" /\ cred.password <= challenges[t].at => challenges[t].proved = cred.password

\* What the request works on is the password in force, or a later one.
PasswordHeld(h) ==
  /\ pc[h] \in {"create", "evict"} => Proved(job[h]) = cred.password
  /\ pc[h] \in {"create", "evict", "last", "list"} => job[h].entity.password = cred.password
  /\ pc[h] = "save" /\ job[h].op \notin Setting => job[h].entity.password = cred.password
  /\ pc[h] = "commit" \/ (pc[h] = "save" /\ job[h].op \in Setting) =>
       /\ cred.password < job[h].entity.password
       /\ \A t \in Tokens : challenges[t].at < job[h].entity.password
  /\ pc[h] = "end" => \A s \in OpenSids : s \in job[h].todo \/ sessions[s] = cred.password

SessionsKnow == \A s \in OpenSids : sessions[s] = cred.password

Revoking(h) == pc[h] \in {"list", "end"}

PasswordsFit ==
  noise = {} => /\ \A t \in Tokens : ProvedFit(t)
                /\ \A h \in Handlers : PasswordHeld(h)
                /\ (\A h \in Handlers : ~Revoking(h)) => SessionsKnow

\* A request keeps the sessions, the challenges and the password together.
LEMMA PasswordsRequest ==
  ASSUME TypesFit, OverlapFit, LinksFit, PasswordsFit, NEW h \in Handlers, Request(h) PROVE PasswordsFit'
<1> DEFINE Goal == /\ \A t \in Tokens : ProvedFit(t)'
                   /\ PasswordHeld(h)'
                   /\ pc'[h] \notin {"list", "end"} => SessionsKnow'
           k == job[h]
<1> SUFFICES ASSUME noise' = {} PROVE Goal
  <2>1. noise' = {} => \A g \in Handlers \ {h} : PasswordHeld(g)'
    BY QuietSolo DEF PasswordHeld
  <2> QED BY <2>1 DEF PasswordsFit, Revoking
<1>0. /\ \A t \in Tokens : ProvedFit(t)
      /\ PasswordHeld(h) /\ LinkHeld(h)
      /\ pc[h] \notin {"list", "end"} => SessionsKnow
      /\ pc \in [Handlers -> Labels] /\ job = [g \in Handlers |-> job[g]]
      /\ challenges \in [Tokens -> Challenge] /\ sessions \in [Sids -> Passwords \cup {None, Ended}]
      /\ cred.password \in Nat /\ cred.password <= chosen /\ chosen \in Nat
      /\ \A t \in Tokens : challenges[t].at <= chosen /\ challenges[t].at \in Nat
  <2>1. noise = {} /\ \A g \in Handlers \ {h} : pc[g] = "idle"
    BY QuietSolo
  <2>2. cred.password \in Nat /\ cred.password <= chosen /\ chosen \in Nat
    BY ReadFields, CredentialAssumption DEF TypesFit, TablesFit, Passwords
  <2> QED BY <2>1, <2>2 DEF PasswordsFit, LinksFit, Revoking, TypesFit, JobsFit, TablesFit, Challenge, Passwords
<1>1. ASSUME UNCHANGED <<cred, challenges, sessions>>, pc[h] \notin {"list", "end"}, PasswordHeld(h)' PROVE Goal
  BY <1>0, <1>1 DEF ProvedFit, SessionsKnow, OpenSids, Open
<1>2. ASSUME UNCHANGED <<cred, challenges, sessions>>, pc[h] \notin {"list", "end"},
             pc'[h] \notin Holding \cup {"list", "end"}
      PROVE  Goal
  BY <1>1, <1>2 DEF PasswordHeld, Holding
<1>3. CASE Starting(h)
  BY <1>2, <1>3, StartShape DEF Holding, stores
<1>4. ASSUME UNCHANGED <<cred, challenges, sessions>>, pc[h] \in {"idle", "read"}, Choose,
             pc'[h] = "commit" \/ (pc'[h] = "save" /\ job'[h].op \in Setting),
             job'[h].entity.password = chosen + 1
      PROVE  Goal
  BY <1>0, <1>1, <1>4 DEF PasswordHeld
<1>5. ASSUME NEW i \in Invites, StartAccept(h, i) PROVE Goal
  BY <1>4, <1>5, AcceptShape, NewPassword
<1>6. CASE DeleteToken(h)
  BY <1>2, <1>6, ContinueShape DEF DeleteToken, Holding
<1>7. CASE End(h) /\ UNCHANGED <<cred, challenges, sessions>> /\ pc[h] \notin {"list", "end"}
  BY <1>2, <1>7, EndShape DEF Holding
<1>8. ASSUME UNCHANGED <<cred, challenges, sessions>>, pc[h] = "read", pc'[h] = "save",
             job'[h].op \notin Setting, job'[h].entity.password = cred.password
      PROVE  Goal
  BY <1>1, <1>8 DEF PasswordHeld
<1>9. CASE ReadLogin(h)
  <2>1. pc[h] = "read" /\ k.op = "login" /\ UNCHANGED <<cred, challenges, sessions>>
    BY <1>9 DEF ReadLogin, stores
  <2>2. CASE Proceed(h, [cred EXCEPT !.failed = 0, !.locked = FALSE], "save")
    <3> DEFINE c == [cred EXCEPT !.failed = 0, !.locked = FALSE]
    <3>1. c.password = cred.password /\ "login" \notin Setting
      BY ReadFields DEF Setting, Admin
    <3>2. pc'[h] = "save" /\ job'[h].op = "login" /\ job'[h].entity = c
      BY <2>1, <2>2, ProceedShape
    <3> QED BY <1>8, <2>1, <3>1, <3>2
  <2>3. CASE Continue(h, [job[h] EXCEPT !.op = "failed", !.entity = CountFailure(cred)], "save")
    BY <1>8, <2>1, <2>3, FailedShape, ReadFields DEF Setting, Admin
  <2> QED BY <1>7, <1>9, <2>1, <2>2, <2>3 DEF ReadLogin
<1>10. CASE ReadGoogle(h)
  <2>1. pc[h] = "read" /\ k.op = "google" /\ UNCHANGED <<cred, challenges, sessions>>
        /\ Proceed(h, [cred EXCEPT !.google = TRUE], "save")
    BY <1>10 DEF ReadGoogle, stores
  <2>2. [cred EXCEPT !.google = TRUE].password = cred.password /\ "google" \notin Setting
    BY ReadFields DEF Setting, Admin
  <2>3. /\ pc'[h] = "save" /\ job'[h].op = "google" /\ job'[h].entity = [cred EXCEPT !.google = TRUE]
    BY <2>1, ProceedShape
  <2> QED BY <1>8, <2>1, <2>2, <2>3
<1>11. CASE ReadComplete(h)
  <2>1. pc[h] = "read" /\ k.op = "complete" /\ k.on \in Tokens /\ UNCHANGED <<cred, challenges, sessions>>
    BY <1>11, Working DEF ReadComplete, stores, Fits
  <2>2. ASSUME NEW label \in {"create", "evict"}, ~SupersededBy(challenges[k.on].at, cred.password),
               Proceed(h, cred, label)
        PROVE  Goal
    <3>1. job'[h].op = "complete" /\ job'[h].guess = k.guess /\ job'[h].entity = cred /\ pc'[h] = label
      BY <2>1, <2>2, ProceedShape
    <3>2. k.guess = challenges[k.on].proved /\ challenges[k.on].state = "open"
      BY <1>0, <2>1 DEF LinkHeld
    <3>3. k.guess = cred.password
      BY <1>0, <2>1, <2>2, <3>2 DEF ProvedFit, SupersededBy
    <3> QED BY <1>1, <2>1, <3>1, <3>3 DEF PasswordHeld, Proved
  <2> QED BY <1>7, <1>11, <2>1, <2>2 DEF ReadComplete
<1>12. CASE ReadChange(h) \/ ReadReset(h) \/ ReadAdmin(h)
  <2>1. pc[h] = "read" /\ k.op \in Setting /\ UNCHANGED <<cred, challenges, sessions>>
    BY <1>12 DEF ReadChange, ReadReset, ReadAdmin, Setting, Admin
  <2>2. ASSUME Choose, Proceed(h, Own(cred, chosen + 1), "save") \/ Proceed(h, Imposed(cred, chosen + 1), "save")
        PROVE  Goal
    BY <1>4, <2>1, <2>2, ProceedShape, NewPassword
  <2> QED BY <1>7, <1>12, <2>1, <2>2 DEF ReadChange, ReadReset, ReadAdmin
<1>13. CASE MailFails(h)
  BY <1>7, <1>13 DEF MailFails, stores
<1>14. CASE Save(h)
  <2>1. /\ pc[h] = "save" /\ cred' = k.entity /\ UNCHANGED <<challenges, sessions>>
        /\ k.op \in Setting \cup {"login", "google", "failed"} /\ k.entity.password \in Nat
    BY <1>14, Working DEF Save, Fits
  <2>2. CASE k.op \in Setting
    <3>1. pc'[h] = "list" /\ job'[h] = k
      BY <1>14, <2>2, ContinueShape DEF Save, AfterSave, Setting, Admin
    <3> QED BY <1>0, <2>1, <2>2, <3>1 DEF PasswordHeld, ProvedFit
  <2>3. CASE k.op \notin Setting
    <3>1. cred'.password = cred.password
      BY <1>0, <2>1, <2>3 DEF PasswordHeld
    <3>2. (\A t \in Tokens : ProvedFit(t)') /\ SessionsKnow'
      BY <1>0, <2>1, <3>1 DEF ProvedFit, SessionsKnow, OpenSids, Open
    <3>3. \/ pc'[h] = "idle"
          \/ pc'[h] = "create" /\ job'[h] = k /\ k.op # "complete"
      BY <1>14, <2>1, <2>3, ContinueShape, EndShape DEF Save, AfterSave
    <3> QED BY <2>1, <3>1, <3>2, <3>3 DEF PasswordHeld, Proved
  <2> QED BY <2>2, <2>3
<1>15. CASE CreateSession(h)
  <2>1. /\ pc[h] = "create" /\ UNCHANGED <<cred, challenges>> /\ pc'[h] = "last" /\ job'[h] = k
    BY <1>15, ContinueShape DEF CreateSession
  <2>2. PICK s \in Sids : sessions' = [sessions EXCEPT ![s] = Proved(k)]
    BY <1>15 DEF CreateSession
  <2>3. SessionsKnow'
    BY <1>0, <2>1, <2>2 DEF SessionsKnow, OpenSids, Open, PasswordHeld
  <2> QED BY <1>0, <2>1, <2>3 DEF PasswordHeld, ProvedFit
<1>16. CASE PauseLogin(h)
  <2>1. pc[h] = "create" /\ pc'[h] = "idle" /\ UNCHANGED <<cred, sessions>> /\ SessionsKnow'
    <3>1. pc[h] = "create" /\ pc'[h] = "idle" /\ UNCHANGED <<cred, sessions>>
      BY <1>16, EndShape DEF PauseLogin
    <3> QED BY <1>0, <3>1 DEF SessionsKnow, OpenSids, Open
  <2>2. CASE UNCHANGED challenges
    BY <1>2, <2>1, <2>2 DEF Holding
  <2>3. ASSUME NEW u \in Tokens,
               challenges' = [challenges EXCEPT ![u] = [state |-> "open", at |-> chosen, proved |-> Proved(k)]]
        PROVE  Goal
    <3>1. \A t \in Tokens : ProvedFit(t)'
      BY <1>0, <2>1, <2>3 DEF ProvedFit, PasswordHeld
    <3> QED BY <2>1, <3>1 DEF PasswordHeld
  <2> QED BY <1>16, <2>2, <2>3 DEF PauseLogin
<1>17. CASE SaveLastLogin(h)
  <2>1. /\ pc[h] = "last" /\ cred' = k.entity /\ UNCHANGED <<challenges, sessions>> /\ pc'[h] \in {"idle", "consume"}
    BY <1>17, ContinueShape, EndShape DEF SaveLastLogin
  <2>2. cred'.password = cred.password
    BY <1>0, <2>1 DEF PasswordHeld
  <2>3. (\A t \in Tokens : ProvedFit(t)') /\ SessionsKnow'
    BY <1>0, <2>1, <2>2 DEF ProvedFit, SessionsKnow, OpenSids, Open
  <2> QED BY <2>1, <2>3 DEF PasswordHeld
<1>18. CASE ConsumeChallenge(h)
  <2>1. /\ pc[h] = "consume" /\ UNCHANGED <<cred, sessions>> /\ pc'[h] = "idle" /\ k.on \in Tokens
        /\ challenges' = [challenges EXCEPT ![k.on].state = "used"]
    BY <1>18, Working, EndShape DEF ConsumeChallenge, Fits
  <2>2. \A t \in Tokens : challenges'[t].state = "open" => challenges'[t] = challenges[t]
    BY <1>0, <2>1 DEF Challenge
  <2>3. (\A t \in Tokens : ProvedFit(t)') /\ SessionsKnow'
    BY <1>0, <2>1, <2>2 DEF ProvedFit, SessionsKnow, OpenSids, Open
  <2> QED BY <2>1, <2>3 DEF PasswordHeld
<1>19. CASE CommitAccept(h)
  <2>1. /\ pc[h] = "commit" /\ cred' = k.entity /\ UNCHANGED <<challenges, sessions>>
        /\ pc'[h] = "list" /\ job'[h] = k /\ k.entity.password \in Nat
    BY <1>19, Working, ContinueShape DEF CommitAccept
  <2> QED BY <1>0, <2>1 DEF PasswordHeld, ProvedFit
<1>20. CASE ListSessions(h)
  <2> DEFINE others == OpenSids \ Spared(k)
  <2>1. /\ pc[h] = "list" /\ UNCHANGED <<cred, challenges>> /\ k.entity.password = cred.password
        /\ sessions' = [s \in Sids |-> IF s \in Spared(k) /\ Open(s) THEN k.entity.password ELSE sessions[s]]
    BY <1>0, <1>20 DEF ListSessions, PasswordHeld
  <2>2. \A s \in OpenSids' : s \in others \/ sessions'[s] = cred'.password
    BY <1>0, <2>1 DEF OpenSids, Open
  <2>3. CASE others = {} /\ End(h)
    BY <1>0, <2>1, <2>2, <2>3, EndShape DEF PasswordHeld, SessionsKnow, ProvedFit
  <2>4. CASE Continue(h, [job[h] EXCEPT !.todo = others], "end")
    <3>1. pc'[h] = "end" /\ job'[h].todo = others
      BY <2>1, <2>4, TodoShape
    <3> QED BY <1>0, <2>1, <2>2, <3>1 DEF PasswordHeld, ProvedFit
  <2> QED BY <1>20, <2>3, <2>4 DEF ListSessions
<1>21. ASSUME NEW s \in Sids, EndSession(h, s) PROVE Goal
  <2> DEFINE rest == k.todo \ {s}
  <2>1. /\ UNCHANGED <<cred, challenges>> /\ pc[h] \in {"end", "evict"}
        /\ sessions' = [sessions EXCEPT ![s] = IF Open(s) THEN Ended ELSE @]
    BY <1>21 DEF EndSession
  <2>2. \A r \in OpenSids' : r # s /\ r \in OpenSids /\ sessions'[r] = sessions[r]
    BY <1>0, <2>1 DEF OpenSids, Open, Ended
  <2>3. CASE pc[h] = "end"
    <3>1. \A r \in OpenSids' : r \in rest \/ sessions'[r] = cred'.password
      BY <1>0, <2>1, <2>2, <2>3 DEF PasswordHeld
    <3>2. CASE rest # {} /\ Continue(h, [job[h] EXCEPT !.todo = rest], "end")
      <4>1. pc'[h] = "end" /\ job'[h].todo = rest
        BY <2>3, <3>2, TodoShape
      <4> QED BY <1>0, <2>1, <3>1, <4>1 DEF PasswordHeld, ProvedFit
    <3>3. CASE rest = {} /\ End(h)
      BY <1>0, <2>1, <3>1, <3>3, EndShape DEF PasswordHeld, SessionsKnow, ProvedFit
    <3> QED BY <1>21, <2>3, <3>2, <3>3 DEF EndSession
  <2>4. CASE pc[h] = "evict"
    <3>1. /\ pc'[h] \in {"evict", "create"} /\ job'[h].op = k.op /\ job'[h].guess = k.guess
          /\ job'[h].entity = k.entity
      BY <1>21, <2>4, TodoShape DEF EndSession
    <3>2. SessionsKnow'
      BY <1>0, <2>1, <2>2, <2>4 DEF SessionsKnow
    <3>3. PasswordHeld(h)'
      BY <1>0, <2>1, <2>4, <3>1 DEF PasswordHeld, Proved
    <3> QED BY <1>0, <2>1, <3>2, <3>3 DEF ProvedFit
  <2> QED BY <2>1, <2>3, <2>4
<1>22. CASE RevokeOutstanding(h)
  BY <1>2, <1>22, ContinueShape DEF RevokeOutstanding, Holding
<1>23. CASE FindOldInvites(h)
  BY <1>2, <1>23, TodoShape DEF FindOldInvites, Holding, stores
<1>24. ASSUME NEW i \in Invites, InsertInvite(h, i) PROVE Goal
  BY <1>2, <1>24, ContinueShape DEF InsertInvite, Holding
<1>25. CASE SendMail(h)
  BY <1>7, <1>25 DEF SendMail
<1> QED BY <1>3, <1>5, <1>6, <1>9, <1>10, <1>11, <1>12, <1>13, <1>14, <1>15, <1>16, <1>17, <1>18, <1>19,
           <1>20, <1>21, <1>22, <1>23, <1>24, <1>25 DEF Request, Reading, Writing, Inviting

\* A lock that passes changes nothing else of the credential, or of what a
\* request holds.
LEMMA UnlockShape ==
  ASSUME TypesFit, Unlock
  PROVE  /\ pc' = pc /\ noise' = noise /\ UNCHANGED <<sessions, challenges, chosen, wrong>>
         /\ cred'.password = cred.password /\ cred'.failed = cred.failed /\ cred.locked
         /\ \A h \in Handlers : pc[h] # "idle" =>
              /\ job'[h].op = job[h].op /\ job'[h].guess = job[h].guess /\ job'[h].todo = job[h].todo
              /\ job'[h].entity.password = job[h].entity.password
              /\ job'[h].entity.failed = job[h].entity.failed
<1>1. ASSUME NEW h \in Handlers, pc[h] # "idle"
      PROVE  /\ job'[h].op = job[h].op /\ job'[h].guess = job[h].guess /\ job'[h].todo = job[h].todo
             /\ job'[h].entity.password = job[h].entity.password
             /\ job'[h].entity.failed = job[h].entity.failed
  <2>1. job[h] \in TaskRecord /\ job[h].entity \in Credential /\ job[h] # NoJob
    BY <1>1, Working DEF TaskRecord, Ops, Setting, SigningIn, Admin, NoJob
  <2>2. job'[h] = [job[h] EXCEPT !.entity.locked = FALSE]
    BY <2>1 DEF Unlock
  <2> QED BY <2>1, <2>2 DEF TaskRecord, Credential
<1>2. cred \in Credential
  BY ReadFields
<1> QED BY <1>1, <1>2 DEF Unlock, histories, Credential

\* Time and crashes change no password, challenge or session.
LEMMA PasswordsWorld ==
  ASSUME TypesFit, PasswordsFit, World \/ UNCHANGED credentialVars PROVE PasswordsFit'
<1> USE DEF PasswordsFit, ProvedFit, PasswordHeld, SessionsKnow, Revoking, OpenSids, Open, Proved
<1>1. CASE (\E t \in Tokens : ForgotPassword(t)) \/ (\E i \in Invites : ExpireInvite(i)) \/ UNCHANGED credentialVars
  BY <1>1 DEF ForgotPassword, ExpireInvite, credentialVars, stores, histories
<1>2. CASE Unlock
  BY <1>2, UnlockShape
<1>3. CASE Crash
  BY <1>3 DEF Crash
<1> QED BY <1>1, <1>2, <1>3 DEF World

PasswordInv == TypesFit /\ OverlapFit /\ LinksFit /\ PasswordsFit

\* At the start nobody is signed in.
LEMMA PasswordStart == CredentialInit => PasswordInv
<1>1. CredentialInit => PasswordsFit
  BY DEF CredentialInit, PasswordsFit, ProvedFit, PasswordHeld, SessionsKnow, OpenSids, Open, None,
         NoChallenge
<1> QED BY <1>1, LinksStart DEF LinksInv, PasswordInv

\* Every step keeps the sessions with the password.
LEMMA PasswordStep == PasswordInv /\ [CredentialNext]_credentialVars => PasswordInv'
BY NextCases, TypesStep, OverlapStep, LinksRequest, LinksWorld, PasswordsRequest, PasswordsWorld
   DEF PasswordInv

\* One request at a time and no crash, whoever knew an earlier password is signed
\* out: a challenge that the change has superseded opens no session
\* (revokeAllExcept, device-limit-challenge.service.ts).
THEOREM SessionsFollowPassword == CredentialSpec => []SessionsKnowThePassword
<1>1. PasswordInv => SessionsKnowThePassword
  BY DEF PasswordInv, PasswordsFit, SessionsKnow, Revoking, SessionsKnowThePassword, Busy
<1> QED BY <1>1, PasswordStart, PasswordStep, PTL DEF CredentialSpec
-----------------------------------------------------------------------------
(* No crash, and one request at a time: the attempts that are counted *)

\* The row counts every wrong password, except the one about to be saved; what
\* a request will write over the row counts them too, or forgives them.
WrongHeld(h) ==
  /\ pc[h] \in {"save", "create", "evict", "last"} =>
       \/ job[h].entity.password # cred.password
       \/ wrong <= job[h].entity.failed
       \/ job[h].op = "failed" /\ job[h].entity.locked
  /\ pc[h] = "save" /\ job[h].op = "failed" => ~cred.locked

Counting(h) == pc[h] = "save" /\ job[h].op = "failed"

WrongFit ==
  noise = {} => /\ \A h \in Handlers : WrongHeld(h)
                /\ (\A h \in Handlers : ~Counting(h)) => wrong <= cred.failed

\* A request counts its attempt, or forgives them all.
LEMMA WrongRequest ==
  ASSUME TypesFit, OverlapFit, WrongFit, NEW h \in Handlers, Request(h) PROVE WrongFit'
<1> DEFINE Goal == WrongHeld(h)' /\ (~Counting(h)' => wrong' <= cred'.failed)
           k == job[h]
<1> SUFFICES ASSUME noise' = {} PROVE Goal
  <2>1. noise' = {} => \A g \in Handlers \ {h} : WrongHeld(g)'
    BY QuietSolo DEF WrongHeld
  <2> QED BY <2>1 DEF WrongFit
<1>0. /\ WrongHeld(h) /\ (~Counting(h) => wrong <= cred.failed)
      /\ pc \in [Handlers -> Labels] /\ job = [g \in Handlers |-> job[g]]
      /\ cred.failed \in Nat /\ wrong \in Nat /\ cred.password \in Nat
  <2>1. noise = {} /\ \A g \in Handlers \ {h} : pc[g] = "idle"
    BY QuietSolo
  <2>2. cred.failed \in Nat
    BY ReadFields, CredentialAssumption DEF Credential
  <2> QED BY <2>1, <2>2, ReadFields DEF WrongFit, Counting, TypesFit, JobsFit, TablesFit
<1>1. ASSUME UNCHANGED <<cred, wrong>>, ~Counting(h),
             pc'[h] \notin {"save", "create", "evict", "last"}
      PROVE  Goal
  BY <1>0, <1>1 DEF WrongHeld, Counting
<1>2. CASE Starting(h)
  BY <1>1, <1>2, StartShape DEF Counting, stores, histories
<1>3. ASSUME NEW i \in Invites, StartAccept(h, i) PROVE Goal
  BY <1>1, <1>3, AcceptShape DEF Counting, histories
<1>4. CASE DeleteToken(h)
  BY <1>1, <1>4, ContinueShape DEF DeleteToken, Counting
<1>5. CASE End(h) /\ UNCHANGED <<cred, wrong>> /\ ~Counting(h)
  BY <1>1, <1>5, EndShape
<1>6. ASSUME UNCHANGED <<cred, wrong>>, ~Counting(h), job'[h].op # "failed",
             job'[h].entity.password # cred.password \/ wrong <= job'[h].entity.failed
      PROVE  Goal
  BY <1>0, <1>6 DEF WrongHeld, Counting
<1>7. CASE ReadLogin(h)
  <2>1. pc[h] = "read" /\ k.op = "login" /\ cred' = cred /\ ~Counting(h)
    BY <1>7 DEF ReadLogin, stores, Counting
  <2>2. CASE cred.locked \/ cred.password = 0
    BY <1>5, <1>7, <2>1, <2>2 DEF ReadLogin
  <2>3. CASE ~(cred.locked \/ cred.password = 0) /\ k.guess = cred.password
    <3> DEFINE c == [cred EXCEPT !.failed = 0, !.locked = FALSE]
    <3>1. wrong' = 0 /\ Proceed(h, c, "save") /\ c.failed = 0
      BY <1>7, <2>3, ReadFields DEF ReadLogin
    <3>2. job'[h].op = "login" /\ job'[h].entity = c
      BY <2>1, <3>1, ProceedShape
    <3> HIDE DEF c
    <3> QED BY <1>0, <2>1, <3>1, <3>2 DEF WrongHeld, Counting
  <2>4. CASE ~(cred.locked \/ cred.password = 0) /\ k.guess # cred.password
    <3>1. wrong' = wrong + 1 /\ ~cred.locked
          /\ Continue(h, [job[h] EXCEPT !.op = "failed", !.entity = CountFailure(cred)], "save")
      BY <1>7, <2>4 DEF ReadLogin
    <3>2. pc'[h] = "save" /\ job'[h].op = "failed" /\ job'[h].entity = CountFailure(cred)
      BY <2>1, <3>1, FailedShape
    <3>3. CountFailure(cred).locked \/ CountFailure(cred).failed = cred.failed + 1
      BY <3>1, CountFields DEF TypesFit, TablesFit, WellFormed
    <3>4. wrong <= cred.failed
      BY <1>0, <2>1
    <3> QED BY <1>0, <2>1, <3>1, <3>2, <3>3, <3>4 DEF WrongHeld, Counting
  <2> QED BY <2>2, <2>3, <2>4
<1>8. CASE ReadGoogle(h) \/ ReadComplete(h)
  <2>1. pc[h] = "read" /\ k.op # "failed" /\ UNCHANGED <<cred, wrong>> /\ ~Counting(h)
    BY <1>8 DEF ReadGoogle, ReadComplete, stores, histories, Counting
  <2>2. ASSUME NEW label, NEW c, Proceed(h, c, label), c.failed = cred.failed PROVE Goal
    BY <1>0, <1>6, <2>1, <2>2, ProceedShape
  <2> QED BY <1>5, <1>8, <2>1, <2>2, ReadFields DEF ReadGoogle, ReadComplete
<1>9. CASE ReadChange(h) \/ ReadReset(h) \/ ReadAdmin(h)
  <2>1. pc[h] = "read" /\ k.op # "failed" /\ UNCHANGED <<cred, wrong>> /\ ~Counting(h)
    BY <1>9 DEF ReadChange, ReadReset, ReadAdmin, histories, Counting
  <2>2. ASSUME Choose, Proceed(h, Own(cred, chosen + 1), "save") \/ Proceed(h, Imposed(cred, chosen + 1), "save")
        PROVE  Goal
    BY <1>6, <2>1, <2>2, ProceedShape, NewPassword
  <2> QED BY <1>5, <1>9, <2>1, <2>2 DEF ReadChange, ReadReset, ReadAdmin
<1>10. CASE MailFails(h)
  BY <1>5, <1>10 DEF MailFails, stores, histories, Counting
<1>11. CASE Save(h) \/ SaveLastLogin(h)
  <2>1. /\ pc[h] \in {"save", "last"} /\ cred' = k.entity /\ wrong' = Forgiven(k.entity)
        /\ k.op = "failed" => pc[h] = "save"
        /\ k.entity.failed \in Nat
    <3>1. pc[h] \in {"save", "last"} /\ cred' = k.entity /\ wrong' = Forgiven(k.entity)
      BY <1>11 DEF Save, SaveLastLogin
    <3> QED BY <3>1, Working, CredentialAssumption DEF Fits, SigningIn, Credential
  <2>2. wrong' <= cred'.failed
    BY <1>0, <2>1 DEF Forgiven, WrongHeld
  <2>3. CASE pc'[h] \in {"idle", "list", "consume"}
    BY <2>2, <2>3 DEF WrongHeld
  <2>4. CASE k.op # "failed" /\ pc'[h] = "create" /\ job'[h] = k
    BY <2>1, <2>2, <2>4 DEF WrongHeld
  <2> QED BY <1>11, <2>3, <2>4, ContinueShape, EndShape DEF Save, SaveLastLogin, AfterSave
<1>12. CASE CreateSession(h)
  <2>1. pc[h] = "create" /\ k.op # "failed" /\ UNCHANGED <<cred, wrong>> /\ pc'[h] = "last" /\ job'[h] = k
    BY <1>12, Working, ContinueShape DEF CreateSession, histories, Fits, SigningIn
  <2> QED BY <1>0, <2>1 DEF WrongHeld, Counting
<1>13. CASE PauseLogin(h) \/ ConsumeChallenge(h)
  BY <1>5, <1>13 DEF PauseLogin, ConsumeChallenge, histories, Counting
<1>14. CASE ListSessions(h)
  <2>1. UNCHANGED <<cred, wrong>> /\ ~Counting(h)
    BY <1>14 DEF ListSessions, histories, Counting
  <2>2. pc'[h] \in {"idle", "end"}
    BY <1>0, <1>14 DEF ListSessions, End, Continue
  <2> QED BY <1>1, <2>1, <2>2
<1>15. ASSUME NEW s \in Sids, EndSession(h, s) PROVE Goal
  <2>1. UNCHANGED <<cred, wrong>> /\ ~Counting(h) /\ pc[h] \in {"end", "evict"}
    BY <1>15 DEF EndSession, histories, Counting
  <2>2. CASE pc[h] = "end"
    <3>1. pc'[h] \in {"idle", "end"}
      BY <1>0, <1>15, <2>2 DEF EndSession, End, Continue
    <3> QED BY <1>1, <2>1, <3>1
  <2>3. CASE pc[h] = "evict"
    <3>1. job'[h].op = k.op /\ job'[h].entity = k.entity /\ k.op # "failed"
      BY <1>15, <2>3, TodoShape, Working DEF EndSession, Fits
    <3> QED BY <1>0, <1>6, <2>1, <2>3, <3>1 DEF WrongHeld
  <2> QED BY <2>1, <2>2, <2>3
<1>16. CASE CommitAccept(h)
  <2>1. cred' = k.entity /\ wrong' = 0 /\ pc'[h] = "list" /\ k.entity.failed \in Nat
    <3>1. k.entity \in Credential
      BY <1>16, Working DEF CommitAccept
    <3> QED BY <1>16, <3>1, ContinueShape, CredentialAssumption DEF CommitAccept, Credential
  <2> QED BY <2>1 DEF WrongHeld
<1>17. CASE RevokeOutstanding(h)
  BY <1>1, <1>17, ContinueShape DEF RevokeOutstanding, Counting, histories
<1>18. CASE FindOldInvites(h)
  BY <1>1, <1>18, TodoShape DEF FindOldInvites, Counting, stores, histories
<1>19. ASSUME NEW i \in Invites, InsertInvite(h, i) PROVE Goal
  BY <1>1, <1>19, ContinueShape DEF InsertInvite, Counting, histories
<1>20. CASE SendMail(h)
  BY <1>5, <1>20 DEF SendMail, Counting, histories
<1> QED BY <1>2, <1>3, <1>4, <1>7, <1>8, <1>9, <1>10, <1>11, <1>12, <1>13, <1>14, <1>15, <1>16, <1>17,
           <1>18, <1>19, <1>20 DEF Request, Reading, Writing, Inviting

\* Time forgives no attempt that is being saved.
LEMMA WrongWorld ==
  ASSUME TypesFit, WrongFit, World \/ UNCHANGED credentialVars PROVE WrongFit'
<1>1. CASE (\E t \in Tokens : ForgotPassword(t)) \/ (\E i \in Invites : ExpireInvite(i)) \/ UNCHANGED credentialVars
  BY <1>1 DEF ForgotPassword, ExpireInvite, credentialVars, stores, histories, WrongFit, WrongHeld, Counting
<1>2. CASE Unlock
  <2>1. \A h \in Handlers : pc[h] \in {"create", "evict", "last"} => job[h].op # "failed"
    BY DEF TypesFit, JobsFit, Fits, SigningIn
  <2>2. ASSUME NEW h \in Handlers, WrongHeld(h) PROVE WrongHeld(h)' /\ (Counting(h)' <=> Counting(h))
    BY <1>2, <2>1, <2>2, UnlockShape DEF WrongHeld, Counting
  <2> QED BY <1>2, <2>2, UnlockShape DEF WrongFit
<1>3. CASE Crash
  BY <1>3 DEF Crash, WrongFit
<1> QED BY <1>1, <1>2, <1>3 DEF World

WrongInv == TypesFit /\ OverlapFit /\ WrongFit

\* At the start nothing was attempted.
LEMMA WrongStart == CredentialInit => WrongInv
<1>1. ASSUME CredentialInit PROVE wrong <= cred.failed
  BY <1>1, FirstRow DEF CredentialInit
<1>2. CredentialInit => WrongFit
  BY <1>1 DEF CredentialInit, WrongFit, WrongHeld
<1> QED BY <1>2, TypesStart, OverlapStart DEF WrongInv

\* Every step keeps the count.
LEMMA WrongStep == WrongInv /\ [CredentialNext]_credentialVars => WrongInv'
BY NextCases, TypesStep, OverlapStep, WrongRequest, WrongWorld DEF WrongInv

\* What the runs check of the row follows.
LEMMA WrongImplies == WrongInv => CredentialInv
<1> SUFFICES ASSUME WrongInv PROVE CredentialInv
  OBVIOUS
<1>1. CredentialTypeOK
  BY DEF WrongInv, TypesFit, JobsFit, TablesFit, WellFormed, Fits, CredentialTypeOK, Labels, InviteRow,
         Challenge
<1>2. AttemptsAreCounted
  <2> SUFFICES ASSUME ~Busy, noise = {} PROVE wrong < MaxAttempts
    BY DEF AttemptsAreCounted
  <2>1. wrong <= cred.failed /\ cred.failed < MaxAttempts /\ cred \in Credential /\ wrong \in Nat
    BY DEF WrongInv, WrongFit, Counting, Busy, TypesFit, TablesFit, WellFormed
  <2> QED BY <2>1, CredentialAssumption DEF Credential
<1>3. ForcedChangeMarksAdminPasswords
  BY DEF WrongInv, OverlapFit, Marked, ForcedChangeMarksAdminPasswords
<1> QED BY <1>1, <1>2, <1>3 DEF CredentialInv

\* The row is well formed; one request at a time, wrong passwords lock it in
\* time, and a change is forced exactly where an administrator chose the password
\* (registerFailedAttempt, adminSetPassword, setOwnPassword).
THEOREM CredentialsSound == CredentialSpec => []CredentialInv
BY WrongStart, WrongStep, WrongImplies, PTL DEF CredentialSpec
=============================================================================
