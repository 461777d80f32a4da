------------------------- MODULE AccountCredentials -------------------------
(***************************************************************************)
(* The password of one student and everything that can set or prove it     *)
(* (student/student-auth.service.ts, account-invites/, auth-sessions/      *)
(* device-limit-challenge.service.ts): sign-in by password or Google, the  *)
(* device-limit challenge, password change, reset links, the admin's       *)
(* passwords and account invites.  The employee service is the same text.  *)
(*                                                                         *)
(* A request reads the credential, spends a bcrypt on it and saves it:     *)
(* save writes every column that differs from the row, so the row becomes  *)
(* what the request had read, with its changes.  Passwords are numbered in *)
(* the order they are chosen, and that order stands for                    *)
(* password_changed_at and for a challenge's issuedAt.  A session is only  *)
(* open or ended: AuthSessions has its life.  The account stays active,    *)
(* and the caps on requests, which refuse at any time, are left out.       *)
(***************************************************************************)
EXTENDS Integers, FiniteSets

CONSTANTS Handlers, Sids, Invites, Tokens,
          Limit,        \* devices that may be signed in at once
          MaxAttempts,  \* MAX_FAILED_ATTEMPTS
          MaxPassword,  \* bound: passwords ever chosen
          MaxCalls      \* bound: requests in all

ASSUME CredentialAssumption ==
  /\ Limit \in Nat \ {0} /\ MaxAttempts \in Nat \ {0} /\ MaxPassword \in Nat \ {0} /\ MaxCalls \in Nat
  /\ Invites \cap Tokens = {}

VARIABLES cred,        \* student_credentials
          sessions,    \* the password in force when each was opened; None, Ended
          invites,     \* account_invites
          resets,      \* reset links in Redis
          challenges,  \* device-limit challenges in Redis
          chosen,      \* how many passwords were chosen so far
          pc, job, calls,
          byAdmin,     \* history: the passwords an admin chose
          wrong,       \* history: wrong passwords compared since the counter last fell
          uses,        \* history: how often each link or challenge had its effect
          noise        \* history: what ran at the same time as what, and crashes

stores == <<cred, sessions, invites, resets, challenges, chosen>>
histories == <<byAdmin, wrong, uses>>
credentialVars == <<stores, pc, job, calls, histories, noise>>

None == -1
Ended == -2
Passwords == 0 .. MaxPassword

Credential == [password : Passwords, must : BOOLEAN, google : BOOLEAN,
               failed : 0 .. MaxAttempts, locked : BOOLEAN]

NoInvite == [state |-> "none", under |-> 0]
NoChallenge == [state |-> "none", at |-> 0, proved |-> 0]
NoJob == [op |-> "none"]

CredentialTypeOK ==
  /\ cred \in Credential /\ chosen \in Passwords
  /\ sessions \in [Sids -> Passwords \cup {None, Ended}]
  /\ invites \in [Invites -> [state : {"none", "live", "accepted", "revoked", "expired"},
                              under : Passwords]]
  /\ resets \subseteq Tokens
  /\ challenges \in [Tokens -> [state : {"none", "open", "used"}, at : Passwords, proved : Passwords]]
  /\ pc \in [Handlers -> {"idle", "revokeLinks", "takeToken", "read", "save", "create", "last",
                          "consume", "evict", "list", "end", "revokeOld", "insert", "mail", "commit"}]
  /\ \A h \in Handlers : pc[h] = "idle" <=> job[h] = NoJob
  /\ wrong \in Nat

CredentialInit ==
  /\ cred \in {[password |-> p, must |-> p = 0, google |-> FALSE, failed |-> 0, locked |-> FALSE]
               : p \in {0, 1}}
  /\ chosen = cred.password
  /\ sessions = [s \in Sids |-> None]
  /\ invites = [i \in Invites |-> NoInvite]
  /\ resets = {} /\ challenges = [t \in Tokens |-> NoChallenge]
  /\ pc = [h \in Handlers |-> "idle"] /\ job = [h \in Handlers |-> NoJob] /\ calls = 0
  /\ byAdmin = {} /\ wrong = 0 /\ uses = [u \in Invites \cup Tokens |-> 0] /\ noise = {}

-----------------------------------------------------------------------------
Open(s) == sessions[s] >= 0
OpenSids == {s \in Sids : Open(s)}
LiveInvites == {i \in Invites : invites[i].state = "live"}

Busy == \E h \in Handlers : pc[h] # "idle"

Task(op, on, guess) == [op |-> op, on |-> on, guess |-> guess, entity |-> cred, todo |-> {}]

Begin(h, task, label) ==
  /\ pc[h] = "idle" /\ calls < MaxCalls /\ calls' = calls + 1
  /\ pc' = [pc EXCEPT ![h] = label] /\ job' = [job EXCEPT ![h] = task]
  /\ noise' = noise \cup (IF Busy THEN {"overlap"} ELSE {})
                    \cup {"sends" : g \in {g \in Handlers : {task.op, job[g].op} = {"send"}}}

Continue(h, task, label) ==
  /\ pc' = [pc EXCEPT ![h] = label] /\ job' = [job EXCEPT ![h] = task]
  /\ UNCHANGED <<calls, noise>>

End(h) == Continue(h, NoJob, "idle")

-----------------------------------------------------------------------------
(* The requests *)

StartLogin(h, guess) == Begin(h, Task("login", None, guess), "read") /\ UNCHANGED <<stores, histories>>

StartGoogle(h) == Begin(h, Task("google", None, 0), "read") /\ UNCHANGED <<stores, histories>>

\* peek; the sessions to sign out come with the request.
StartComplete(h, t, evicted) ==
  /\ challenges[t].state = "open"
  /\ Begin(h, [Task("complete", t, challenges[t].proved) EXCEPT !.todo = evicted], "read")
  /\ UNCHANGED <<stores, histories>>

StartChange(h, s, guess) ==
  /\ Open(s) /\ Begin(h, Task("change", s, guess), "read") /\ UNCHANGED <<stores, histories>>

\* forgotPassword: the link's key is a fresh one.
ForgotPassword(t) ==
  /\ calls < MaxCalls /\ calls' = calls + 1
  /\ t \notin resets /\ uses[t] = 0 /\ challenges[t] = NoChallenge /\ resets' = resets \cup {t}
  /\ UNCHANGED <<cred, sessions, invites, challenges, chosen, pc, job, histories, noise>>

\* resetPassword reads the link's key, then deletes it.
StartReset(h, t) ==
  /\ t \in resets /\ Begin(h, Task("reset", t, 0), "takeToken") /\ UNCHANGED <<stores, histories>>

\* AdminStudents.setLoginPassword and resetLoginPassword.  Mutant: the
\* invitations are left alone.
AdminReads == "read"
AdminFirst == "revokeLinks"

StartAdmin(h, op) == Begin(h, Task(op, None, 0), AdminFirst) /\ UNCHANGED <<stores, histories>>

\* sendInvites: deriveStatus and skipReason.
StartSend(h, onlyUninvited, resend) ==
  /\ ~(onlyUninvited /\ (cred.password # 0 \/ cred.google))
  /\ ~(~resend /\ cred.password = 0 /\ ~cred.google /\ LiveInvites # {})
  /\ Begin(h, Task("send", None, 0), "revokeOld")
  /\ UNCHANGED <<stores, histories>>

Claimed(i) == \E h \in Handlers : pc[h] = "commit" /\ job[h].on = i

\* Mutant: the UPDATE does not look at revoked_at.
AcceptableIfUnused(i) == invites[i].state \in {"live", "revoked"}
Acceptable(i) == invites[i].state = "live"

\* acceptInvite sets the columns that mark the password as the person's own.
Own(entity, p) == [entity EXCEPT !.password = p, !.must = FALSE, !.failed = 0, !.locked = FALSE]
Imposed(entity, p) == [entity EXCEPT !.password = p, !.must = TRUE, !.failed = 0, !.locked = FALSE]

Choose == chosen < MaxPassword /\ chosen' = chosen + 1

\* The conditional UPDATE locks the invite until the transaction ends.
StartAccept(h, i) ==
  /\ Acceptable(i) /\ ~Claimed(i) /\ Choose
  /\ Begin(h, [Task("accept", i, 0) EXCEPT !.entity = Own(cred, chosen + 1)], "commit")
  /\ UNCHANGED <<cred, sessions, invites, resets, challenges, histories>>

-----------------------------------------------------------------------------
(* Reading the credential, and what the request makes of it *)

DeleteToken(h) ==
  /\ pc[h] = "takeToken"
  /\ resets' = resets \ {job[h].on}
  /\ uses' = [uses EXCEPT ![job[h].on] = @ + 1]
  /\ Continue(h, job[h], "read")
  /\ UNCHANGED <<cred, sessions, invites, challenges, chosen, byAdmin, wrong>>

\* registerFailedAttempt.  Mutant: the lock comes one attempt later.
CountFailureLate(entity) ==
  IF entity.failed >= MaxAttempts THEN [entity EXCEPT !.locked = TRUE, !.failed = 0]
  ELSE [entity EXCEPT !.failed = @ + 1]
CountFailure(entity) ==
  IF entity.failed + 1 >= MaxAttempts THEN [entity EXCEPT !.locked = TRUE, !.failed = 0]
  ELSE [entity EXCEPT !.failed = @ + 1]

Proceed(h, entity, label) == Continue(h, [job[h] EXCEPT !.entity = entity], label)

ReadLogin(h) ==
  LET right == job[h].guess = cred.password IN
  /\ pc[h] = "read" /\ job[h].op = "login"
  /\ IF cred.locked \/ cred.password = 0 THEN End(h)
     ELSE IF right THEN Proceed(h, [cred EXCEPT !.failed = 0, !.locked = FALSE], "save")
     ELSE Continue(h, [job[h] EXCEPT !.op = "failed", !.entity = CountFailure(cred)], "save")
  /\ wrong' = IF cred.locked \/ cred.password = 0 THEN wrong ELSE IF right THEN 0 ELSE wrong + 1
  /\ UNCHANGED <<stores, byAdmin, uses>>

ReadGoogle(h) ==
  /\ pc[h] = "read" /\ job[h].op = "google"
  /\ Proceed(h, [cred EXCEPT !.google = TRUE], "save")
  /\ UNCHANGED <<stores, histories>>

SupersededBy(issuedAt, p) == p > issuedAt

ReadComplete(h) ==
  /\ pc[h] = "read" /\ job[h].op = "complete"
  /\ IF SupersededBy(challenges[job[h].on].at, cred.password) THEN End(h)
     ELSE Proceed(h, cred, IF job[h].todo = {} THEN "create" ELSE "evict")
  /\ UNCHANGED <<stores, histories>>

ReadChange(h) ==
  /\ pc[h] = "read" /\ job[h].op = "change"
  /\ IF cred.password = 0 \/ job[h].guess # cred.password THEN End(h) /\ UNCHANGED chosen
     ELSE Choose /\ Proceed(h, Own(cred, chosen + 1), "save")
  /\ UNCHANGED <<cred, sessions, invites, resets, challenges, histories>>

ReadReset(h) ==
  /\ pc[h] = "read" /\ job[h].op = "reset" /\ Choose
  /\ Proceed(h, Own(cred, chosen + 1), "save")
  /\ UNCHANGED <<cred, sessions, invites, resets, challenges, histories>>

\* adminResetPassword mails the password before it saves it, and stops when
\* the mail fails: as a crash would.
ReadAdmin(h) ==
  /\ pc[h] = "read" /\ job[h].op \in {"adminSet", "adminReset"} /\ Choose
  /\ Proceed(h, Imposed(cred, chosen + 1), "save")
  /\ byAdmin' = byAdmin \cup {chosen + 1}
  /\ UNCHANGED <<cred, sessions, invites, resets, challenges, wrong, uses>>

MailFails(h) ==
  /\ pc[h] = "save" /\ job[h].op = "adminReset" /\ End(h) /\ UNCHANGED <<stores, histories>>

-----------------------------------------------------------------------------
(* Writing *)

\* Mutant: the sessions stay signed in.
AfterSaveKeeps(op) == IF op \in {"login", "google"} THEN "create" ELSE "last"
AfterSave(op) == IF op \in {"login", "google"} THEN "create" ELSE "list"

Forgiven(entity) == IF entity.locked \/ entity.password # cred.password THEN 0 ELSE wrong

Save(h) ==
  LET t == job[h] IN
  /\ pc[h] = "save" /\ cred' = t.entity /\ wrong' = Forgiven(t.entity)
  /\ IF t.op = "failed" THEN End(h) ELSE Continue(h, t, AfterSave(t.op))
  /\ UNCHANGED <<sessions, invites, resets, challenges, chosen, byAdmin, uses>>

\* The password a login, or the one a challenge paused, was proved with.
Proved(t) == IF t.op = "complete" THEN t.guess ELSE t.entity.password

\* createWithinLimit under its lock: at the limit, a challenge (or none, when
\* the request came with one).
CreateSession(h) ==
  LET t == job[h] IN
  /\ pc[h] = "create" /\ Cardinality(OpenSids) < Limit
  /\ \E s \in Sids : sessions[s] = None /\ sessions' = [sessions EXCEPT ![s] = Proved(t)]
  /\ Continue(h, t, "last")
  /\ UNCHANGED <<cred, invites, resets, challenges, chosen, histories>>

PauseLogin(h) ==
  /\ pc[h] = "create" /\ Cardinality(OpenSids) >= Limit
  /\ IF job[h].op = "complete" THEN UNCHANGED challenges
     ELSE \E t \in Tokens : /\ challenges[t] = NoChallenge /\ t \notin resets /\ uses[t] = 0
                            /\ challenges' = [challenges EXCEPT ![t] = [state |-> "open", at |-> chosen,
                                                                        proved |-> Proved(job[h])]]
  /\ End(h)
  /\ UNCHANGED <<cred, sessions, invites, resets, chosen, histories>>

\* last_login_at: the entity read at the start is saved once more.
SaveLastLogin(h) ==
  /\ pc[h] = "last" /\ cred' = job[h].entity /\ wrong' = Forgiven(job[h].entity)
  /\ IF job[h].op = "complete" THEN Continue(h, job[h], "consume") ELSE End(h)
  /\ UNCHANGED <<sessions, invites, resets, challenges, chosen, byAdmin, uses>>

ConsumeChallenge(h) ==
  /\ pc[h] = "consume"
  /\ challenges' = [challenges EXCEPT ![job[h].on].state = "used"]
  /\ uses' = [uses EXCEPT ![job[h].on] = @ + 1]
  /\ End(h)
  /\ UNCHANGED <<cred, sessions, invites, resets, chosen, byAdmin, wrong>>

\* acceptInvite commits: the invite burned, the password set.
CommitAccept(h) ==
  LET t == job[h] IN
  /\ pc[h] = "commit"
  /\ invites' = [invites EXCEPT ![t.on].state = "accepted"]
  /\ cred' = t.entity /\ wrong' = 0 /\ uses' = [uses EXCEPT ![t.on] = @ + 1]
  /\ Continue(h, t, "list")
  /\ UNCHANGED <<sessions, resets, challenges, chosen, byAdmin>>

\* revokeAllExcept lists the open sessions, then ends them one by one; a
\* change spares its own, which from now on stands for the new password.
Spared(t) == IF t.op = "change" THEN {t.on} ELSE {}

ListSessions(h) ==
  LET others == OpenSids \ Spared(job[h]) IN
  /\ pc[h] = "list"
  /\ sessions' = [s \in Sids |-> IF s \in Spared(job[h]) /\ Open(s)
                                 THEN job[h].entity.password ELSE sessions[s]]
  /\ IF others = {} THEN End(h) ELSE Continue(h, [job[h] EXCEPT !.todo = others], "end")
  /\ UNCHANGED <<cred, invites, resets, challenges, chosen, histories>>

\* Also the devices picked at the limit.
EndSession(h, s) ==
  LET rest == job[h].todo \ {s} IN
  /\ pc[h] \in {"end", "evict"} /\ s \in job[h].todo
  /\ sessions' = [sessions EXCEPT ![s] = IF Open(s) THEN Ended ELSE @]
  /\ IF rest # {} THEN Continue(h, [job[h] EXCEPT !.todo = rest], pc[h])
     ELSE IF pc[h] = "end" THEN End(h) ELSE Continue(h, [job[h] EXCEPT !.todo = {}], "create")
  /\ UNCHANGED <<cred, invites, resets, challenges, chosen, histories>>

-----------------------------------------------------------------------------
(* Invites *)

Revoke(dead) ==
  [i \in Invites |-> IF i \in dead /\ invites[i].state = "live"
                     THEN [invites[i] EXCEPT !.state = "revoked"] ELSE invites[i]]

\* revokeOutstanding waits for an acceptance in progress.
RevokeOutstanding(h) ==
  /\ pc[h] = "revokeLinks" /\ \A i \in LiveInvites : ~Claimed(i)
  /\ invites' = Revoke(LiveInvites)
  /\ Continue(h, job[h], "read")
  /\ UNCHANGED <<cred, sessions, resets, challenges, chosen, histories>>

\* createInviteRow: the UPDATE sees what is committed when it begins ...
FindOldInvites(h) ==
  /\ pc[h] = "revokeOld" /\ \A i \in LiveInvites : ~Claimed(i)
  /\ Continue(h, [job[h] EXCEPT !.todo = LiveInvites], "insert")
  /\ UNCHANGED <<stores, histories>>

\* ... and the transaction commits the new row with it.
InsertInvite(h, i) ==
  /\ pc[h] = "insert" /\ invites[i] = NoInvite /\ \A j \in job[h].todo : ~Claimed(j)
  /\ invites' = [Revoke(job[h].todo) EXCEPT ![i] = [state |-> "live", under |-> cred.password]]
  /\ Continue(h, [job[h] EXCEPT !.on = i], "mail")
  /\ UNCHANGED <<cred, sessions, resets, challenges, chosen, histories>>

\* The mail leaves, or fails and takes the row with it.
SendMail(h) ==
  /\ pc[h] = "mail"
  /\ \/ UNCHANGED invites
     \/ /\ ~Claimed(job[h].on)
        /\ invites' = [invites EXCEPT ![job[h].on].state = "revoked"]
  /\ End(h)
  /\ UNCHANGED <<cred, sessions, resets, challenges, chosen, histories>>

-----------------------------------------------------------------------------
(* Time and failures *)

ExpireInvite(i) ==
  /\ invites[i].state = "live" /\ ~Claimed(i)
  /\ invites' = [invites EXCEPT ![i].state = "expired"]
  /\ UNCHANGED <<cred, sessions, resets, challenges, chosen, pc, job, calls, histories, noise>>

\* The lock is a date: it passes in every copy of the row.
Unlock ==
  /\ cred.locked /\ cred' = [cred EXCEPT !.locked = FALSE]
  /\ job' = [h \in Handlers |-> IF job[h] = NoJob THEN NoJob
                                ELSE [job[h] EXCEPT !.entity.locked = FALSE]]
  /\ UNCHANGED <<sessions, invites, resets, challenges, chosen, pc, calls, histories, noise>>

\* An open transaction rolls back; what was written stays.
Crash ==
  /\ Busy /\ noise' = noise \cup {"crash"}
  /\ pc' = [h \in Handlers |-> "idle"] /\ job' = [h \in Handlers |-> NoJob]
  /\ UNCHANGED <<stores, calls, histories>>

CredentialNext ==
  \/ \E h \in Handlers :
       \/ \E guess \in 1 .. chosen : \/ StartLogin(h, guess)
                                     \/ \E s \in Sids : StartChange(h, s, guess)
       \/ StartGoogle(h)
       \/ \E t \in Tokens : StartReset(h, t) \/ \E evicted \in SUBSET OpenSids : StartComplete(h, t, evicted)
       \/ StartAdmin(h, "adminSet") \/ StartAdmin(h, "adminReset")
       \/ \E onlyUninvited, resend \in BOOLEAN : StartSend(h, onlyUninvited, resend)
       \/ \E i \in Invites : StartAccept(h, i) \/ InsertInvite(h, i)
       \/ DeleteToken(h) \/ ReadLogin(h) \/ ReadGoogle(h) \/ ReadComplete(h) \/ ReadChange(h)
       \/ ReadReset(h) \/ ReadAdmin(h) \/ MailFails(h) \/ Save(h)
       \/ CreateSession(h) \/ PauseLogin(h) \/ SaveLastLogin(h) \/ ConsumeChallenge(h)
       \/ CommitAccept(h) \/ ListSessions(h) \/ \E s \in Sids : EndSession(h, s)
       \/ RevokeOutstanding(h) \/ FindOldInvites(h) \/ SendMail(h)
  \/ \E t \in Tokens : ForgotPassword(t)
  \/ \E i \in Invites : ExpireInvite(i)
  \/ Unlock \/ Crash

CredentialSpec == CredentialInit /\ [][CredentialNext]_credentialVars

-----------------------------------------------------------------------------
(* Properties *)

\* An invitation sets a password at most once, and never after it was revoked,
\* superseded or expired, whatever else runs (acceptInvite's UPDATE).
InviteSetsOnce ==
  [][\A i \in Invites :
       uses'[i] # uses[i] => uses[i] = 0 /\ invites[i].state = "live"]_<<uses, invites>>

\* A person holds one live invitation at a time, unless two sends overlap
\* (createInviteRow).
OneLiveInvite == "sends" \notin noise => Cardinality(LiveInvites) <= 1

\* No invitation sent before an admin chose the password in force can still be
\* accepted and overwrite it: even a crash between the two steps leaves it so
\* (setLoginPassword, resetLoginPassword).  A reset link that was sent before can:
\* nothing deletes student:pwreset keys when an admin sets a password.
NoInviteOlderThanAdminPassword ==
  "overlap" \notin noise /\ cred.password \in byAdmin =>
    \A i \in LiveInvites : invites[i].under >= cred.password

\* One request at a time and no crash, every open session was opened, or kept
\* by its owner, under the password in force: whoever knew an earlier one is out.
SessionsKnowThePassword ==
  ~Busy /\ noise = {} => \A s \in OpenSids : sessions[s] = cred.password

\* One request at a time, MaxAttempts wrong passwords in a row are never all
\* answered: the account is locked first.
AttemptsAreCounted == ~Busy /\ noise = {} => wrong < MaxAttempts

\* A forced change marks exactly the passwords an admin chose.
ForcedChangeMarksAdminPasswords ==
  "overlap" \notin noise => (cred.must <=> cred.password \in byAdmin \cup {0})

\* A challenge or a reset link works once, one request at a time.
SingleUse == noise = {} => \A t \in Tokens : uses[t] <= 1

\* The invariant of the credential row: well formed, locked in time, and with a
\* forced change exactly where someone else chose the password.
CredentialInv == CredentialTypeOK /\ AttemptsAreCounted /\ ForcedChangeMarksAdminPasswords

\* Of a person's invitations the latest alone works, and none outlives the password
\* an administrator has set; a challenge or a reset link works once.
LinksAreCurrent == OneLiveInvite /\ NoInviteOlderThanAdminPassword /\ SingleUse

\* account-invite.service.ts:593, of the ending of the sessions: "a revocation
\* failure must not roll back a password the person has already been told is set".
\* The same of whatever else may fail or run meanwhile: a password that was
\* replaced never comes back.
PasswordStands == [][cred'.password >= cred.password]_cred
=============================================================================
