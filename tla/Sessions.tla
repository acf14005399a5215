------------------------------ MODULE Sessions ------------------------------
(***************************************************************************)
(* One user's account and sessions: src/src/services/auth.service.js over  *)
(* src/src/utils/session-manager.js and src/src/repositories/              *)
(* user.repository.js.  AuthService makes its session manager without a    *)
(* Redis client, so sessions live in the memory of the process.            *)
(*                                                                         *)
(* Several requests are under way at once.  An action is the code between  *)
(* two awaits that reach PostgreSQL; what awaits only the in-memory store  *)
(* runs on without letting another request in, and belongs to the step     *)
(* before it.  The user is registered and verified.                        *)
(***************************************************************************)
EXTENDS Integers, FiniteSets, Sequences, SequencesExt

CONSTANTS Slot,         \* requests the process serves at a time
          Password,     \* passwords that pass the policy
          First,        \* the password the user registered with
          MaxSessions,  \* maxConcurrentSessions (5)
          LockLimit,    \* failed attempts that lock the account (5)
          HistoryLimit, \* passwords kept in password_history (5)
          MaxIssued,    \* bound: logins and refreshes that succeed
          MaxChanges,   \* bound: password changes
          MaxMails,     \* bound: different reset tokens sent
          MaxUncounted  \* bound: wrong passwords whose count is lost

ASSUME SessionsAssumption ==
  /\ IsFiniteSet(Slot)
  /\ First \in Password
  /\ MaxSessions \in Nat \ {0} /\ LockLimit \in Nat \ {0} /\ HistoryLimit \in Nat \ {0}
  /\ MaxIssued \in Nat /\ MaxChanges \in Nat /\ MaxMails \in Nat /\ MaxUncounted \in Nat

VARIABLES
  password, \* users.password_hash
  past,     \* users.password_history, the latest first
  failed,   \* users.failed_login_attempts, counted up to the limit
  locked,   \* users.locked_until lies ahead
  reset,    \* users.reset_token, 0 for NULL
  store,    \* memorySessions: the user's bearer and refresh entries
  issued,   \* token pairs issued; a token is named by the number of its pair
  job,      \* job[s]: the request in slot s, the await it is at and its locals
  worn,     \* the passwords the account has had, the latest first (history)
  cut,      \* the last change whose answer was lost, so that nobody revoked (history)
  raced,    \* a change was overtaken by another since it vetted (history)
  spent,    \* credentials exchanged, of those still to be had (history)
  misses,   \* wrong passwords compared since the last success or lapse (history)
  uncounted, \* those of them whose count was lost with a query (history)
  mails     \* different reset tokens sent; the latest one's name

user == <<password, past, failed, locked, reset>>
tokens == <<store, issued>>
ages == <<worn, cut, raced>>
tries == <<misses, uncounted>>
vars == <<user, tokens, job, ages, spent, tries, mails>>

epoch == Len(worn) - 1  \* password changes so far

\* rests: the password the session goes back to; late: stored by a request that
\* a revocation overtook (history).
Entry == [kind : {"bearer", "refresh"}, pair : 1..MaxIssued,
          rests : 0..MaxChanges, late : BOOLEAN]

\* What a request presents: a refresh token, a reset token, or a password.
Credential == ({"refresh"} \X (1..MaxIssued)) \cup ({"reset"} \X (1..MaxMails))
NoCredential == <<"password", 0>>

\* The awaits at which other requests get in.
Places == {"idle", "compare", "stamp", "rotate", "vet", "read", "update", "revoke"}

\* holds: the token it presents, and joint: another request has presented it
\* too (history); seen: the password it goes back to, or was vetted against,
\* and late: a revocation has overtaken it (history); next, trail: the password
\* and the history it will write.
Job == [at : Places, holds : Credential \cup {NoCredential}, joint : BOOLEAN,
        seen : 0..MaxChanges, late : BOOLEAN, next : Password, trail : Seq(Password)]

Idle == [at |-> "idle", holds |-> NoCredential, joint |-> FALSE,
         seen |-> 0, late |-> FALSE, next |-> First, trail |-> <<>>]

TypeOK ==
  /\ password \in Password
  /\ past \in Seq(Password) /\ Len(past) <= HistoryLimit
  /\ failed \in 0..LockLimit /\ locked \in BOOLEAN
  /\ reset \in 0..MaxMails
  /\ store \in SUBSET Entry
  /\ issued \in 0..MaxIssued
  /\ job \in [Slot -> Job]
  /\ worn \in Seq(Password) /\ epoch \in 0..MaxChanges
  /\ cut \in 0..MaxChanges /\ raced \in BOOLEAN
  /\ spent \in SUBSET Credential
  /\ misses \in Nat /\ uncounted \in 0..MaxUncounted
  /\ mails \in 0..MaxMails

Init ==
  /\ password = First
  /\ past = <<>>
  /\ failed = 0
  /\ locked = FALSE
  /\ reset = 0
  /\ store = {}
  /\ issued = 0
  /\ job = [s \in Slot |-> Idle]
  /\ worn = <<First>>
  /\ cut = 0
  /\ raced = FALSE
  /\ spent = {}
  /\ misses = 0
  /\ uncounted = 0
  /\ mails = 0

SmallerOf(m, n) == IF m < n THEN m ELSE n

Put(s, j) == job' = [job EXCEPT ![s] = j]
Leave(s) == Put(s, Idle)

-----------------------------------------------------------------------------
(* The session store *)

Newer(x, y) == \/ x.pair > y.pair
               \/ x.pair = y.pair /\ x.kind = "refresh" /\ y.kind = "bearer"

\* A mistaken Enforce: nothing has to go.
EnforceNothing(entries, kinds) == entries

\* _enforceMemorySessionLimit: the entries beyond the newest MaxSessions of
\* those whose key starts with the prefix. Every key starts with '', the
\* prefix given for bearer entries.
Enforce(entries, kinds) ==
  LET counted == {x \in entries : x.kind \in kinds}
  IN entries \ {x \in counted :
                  Cardinality({y \in counted : Newer(y, x)}) >= MaxSessions}

AnyKind == {"bearer", "refresh"}

\* createSession and createRefreshSession, one after the other, into what is
\* left of the store.
Store(left, rests, late) ==
  LET bearer == [kind |-> "bearer", pair |-> issued + 1, rests |-> rests, late |-> late]
      refresh == [bearer EXCEPT !.kind = "refresh"]
  IN /\ issued < MaxIssued
     /\ issued' = issued + 1
     /\ store' = Enforce(Enforce(left \cup {bearer}, AnyKind) \cup {refresh}, {"refresh"})

Bearers(pairs) == {x \in store : x.kind = "bearer" /\ x.pair \in pairs}
Refresh(n) == {x \in store : x.kind = "refresh" /\ x.pair = n}

\* Request s presents c, perhaps while others do.
TakeUp(s, c, j) ==
  LET others == {o \in Slot \ {s} : job[o].holds = c}
  IN job' = [o \in Slot |->
               CASE o = s -> [j EXCEPT !.holds = c, !.joint = others # {}]
                 [] o \in others -> [job[o] EXCEPT !.joint = TRUE]
                 [] OTHER -> job[o]]

\* History: request s has exchanged what it presented; a credential that
\* nobody presents and nobody could present is forgotten.
ToBeHad(c) == \/ \E o \in Slot : job[o].holds = c
              \/ c[1] = "refresh" /\ Refresh(c[2]) # {}
              \/ c = <<"reset", reset>>
Exchange(s) ==
  spent' = {c \in (spent \cup {job[s].holds}) \ {NoCredential} : ToBeHad(c)'}

-----------------------------------------------------------------------------
(* login *)

\* findByEmail: the row as it is now, locked or not.
BeginLogin(s) ==
  /\ job[s].at = "idle"
  /\ ~locked
  /\ Put(s, [Idle EXCEPT !.at = "compare", !.seen = epoch])
  /\ UNCHANGED <<user, tokens, ages, spent, tries, mails>>

AddOne(count) == IF count < LockLimit THEN count + 1 ELSE count

\* A mistaken WrongPassword: two requests that have read the same count write
\* the same count.
WrongPasswordAsRead(s) ==
  /\ job[s].at = "compare"
  /\ failed' = IF \E o \in Slot \ {s} : job[o].at = "compare" THEN failed ELSE AddOne(failed)
  /\ locked' = (locked \/ failed' = LockLimit)
  /\ misses' = misses + 1
  /\ Leave(s)
  /\ UNCHANGED <<password, past, reset, tokens, ages, spent, uncounted, mails>>

\* The password does not match the row that was read: recordFailedLoginAttempt.
WrongPassword(s) ==
  /\ job[s].at = "compare"
  /\ failed' = AddOne(failed)
  /\ locked' = (locked \/ failed' = LockLimit)
  /\ misses' = misses + 1
  /\ Leave(s)
  /\ UNCHANGED <<password, past, reset, tokens, ages, spent, uncounted, mails>>

\* It matches: resetFailedLoginAttempts, which takes a lock away as well.
RightPassword(s) ==
  /\ job[s].at = "compare"
  /\ failed' = 0
  /\ locked' = FALSE
  /\ misses' = 0 /\ uncounted' = 0
  /\ job' = [job EXCEPT ![s].at = "stamp"]
  /\ UNCHANGED <<password, past, reset, tokens, ages, spent, mails>>

\* updateLastLogin has answered: the sessions are stored.
FinishLogin(s) ==
  /\ job[s].at = "stamp"
  /\ Store(store, job[s].seen, job[s].late)
  /\ Leave(s)
  /\ UNCHANGED <<user, ages, spent, tries, mails>>

-----------------------------------------------------------------------------
(* refreshAccessToken and logout *)

\* validateRefreshSession finds the token; findById is under way.
BeginRefresh(s, n) ==
  /\ job[s].at = "idle"
  /\ \E x \in Refresh(n) :
       TakeUp(s, <<"refresh", n>>, [Idle EXCEPT !.at = "rotate", !.seen = x.rests, !.late = x.late])
  /\ UNCHANGED <<user, tokens, ages, spent, tries, mails>>

\* A mistaken Rotate: the token that was presented stays.
RotateNot(s) ==
  /\ job[s].at = "rotate"
  /\ Store(store, job[s].seen, job[s].late)
  /\ Leave(s)
  /\ UNCHANGED <<user, ages, tries, mails>>
  /\ Exchange(s)

\* The token goes, whether or not it is still there, and a new pair comes.
Rotate(s) ==
  /\ job[s].at = "rotate"
  /\ Store(store \ Refresh(job[s].holds[2]), job[s].seen, job[s].late)
  /\ Leave(s)
  /\ UNCHANGED <<user, ages, tries, mails>>
  /\ Exchange(s)

\* The bearer entries with this token go and, if one is given, the refresh
\* entry (0: none). An access token carries the user and the second it was
\* signed in, so that the pairs of one second, which follow each other, have
\* the same one.
Seconds == {first..last : first, last \in 1..MaxIssued}
Logout(pairs, n) ==
  /\ Bearers(pairs) \cup Refresh(n) # {}
  /\ store' = store \ (Bearers(pairs) \cup Refresh(n))
  /\ UNCHANGED <<user, issued, job, ages, spent, tries, mails>>

-----------------------------------------------------------------------------
(* changePassword, requestPasswordReset, resetPassword *)

\* findById, and the present password matches.
BeginChange(s) ==
  /\ job[s].at = "idle"
  /\ Put(s, [Idle EXCEPT !.at = "vet"])
  /\ UNCHANGED <<user, tokens, ages, spent, tries, mails>>

\* requestPasswordReset: the token replaces what the row holds. It carries the
\* user and the second it was signed in, and nothing else: a second request of
\* that second sends the same token again, and the update of a request may come
\* after those of later ones. So any token sent so far may come (back) to the
\* row, one that has been exchanged as well, to be exchanged once more.
MailReset ==
  \E n \in 1..(mails + 1) :
    /\ n <= MaxMails
    /\ reset' = n
    /\ mails' = IF n > mails THEN n ELSE mails
    /\ spent' = spent \ {<<"reset", n>>}
    /\ UNCHANGED <<password, past, failed, locked, tokens, job, ages, tries>>

\* resetPassword finds the row by the token.
BeginReset(s) ==
  /\ job[s].at = "idle"
  /\ reset # 0
  /\ TakeUp(s, <<"reset", reset>>, [Idle EXCEPT !.at = "vet"])
  /\ UNCHANGED <<user, tokens, ages, spent, tries, mails>>

\* checkPasswordHistory reads the row again.
Vet(s, p) ==
  /\ job[s].at = "vet"
  /\ p # password /\ p \notin ToSet(past)
  /\ job' = [job EXCEPT ![s].at = "read", ![s].next = p, ![s].seen = epoch]
  /\ UNCHANGED <<user, tokens, ages, spent, tries, mails>>

\* Mistaken ones of Trail: the password being replaced is not put on record; the
\* record grows without end.
TrailWithoutPresent == past
TrailUncut == <<password>> \o past

\* The history the update will write: the present password before the others.
Trail == SubSeq(<<password>> \o past, 1, SmallerOf(Len(past) + 1, HistoryLimit))

\* updatePassword reads the row once more.
ReadPast(s) ==
  /\ job[s].at = "read"
  /\ job' = [job EXCEPT ![s].at = "update", ![s].trail = Trail]
  /\ UNCHANGED <<user, tokens, ages, spent, tries, mails>>

\* The UPDATE: password, history, and no reset token any more. If its answer is
\* lost the request fails and never gets to the revocation.
Update(s) ==
  /\ job[s].at = "update"
  /\ epoch < MaxChanges
  /\ password' = job[s].next
  /\ past' = job[s].trail
  /\ reset' = 0
  /\ worn' = <<job[s].next>> \o worn
  /\ raced' = (raced \/ epoch # job[s].seen)
  /\ \/ Put(s, [Idle EXCEPT !.at = "revoke"]) /\ UNCHANGED cut
     \/ Leave(s) /\ cut' = epoch + 1
  /\ UNCHANGED <<failed, locked, tokens, tries, mails>>
  /\ Exchange(s)

\* Requests that have been let in on an earlier password, and can still store.
Overtaken(s) == job[s].at \in {"compare", "stamp", "rotate"} /\ job[s].seen < epoch

\* A mistaken Revoke: bearer entries only.
RevokeBearers(s) ==
  /\ job[s].at = "revoke"
  /\ store' = {x \in store : x.kind = "refresh"}
  /\ cut' = 0
  /\ job' = [o \in Slot |-> CASE o = s -> Idle
                              [] o # s /\ Overtaken(o) -> [job[o] EXCEPT !.late = TRUE]
                              [] OTHER -> job[o]]
  /\ UNCHANGED <<user, issued, worn, raced, spent, tries, mails>>

\* invalidateAllUserSessions
Revoke(s) ==
  /\ job[s].at = "revoke"
  /\ store' = {}
  /\ cut' = 0
  /\ job' = [o \in Slot |-> CASE o = s -> Idle
                              [] o # s /\ Overtaken(o) -> [job[o] EXCEPT !.late = TRUE]
                              [] OTHER -> job[o]]
  /\ UNCHANGED <<user, issued, worn, raced, spent, tries, mails>>

-----------------------------------------------------------------------------
(* The environment *)

\* A query rejects, without effect: the request ends in an error. If it was the
\* one that counts a wrong password, that password has been compared all the same.
Reject(s) ==
  /\ job[s].at \notin {"idle", "revoke"}
  /\ Leave(s)
  /\ \/ UNCHANGED tries
     \/ /\ job[s].at = "compare" /\ uncounted < MaxUncounted
        /\ misses' = misses + 1 /\ uncounted' = uncounted + 1
  /\ UNCHANGED <<user, tokens, ages, spent, mails>>

\* Fifteen minutes after the last failure; the count of failures stays.
LockLapses ==
  /\ locked
  /\ locked' = FALSE
  /\ misses' = 0 /\ uncounted' = 0
  /\ UNCHANGED <<password, past, failed, reset, tokens, job, ages, spent, mails>>

\* The process restarts: requests and sessions are lost, the row is not.
Restart ==
  /\ store # {} \/ \E s \in Slot : job[s] # Idle
  /\ store' = {}
  /\ cut' = 0
  /\ job' = [s \in Slot |-> Idle]
  /\ UNCHANGED <<user, issued, worn, raced, spent, tries, mails>>

Serve(s) ==
  \/ BeginLogin(s) \/ WrongPassword(s) \/ RightPassword(s) \/ FinishLogin(s)
  \/ \E n \in 1..MaxIssued : BeginRefresh(s, n)
  \/ Rotate(s)
  \/ BeginChange(s) \/ BeginReset(s)
  \/ \E p \in Password : Vet(s, p)
  \/ ReadPast(s) \/ Update(s) \/ Revoke(s)
  \/ Reject(s)

Next ==
  \/ \E s \in Slot : Serve(s)
  \/ \E pairs \in Seconds, n \in 0..MaxIssued : Logout(pairs, n)
  \/ MailReset
  \/ LockLapses
  \/ Restart

Spec == Init /\ [][Next]_vars

-----------------------------------------------------------------------------
(* Properties *)

\* A session that goes back to an earlier password is not in the store, but
\* for the moment between the update and the revocation, for sessions stored
\* by requests that the revocation overtook (and what was refreshed from
\* them), and after a change whose answer was lost. (changePassword,
\* resetPassword, login, refreshAccessToken)
SessionsRestOnPassword ==
  \A x \in store : x.rests < epoch =>
    \/ x.late
    \/ \E s \in Slot : job[s].at = "revoke"
    \/ x.rests < cut

\* A refresh token is rotated once, and a reset token changes the password once
\* for each time it has been sent: the only request that can still come with a
\* token that has been exchanged, and not sent since, is one that was under way
\* with it at the same time as the one that exchanged it. (refreshAccessToken,
\* requestPasswordReset, resetPassword)
ExchangedOnce == \A s \in Slot : job[s].holds \in spent => job[s].joint

\* However many requests try passwords at the same time, and although each
\* checks the lock long before it counts its failure, no more wrong passwords
\* are compared before the account is locked than the limit allows, one round
\* of requests more, and one more for each whose count was lost because
\* recordFailedLoginAttempt rejected. (login, recordFailedLoginAttempt)
MissesAreBounded == misses < LockLimit + Cardinality(Slot) + uncounted

\* A new password is neither the present one nor one of the HistoryLimit before
\* it, unless two changes have overlapped. (checkPasswordHistory,
\* updatePassword)
Recent == {worn[i] : i \in 1..SmallerOf(Len(worn), HistoryLimit + 1)}
NoReuse == [][worn' # worn => raced' \/ worn'[1] \notin Recent]_vars

\* The store never holds more than one entry above the limit, and never more
\* refresh entries than the limit. (_enforceMemorySessionLimit)
StoreIsBounded ==
  /\ Cardinality(store) <= MaxSessions + 1
  /\ Cardinality({x \in store : x.kind = "refresh"}) <= MaxSessions
=============================================================================
