--------------------------- MODULE SessionsProofs ---------------------------
(***************************************************************************)
(* What Sessions.tla promises for every number of requests, passwords,     *)
(* sessions, changes and mails, and every value of the limits.             *)
(***************************************************************************)
EXTENDS Sessions, FiniteSetTheorems, TLAPS

LEMMA Numbers ==
  /\ MaxIssued \in Nat /\ MaxChanges \in Nat /\ MaxMails \in Nat
  /\ MaxUncounted \in Nat
  /\ MaxSessions \in Nat \ {0} /\ LockLimit \in Nat \ {0} /\ HistoryLimit \in Nat \ {0}
  /\ First \in Password /\ IsFiniteSet(Slot)
  BY SessionsAssumption

USE DEF tries

-----------------------------------------------------------------------------
(* The locals of a request *)

LEMMA IdleIsJob == Idle \in Job
<1>1. NoCredential \in Credential \cup {NoCredential}
  OBVIOUS
<1>2. <<>> \in Seq(Password) /\ 0 \in 0..MaxChanges
  BY Numbers
<1>3. First \in Password
  BY Numbers
<1> QED
  BY <1>1, <1>2, <1>3 DEF Idle, Job, Places

\* The same request, further on.
Alike(i, j) == /\ i.seen = j.seen /\ i.holds = j.holds
               /\ i.next = j.next /\ i.trail = j.trail

LEMMA JobTypes ==
  ASSUME NEW j \in Job
  PROVE  /\ j.at \in Places /\ j.seen \in 0..MaxChanges /\ j.late \in BOOLEAN
         /\ j.next \in Password /\ j.trail \in Seq(Password)
         /\ j.holds \in Credential \cup {NoCredential}
  BY DEF Job

LEMMA AtNext ==
  ASSUME NEW j \in Job, NEW place \in Places
  PROVE  /\ [j EXCEPT !.at = place] \in Job
         /\ [j EXCEPT !.at = place].at = place
         /\ [j EXCEPT !.at = place].late = j.late
         /\ j.joint => [j EXCEPT !.at = place].joint
         /\ Alike([j EXCEPT !.at = place], j)
  BY DEF Job, Alike

LEMMA Told ==
  ASSUME NEW j \in Job
  PROVE  /\ [j EXCEPT !.joint = TRUE] \in Job
         /\ [j EXCEPT !.joint = TRUE].at = j.at
         /\ [j EXCEPT !.joint = TRUE].late = j.late
         /\ [j EXCEPT !.joint = TRUE].joint
         /\ Alike([j EXCEPT !.joint = TRUE], j)
  BY DEF Job, Alike

LEMMA Overrun ==
  ASSUME NEW j \in Job
  PROVE  /\ [j EXCEPT !.late = TRUE] \in Job
         /\ [j EXCEPT !.late = TRUE].at = j.at
         /\ [j EXCEPT !.late = TRUE].late
         /\ j.joint => [j EXCEPT !.late = TRUE].joint
         /\ Alike([j EXCEPT !.late = TRUE], j)
  BY DEF Job, Alike

LEMMA Vetted ==
  ASSUME NEW j \in Job, NEW p \in Password, NEW n \in 0..MaxChanges
  PROVE  /\ [j EXCEPT !.at = "read", !.next = p, !.seen = n] \in Job
         /\ [j EXCEPT !.at = "read", !.next = p, !.seen = n].at = "read"
         /\ [j EXCEPT !.at = "read", !.next = p, !.seen = n].seen = n
         /\ [j EXCEPT !.at = "read", !.next = p, !.seen = n].holds = j.holds
  BY DEF Job, Places

LEMMA Prepared ==
  ASSUME NEW j \in Job, NEW trail \in Seq(Password)
  PROVE  /\ [j EXCEPT !.at = "update", !.trail = trail] \in Job
         /\ [j EXCEPT !.at = "update", !.trail = trail].at = "update"
         /\ [j EXCEPT !.at = "update", !.trail = trail].trail = trail
         /\ [j EXCEPT !.at = "update", !.trail = trail].seen = j.seen
         /\ [j EXCEPT !.at = "update", !.trail = trail].holds = j.holds
         /\ j.joint => [j EXCEPT !.at = "update", !.trail = trail].joint
  BY DEF Job, Places

\* Requests as they begin.
LEMMA Beginnings ==
  /\ \A n \in 0..MaxChanges : /\ [Idle EXCEPT !.at = "compare", !.seen = n] \in Job
                             /\ [Idle EXCEPT !.at = "compare", !.seen = n].at = "compare"
                             /\ [Idle EXCEPT !.at = "compare", !.seen = n].seen = n
                             /\ [Idle EXCEPT !.at = "compare", !.seen = n].holds = NoCredential
  /\ \A place \in {"vet", "revoke"} :
       /\ [Idle EXCEPT !.at = place] \in Job
       /\ [Idle EXCEPT !.at = place].at = place
       /\ [Idle EXCEPT !.at = place].seen = 0
       /\ [Idle EXCEPT !.at = place].holds = NoCredential
<1>1. Idle \in Job /\ Idle.seen = 0 /\ Idle.holds = NoCredential
  BY IdleIsJob DEF Idle
<1> QED
  BY <1>1 DEF Job, Places

\* Requests as they begin with a token: a refresh, and a reset.
Refreshing(n, late) == [Idle EXCEPT !.at = "rotate", !.seen = n, !.late = late]
Resetting == [Idle EXCEPT !.at = "vet"]

Begins(j, c, place, n) == j \in Job /\ j.at = place /\ j.seen = n /\ j.holds = c

LEMMA TokenBeginnings ==
  ASSUME NEW c \in Credential, NEW joint \in BOOLEAN
  PROVE  /\ \A n \in 0..MaxChanges, late \in BOOLEAN :
              /\ Begins([Refreshing(n, late) EXCEPT !.holds = c, !.joint = joint], c, "rotate", n)
              /\ late => [Refreshing(n, late) EXCEPT !.holds = c, !.joint = joint].late
              /\ joint => [Refreshing(n, late) EXCEPT !.holds = c, !.joint = joint].joint
         /\ Begins([Resetting EXCEPT !.holds = c, !.joint = joint], c, "vet", 0)
         /\ joint => [Resetting EXCEPT !.holds = c, !.joint = joint].joint
<1>1. Idle \in Job /\ Idle.seen = 0
  BY IdleIsJob DEF Idle
<1>2. ASSUME NEW n \in 0..MaxChanges, NEW late \in BOOLEAN
      PROVE  /\ Begins([Refreshing(n, late) EXCEPT !.holds = c, !.joint = joint], c, "rotate", n)
             /\ late => [Refreshing(n, late) EXCEPT !.holds = c, !.joint = joint].late
             /\ joint => [Refreshing(n, late) EXCEPT !.holds = c, !.joint = joint].joint
  BY <1>1 DEF Begins, Refreshing, Job, Places
<1>3. /\ Begins([Resetting EXCEPT !.holds = c, !.joint = joint], c, "vet", 0)
      /\ joint => [Resetting EXCEPT !.holds = c, !.joint = joint].joint
  BY <1>1 DEF Begins, Resetting, Job, Places
<1> QED
  BY <1>2, <1>3

\* The history an update writes is of the length allowed.
LEMMA TrailIsShort ==
  ASSUME TypeOK
  PROVE  Trail \in Seq(Password) /\ Len(Trail) <= HistoryLimit
<1> DEFINE longer == <<password>> \o past
           n == SmallerOf(Len(past) + 1, HistoryLimit)
<1>1. longer \in Seq(Password) /\ Len(longer) = Len(past) + 1 /\ Len(past) \in Nat
  BY DEF TypeOK
<1>2. n \in 0..Len(longer) /\ n <= HistoryLimit
  BY <1>1, Numbers DEF SmallerOf
<1>3. SubSeq(longer, 1, n) \in Seq(Password) /\ Len(SubSeq(longer, 1, n)) = n
  BY <1>1, <1>2
<1> QED
  BY <1>2, <1>3 DEF Trail

-----------------------------------------------------------------------------
(* Types *)

TrailsAreShort == \A s \in Slot : job[s].at = "update" => Len(job[s].trail) <= HistoryLimit

LEMMA TypeInit == Init => TypeOK /\ TrailsAreShort
<1> SUFFICES ASSUME Init PROVE TypeOK /\ TrailsAreShort
  OBVIOUS
<1>1. job \in [Slot -> Job] /\ \A s \in Slot : job[s].at = "idle"
  BY IdleIsJob DEF Init, Idle
<1>2. worn \in Seq(Password) /\ epoch = 0
  BY Numbers DEF Init, epoch
<1>3. past \in Seq(Password) /\ Len(past) = 0
  BY DEF Init
<1>4. /\ Len(past) <= HistoryLimit /\ failed \in 0..LockLimit /\ reset \in 0..MaxMails
      /\ issued \in 0..MaxIssued /\ epoch \in 0..MaxChanges /\ cut \in 0..MaxChanges
      /\ misses \in Nat /\ uncounted \in 0..MaxUncounted /\ mails \in 0..MaxMails
  BY <1>2, <1>3, Numbers DEF Init
<1>5. /\ password \in Password /\ locked \in BOOLEAN /\ raced \in BOOLEAN
      /\ store \in SUBSET Entry /\ spent \in SUBSET Credential
  BY Numbers DEF Init
<1> QED
  BY <1>1, <1>2, <1>3, <1>4, <1>5 DEF TypeOK, TrailsAreShort

\* What others see of a request s that comes with credential c.
Hears(o, c) ==
  /\ job'[o].at = job[o].at /\ job'[o].late = job[o].late /\ Alike(job'[o], job[o])
  /\ (job[o].joint \/ job[o].holds = c) => job'[o].joint

Comes(s, c, place, n) ==
  /\ job' \in [Slot -> Job]
  /\ Begins(job'[s], c, place, n)
  /\ (\E o \in Slot \ {s} : job[o].holds = c) => job'[s].joint
  /\ \A o \in Slot \ {s} : Hears(o, c)

LEMMA TellOthers ==
  ASSUME TypeOK, NEW s \in Slot, NEW c, NEW o \in Slot \ {s},
         job'[o] = IF job[o].holds = c THEN [job[o] EXCEPT !.joint = TRUE] ELSE job[o]
  PROVE  Hears(o, c) /\ job'[o] \in Job
<1>1. job[o] \in Job
  BY DEF TypeOK
<1>2. CASE job[o].holds = c
  BY <1>1, <1>2, Told DEF Hears
<1>3. CASE job[o].holds # c
  BY <1>1, <1>3 DEF Alike, Hears
<1> QED
  BY <1>2, <1>3

LEMMA RefreshComes ==
  ASSUME TypeOK, NEW s \in Slot, NEW n \in 1..MaxIssued, BeginRefresh(s, n)
  PROVE  \E x \in Refresh(n) : /\ Comes(s, <<"refresh", n>>, "rotate", x.rests)
                               /\ x.late => job'[s].late
<1> DEFINE c == <<"refresh", n>>
           others == {o \in Slot \ {s} : job[o].holds = c}
           joint == others # {}
<1>1. PICK x \in Refresh(n) :
        job' = [o \in Slot |->
                  CASE o = s -> [Refreshing(x.rests, x.late) EXCEPT !.holds = c, !.joint = joint]
                    [] o \in others -> [job[o] EXCEPT !.joint = TRUE]
                    [] OTHER -> job[o]]
  BY DEF BeginRefresh, Refreshing, TakeUp
<1>2. x.rests \in 0..MaxChanges /\ x.late \in BOOLEAN
  BY <1>1 DEF Refresh, Entry, TypeOK
<1>3. c \in Credential
  BY DEF Credential
<1>4. joint \in BOOLEAN /\ ((\E o \in Slot \ {s} : job[o].holds = c) => joint)
  OBVIOUS
<1> HIDE DEF c, joint
<1>5. \A o \in Slot \ {s} :
        job'[o] = IF job[o].holds = c THEN [job[o] EXCEPT !.joint = TRUE] ELSE job[o]
  BY <1>1
<1>6. /\ Begins(job'[s], c, "rotate", x.rests) /\ (x.late => job'[s].late)
      /\ joint => job'[s].joint
  <2>1. job'[s] = [Refreshing(x.rests, x.late) EXCEPT !.holds = c, !.joint = joint]
    BY <1>1
  <2>2. Begins(job'[s], c, "rotate", x.rests) /\ (joint => job'[s].joint)
    <3>1. \A m \in 0..MaxChanges, late \in BOOLEAN :
            /\ Begins([Refreshing(m, late) EXCEPT !.holds = c, !.joint = joint], c, "rotate", m)
            /\ joint => [Refreshing(m, late) EXCEPT !.holds = c, !.joint = joint].joint
      BY <1>3, <1>4, TokenBeginnings
    <3> QED
      BY <1>2, <2>1, <3>1
  <2>3. job'[s].late = x.late
    BY <2>1 DEF Refreshing, Idle
  <2> QED
    BY <2>2, <2>3
<1>7. \A o \in Slot \ {s} : Hears(o, c) /\ job'[o] \in Job
  BY <1>5, TellOthers
<1>8. job' \in [Slot -> Job]
  <2>1. \A o \in Slot : job'[o] \in Job
    BY <1>6, <1>7 DEF Begins
  <2> QED
    BY <1>1, <2>1
<1>9. Comes(s, c, "rotate", x.rests)
  BY <1>4, <1>6, <1>7, <1>8 DEF Comes
<1> QED
  BY <1>6, <1>9 DEF c

LEMMA ResetComes ==
  ASSUME TypeOK, NEW s \in Slot, BeginReset(s)
  PROVE  Comes(s, <<"reset", reset>>, "vet", 0) /\ <<"reset", reset>> \in Credential
<1> DEFINE c == <<"reset", reset>>
           others == {o \in Slot \ {s} : job[o].holds = c}
           joint == others # {}
<1>1. job' = [o \in Slot |->
                CASE o = s -> [Resetting EXCEPT !.holds = c, !.joint = joint]
                  [] o \in others -> [job[o] EXCEPT !.joint = TRUE]
                  [] OTHER -> job[o]]
  BY DEF BeginReset, Resetting, TakeUp
<1>2. c \in Credential
  BY DEF BeginReset, Credential, TypeOK
<1>3. joint \in BOOLEAN /\ ((\E o \in Slot \ {s} : job[o].holds = c) => joint)
  OBVIOUS
<1> HIDE DEF c, joint
<1>4. \A o \in Slot \ {s} :
        job'[o] = IF job[o].holds = c THEN [job[o] EXCEPT !.joint = TRUE] ELSE job[o]
  BY <1>1
<1>5. Begins(job'[s], c, "vet", 0) /\ (joint => job'[s].joint)
  <2>1. job'[s] = [Resetting EXCEPT !.holds = c, !.joint = joint]
    BY <1>1
  <2> QED
    BY <1>2, <1>3, <2>1, TokenBeginnings
<1>6. \A o \in Slot \ {s} : Hears(o, c) /\ job'[o] \in Job
  BY <1>4, TellOthers
<1>7. job' \in [Slot -> Job]
  <2>1. \A o \in Slot : job'[o] \in Job
    BY <1>5, <1>6 DEF Begins
  <2> QED
    BY <1>1, <2>1
<1>8. Comes(s, c, "vet", 0)
  BY <1>3, <1>5, <1>6, <1>7 DEF Comes
<1> QED
  BY <1>2, <1>8 DEF c

LEMMA RevokeTypes ==
  ASSUME TypeOK, NEW s \in Slot, Revoke(s)
  PROVE  /\ job' \in [Slot -> Job] /\ job'[s] = Idle
         /\ \A o \in Slot \ {s} :
              job'[o] = IF Overtaken(o) THEN [job[o] EXCEPT !.late = TRUE] ELSE job[o]
<1>1. job' = [o \in Slot |-> CASE o = s -> Idle
                              [] o # s /\ Overtaken(o) -> [job[o] EXCEPT !.late = TRUE]
                              [] OTHER -> job[o]]
  BY DEF Revoke
<1>2. \A o \in Slot : job[o] \in Job /\ [job[o] EXCEPT !.late = TRUE] \in Job
  BY Overrun DEF TypeOK
<1> QED
  BY <1>1, <1>2, IdleIsJob

\* The sessions of a login or a refresh s are new, and go back as far as s does.
LEMMA StoreTypes ==
  ASSUME TypeOK, NEW s \in Slot, NEW left \in SUBSET store,
         Store(left, job[s].seen, job[s].late)
  PROVE  /\ issued' = issued + 1 /\ issued' \in 0..MaxIssued
         /\ store' \in SUBSET Entry
         /\ \A x \in store' :
              \/ x \in left
              \/ x.pair = issued + 1 /\ x.rests = job[s].seen /\ (job[s].late => x.late)
<1> DEFINE bearer == [kind |-> "bearer", pair |-> issued + 1,
                      rests |-> job[s].seen, late |-> job[s].late]
           refresh == [bearer EXCEPT !.kind = "refresh"]
<1>1. issued < MaxIssued /\ issued' = issued + 1
      /\ store' = Enforce(Enforce(left \cup {bearer}, AnyKind) \cup {refresh}, {"refresh"})
  BY DEF Store
<1>2. issued + 1 \in 1..MaxIssued /\ job[s].seen \in 0..MaxChanges /\ job[s].late \in BOOLEAN
  BY <1>1, Numbers, JobTypes DEF TypeOK
<1>3. /\ bearer \in Entry /\ refresh \in Entry
      /\ \A x \in {bearer, refresh} :
           x.pair = issued + 1 /\ x.rests = job[s].seen /\ (job[s].late => x.late)
  BY <1>2 DEF Entry
<1>4. store' \subseteq left \cup {bearer, refresh}
  BY <1>1 DEF Enforce
<1>5. left \subseteq Entry
  BY DEF TypeOK
<1> HIDE DEF bearer, refresh
<1>6. /\ store' \in SUBSET Entry
      /\ \A x \in store' :
           \/ x \in left
           \/ x.pair = issued + 1 /\ x.rests = job[s].seen /\ (job[s].late => x.late)
  BY <1>3, <1>4, <1>5
<1>7. issued' \in 0..MaxIssued
  BY <1>1, <1>2
<1> QED
  BY <1>1, <1>6, <1>7

\* Next, one actor at a time.
Requests(s) ==
  \/ BeginLogin(s) \/ WrongPassword(s) \/ RightPassword(s) \/ FinishLogin(s)
  \/ \E n \in 1..MaxIssued : BeginRefresh(s, n)
  \/ Rotate(s) \/ BeginChange(s) \/ BeginReset(s)
  \/ \E p \in Password : Vet(s, p)
  \/ ReadPast(s) \/ Update(s) \/ Revoke(s) \/ Reject(s)

Logouts == \E pairs \in Seconds, n \in 0..MaxIssued : Logout(pairs, n)

LEMMA NextActors ==
  ASSUME Next
  PROVE  (\E s \in Slot : Requests(s)) \/ Logouts \/ MailReset \/ LockLapses \/ Restart
  BY DEF Next, Serve, Requests, Logouts

LEMMA TypeStep ==
  ASSUME TypeOK, TrailsAreShort, [Next]_vars
  PROVE  TypeOK' /\ TrailsAreShort'
<1> USE DEF TypeOK, TrailsAreShort, user, tokens, ages
<1>1. CASE UNCHANGED vars
  BY <1>1 DEF vars, epoch
<1>2. ASSUME NEW s \in Slot, Requests(s)
      PROVE  TypeOK' /\ TrailsAreShort'
  <2> USE DEF Put, Leave
  <2>j. job[s] \in Job
    OBVIOUS
  <2>0. ASSUME NEW j \in Job, job' = [job EXCEPT ![s] = j], j.at # "update"
        PROVE  job' \in [Slot -> Job] /\ TrailsAreShort'
    BY <2>0
  <2>i. Idle \in Job /\ Idle.at # "update"
    BY IdleIsJob DEF Idle
  <2>1. CASE BeginLogin(s)
    <3> DEFINE j == [Idle EXCEPT !.at = "compare", !.seen = epoch]
    <3>1. j \in Job /\ j.at # "update"
      BY IdleIsJob DEF Idle, Job, Places
    <3>2. job' = [job EXCEPT ![s] = j]
      BY <2>1 DEF BeginLogin
    <3> HIDE DEF j
    <3> QED
      BY <2>0, <2>1, <3>1, <3>2 DEF BeginLogin, epoch
  <2>2. CASE WrongPassword(s)
    <3>1. failed' \in 0..LockLimit /\ misses' \in Nat /\ locked' \in BOOLEAN
      BY <2>2, Numbers DEF WrongPassword, AddOne
    <3> QED
      BY <2>0, <2>i, <2>2, <3>1 DEF WrongPassword, epoch
  <2>3. CASE RightPassword(s)
    <3> DEFINE j == [job[s] EXCEPT !.at = "stamp"]
    <3>1. j \in Job /\ j.at # "update"
      BY <2>j, AtNext DEF Places
    <3>2. job' = [job EXCEPT ![s] = j]
      BY <2>3 DEF RightPassword
    <3> HIDE DEF j
    <3> QED
      <4>1. job' \in [Slot -> Job] /\ TrailsAreShort'
        BY <2>0, <3>1, <3>2
      <4>2. /\ failed' \in 0..LockLimit /\ locked' \in BOOLEAN
            /\ misses' \in Nat /\ uncounted' \in 0..MaxUncounted
        <5>1. failed' = 0 /\ misses' = 0 /\ uncounted' = 0 /\ locked' = FALSE
          BY <2>3 DEF RightPassword
        <5>2. 0 \in 0..LockLimit /\ 0 \in 0..MaxUncounted
          BY Numbers
        <5> QED
          BY <5>1, <5>2
      <4> QED
        BY <2>3, <4>1, <4>2 DEF RightPassword, epoch
  <2>4. CASE FinishLogin(s)
    <3>1. store' \in SUBSET Entry /\ issued' \in 0..MaxIssued
      <4>1. job[s].seen \in 0..MaxChanges /\ job[s].late \in BOOLEAN
        BY <2>j, JobTypes
      <4>2. PICK left \in SUBSET store : Store(left, job[s].seen, job[s].late)
        BY <2>4 DEF FinishLogin
      <4> QED
        BY <4>1, <4>2, StoreTypes
    <3> QED
      BY <2>0, <2>i, <2>4, <3>1 DEF FinishLogin, epoch
  <2>5. ASSUME NEW n \in 1..MaxIssued, BeginRefresh(s, n)
        PROVE  TypeOK' /\ TrailsAreShort'
    <3>1. PICK rests : Comes(s, <<"refresh", n>>, "rotate", rests)
      BY <2>5, RefreshComes
    <3> QED
      BY <2>5, <3>1 DEF BeginRefresh, Comes, Begins, Hears, Alike, epoch
  <2>6. CASE Rotate(s)
    <3>1. store' \in SUBSET Entry /\ issued' \in 0..MaxIssued
      <4>1. job[s].seen \in 0..MaxChanges /\ job[s].late \in BOOLEAN
        BY <2>j, JobTypes
      <4>2. PICK left \in SUBSET store : Store(left, job[s].seen, job[s].late)
        BY <2>6 DEF Rotate
      <4> QED
        BY <4>1, <4>2, StoreTypes
    <3>2. spent' \in SUBSET Credential
      BY <2>j, <2>6, JobTypes DEF Rotate, Exchange
    <3> QED
      BY <2>0, <2>i, <2>6, <3>1, <3>2 DEF Rotate, epoch
  <2>7. CASE BeginChange(s)
    <3> DEFINE j == [Idle EXCEPT !.at = "vet"]
    <3>1. j \in Job /\ j.at # "update"
      BY IdleIsJob, AtNext DEF Places
    <3>2. job' = [job EXCEPT ![s] = j]
      BY <2>7 DEF BeginChange
    <3> HIDE DEF j
    <3> QED
      BY <2>0, <2>7, <3>1, <3>2 DEF BeginChange, epoch
  <2>8. CASE BeginReset(s)
    <3>1. Comes(s, <<"reset", reset>>, "vet", 0)
      BY <2>8, ResetComes
    <3> QED
      BY <2>8, <3>1 DEF BeginReset, Comes, Begins, Hears, Alike, epoch
  <2>9. ASSUME NEW p \in Password, Vet(s, p)
        PROVE  TypeOK' /\ TrailsAreShort'
    <3> DEFINE j == [job[s] EXCEPT !.at = "read", !.next = p, !.seen = epoch]
    <3>1. j \in Job /\ j.at # "update"
      BY <2>j, Vetted
    <3>2. job' = [job EXCEPT ![s] = j]
      BY <2>9 DEF Vet
    <3> HIDE DEF j
    <3> QED
      BY <2>0, <2>9, <3>1, <3>2 DEF Vet, epoch
  <2>10. CASE ReadPast(s)
    <3> DEFINE j == [job[s] EXCEPT !.at = "update", !.trail = Trail]
    <3>1. j \in Job /\ Len(j.trail) <= HistoryLimit
      BY <2>j, Prepared, TrailIsShort
    <3>2. job' = [job EXCEPT ![s] = j]
      BY <2>10 DEF ReadPast
    <3> HIDE DEF j
    <3> QED
      BY <2>10, <3>1, <3>2 DEF ReadPast, epoch
  <2>11. CASE Update(s)
    <3>1. /\ password' \in Password /\ past' \in Seq(Password) /\ Len(past') <= HistoryLimit
          /\ reset' \in 0..MaxMails
      <4>1. job[s].next \in Password /\ job[s].trail \in Seq(Password) /\ job[s].at = "update"
        BY <2>j, <2>11, JobTypes DEF Update
      <4>2. password' = job[s].next /\ past' = job[s].trail /\ reset' = 0
        BY <2>11 DEF Update
      <4>3. 0 \in 0..MaxMails
        BY Numbers
      <4> QED
        BY <4>1, <4>2, <4>3
    <3>2. worn' \in Seq(Password) /\ Len(worn') = Len(worn) + 1 /\ Len(worn) \in Nat
      <4>1. job[s].next \in Password /\ worn \in Seq(Password)
        BY <2>j, JobTypes
      <4>2. worn' = <<job[s].next>> \o worn
        BY <2>11 DEF Update
      <4> QED
        BY <4>1, <4>2
    <3>3. epoch' = epoch + 1 /\ epoch' \in 0..MaxChanges
      BY <2>11, <3>2, Numbers DEF Update, epoch
    <3>4. cut' \in 0..MaxChanges
      BY <2>11, <3>3 DEF Update
    <3>5. job' \in [Slot -> Job] /\ TrailsAreShort'
      <4>1. [Idle EXCEPT !.at = "revoke"] \in Job /\ [Idle EXCEPT !.at = "revoke"].at # "update"
        BY IdleIsJob, AtNext DEF Places
      <4> QED
        BY <2>0, <2>i, <2>11, <4>1 DEF Update
    <3>6. spent' \in SUBSET Credential
      BY <2>j, <2>11, JobTypes DEF Update, Exchange
    <3> QED
      BY <2>11, <3>1, <3>2, <3>3, <3>4, <3>5, <3>6 DEF Update
  <2>12. CASE Revoke(s)
    <3>1. job' \in [Slot -> Job] /\ \A o \in Slot : job'[o].at = "update" =>
                                       job[o].at = "update" /\ job'[o].trail = job[o].trail
      BY <2>i, <2>12, RevokeTypes, Overrun DEF Alike
    <3>2. store' \in SUBSET Entry /\ cut' \in 0..MaxChanges
      BY <2>12, Numbers DEF Revoke
    <3> QED
      BY <2>12, <3>1, <3>2 DEF Revoke, epoch
  <2>13. CASE Reject(s)
    <3>1. misses' \in Nat /\ uncounted' \in 0..MaxUncounted
      BY <2>13, Numbers DEF Reject
    <3> QED
      BY <2>0, <2>i, <2>13, <3>1 DEF Reject, epoch
  <2> QED
    BY <1>2, <2>1, <2>2, <2>3, <2>4, <2>5, <2>6, <2>7, <2>8, <2>9, <2>10, <2>11,
       <2>12, <2>13 DEF Requests
<1>3. CASE Logouts
  BY <1>3 DEF Logouts, Logout, epoch
<1>4. CASE MailReset
  BY <1>4, Numbers DEF MailReset, epoch
<1>5. CASE LockLapses
  <2>1. misses' \in Nat /\ uncounted' \in 0..MaxUncounted
    BY <1>5, Numbers DEF LockLapses
  <2> QED
    BY <1>5, <2>1 DEF LockLapses, epoch
<1>6. CASE Restart
  <2>1. job' \in [Slot -> Job] /\ TrailsAreShort'
    BY <1>6, IdleIsJob DEF Restart, Idle
  <2> QED
    BY <1>6, <2>1, Numbers DEF Restart, epoch
<1> QED
  BY <1>1, <1>2, <1>3, <1>4, <1>5, <1>6, NextActors

-----------------------------------------------------------------------------
(* Sessions and passwords *)

\* What goes back to an earlier password is excused.
Excused(rests) ==
  rests < epoch => (\E s \in Slot : job[s].at = "revoke") \/ rests < cut

\* Requests that can still store a session are excused like sessions are, and
\* nothing goes back to a password to come. SessionsRestOnPassword is not
\* inductive without it.
RestInv ==
  /\ \A s \in Slot :
       /\ job[s].seen <= epoch
       /\ job[s].at \in {"compare", "stamp", "rotate"} => job[s].late \/ Excused(job[s].seen)
  /\ \A x \in store :
       /\ x.rests <= epoch
       /\ x.late \/ Excused(x.rests)

LEMMA RestInvRests == TypeOK /\ RestInv => SessionsRestOnPassword
  BY DEF RestInv, SessionsRestOnPassword, Excused

LEMMA RestStep ==
  ASSUME TypeOK, TypeOK', RestInv, [Next]_vars
  PROVE  RestInv'
<1>e. UNCHANGED worn => epoch' = epoch
  BY DEF epoch
<1>n. /\ epoch \in 0..MaxChanges /\ epoch \in Nat /\ cut \in 0..MaxChanges /\ MaxChanges \in Nat
      /\ \A s \in Slot : job[s] \in Job /\ job[s].seen \in Nat /\ job[s].late \in BOOLEAN
  BY Numbers, JobTypes DEF TypeOK
<1>s. epoch \in Nat /\ \A s \in Slot : job[s].seen \in Nat /\ job[s].seen <= epoch
  BY <1>n DEF RestInv
<1>x. \A x \in store : x.rests \in 0..MaxChanges /\ x.rests \in Nat /\ x.late \in BOOLEAN
  BY Numbers DEF TypeOK, Entry
<1>i. Idle \in Job /\ Idle.at = "idle" /\ Idle.seen = 0
  BY IdleIsJob DEF Idle
<1>c. Excused(epoch)
  BY <1>n DEF Excused
<1>r. ASSUME UNCHANGED <<worn, cut>>,
             \A s \in Slot : job[s].at = "revoke" => job'[s].at = "revoke"
      PROVE  /\ epoch' = epoch
             /\ \A rests : Excused(rests) => Excused(rests)'
  <2>1. epoch' = epoch
    BY <1>e, <1>r
  <2> QED
    BY <1>r, <2>1 DEF Excused
<1> USE DEF RestInv
<1>1. CASE UNCHANGED <<store, job, worn, cut>>
  BY <1>1, <1>r
<1>2. ASSUME NEW s \in Slot, \A o \in Slot \ {s} : job'[o] = job[o],
             job'[s].seen <= epoch,
             job'[s].at \in {"compare", "stamp", "rotate"} =>
               job'[s].late \/ Excused(job'[s].seen),
             job[s].at # "revoke", UNCHANGED worn, UNCHANGED cut,
             \A x \in store' : \/ x \in store
                               \/ x.rests <= epoch /\ (x.late \/ Excused(x.rests))
      PROVE  RestInv'
  <2>1. /\ epoch' = epoch
        /\ \A rests : Excused(rests) => Excused(rests)'
    BY <1>2, <1>r
  <2> QED
    BY <1>2, <2>1
<1>3. ASSUME NEW s \in Slot, Requests(s)
      PROVE  RestInv'
  <2> USE DEF Put, Leave, user, tokens, ages
  <2>0. ASSUME NEW j, job' = [job EXCEPT ![s] = j]
        PROVE  job'[s] = j /\ \A o \in Slot \ {s} : job'[o] = job[o]
    BY <2>0 DEF TypeOK
  <2>1. CASE BeginLogin(s)
    <3>1. /\ job'[s].at = "compare" /\ job'[s].seen = epoch
          /\ \A o \in Slot \ {s} : job'[o] = job[o]
      BY <1>n, <2>0, <2>1, Beginnings DEF BeginLogin
    <3>2. job[s].at = "idle" /\ UNCHANGED store /\ UNCHANGED worn /\ UNCHANGED cut
      BY <2>1 DEF BeginLogin
    <3> QED
      BY <1>2, <1>c, <1>n, <3>1, <3>2
  <2>2. CASE WrongPassword(s) \/ BeginChange(s) \/ Reject(s)
    <3>1. /\ job'[s].at \in {"idle", "vet"} /\ job'[s].seen = 0
          /\ \A o \in Slot \ {s} : job'[o] = job[o]
      BY <1>i, <2>0, <2>2, Beginnings DEF WrongPassword, BeginChange, Reject
    <3>2. job[s].at # "revoke" /\ UNCHANGED store /\ UNCHANGED worn /\ UNCHANGED cut
      BY <2>2 DEF WrongPassword, BeginChange, Reject
    <3> QED
      BY <1>2, <1>n, <3>1, <3>2
  <2>3. CASE RightPassword(s)
    <3>1. job' = [job EXCEPT ![s] = [job[s] EXCEPT !.at = "stamp"]]
      BY <2>3 DEF RightPassword
    <3>2. /\ job'[s].seen = job[s].seen /\ job'[s].late = job[s].late
          /\ \A o \in Slot \ {s} : job'[o] = job[o]
      BY <1>n, <2>0, <3>1, AtNext DEF Places, Alike
    <3>3. job[s].at = "compare" /\ UNCHANGED store /\ UNCHANGED worn /\ UNCHANGED cut
      BY <2>3 DEF RightPassword
    <3> QED
      BY <1>2, <3>2, <3>3
  <2>4. CASE FinishLogin(s) \/ Rotate(s)
    <3>1. PICK left \in SUBSET store : Store(left, job[s].seen, job[s].late)
      BY <2>4 DEF FinishLogin, Rotate
    <3>3. \A x \in store' : x \in store \/ (x.rests = job[s].seen /\ (job[s].late => x.late))
      BY <3>1, StoreTypes
    <3>4. job[s].at \in {"stamp", "rotate"} /\ UNCHANGED worn /\ UNCHANGED cut
      BY <2>4 DEF FinishLogin, Rotate
    <3>5. \A x \in store' : \/ x \in store
                            \/ x.rests <= epoch /\ (x.late \/ Excused(x.rests))
      BY <3>3, <3>4
    <3>6. job'[s] = Idle /\ \A o \in Slot \ {s} : job'[o] = job[o]
      BY <2>0, <2>4 DEF FinishLogin, Rotate
    <3> QED
      BY <1>2, <1>i, <1>n, <3>4, <3>5, <3>6
  <2>5. ASSUME NEW n \in 1..MaxIssued, BeginRefresh(s, n) PROVE RestInv'
    <3>1. PICK x \in store : /\ Comes(s, <<"refresh", n>>, "rotate", x.rests)
                             /\ x.late => job'[s].late
      BY <2>5, RefreshComes DEF Refresh
    <3>2. job[s].at = "idle" /\ UNCHANGED store /\ UNCHANGED worn /\ UNCHANGED cut
      BY <2>5 DEF BeginRefresh
    <3> QED
      BY <1>r, <3>1, <3>2 DEF Comes, Begins, Hears, Alike
  <2>6. CASE BeginReset(s)
    <3>1. Comes(s, <<"reset", reset>>, "vet", 0)
      BY <2>6, ResetComes
    <3>2. job[s].at = "idle" /\ UNCHANGED store /\ UNCHANGED worn /\ UNCHANGED cut
      BY <2>6 DEF BeginReset
    <3> QED
      BY <1>n, <1>r, <3>1, <3>2 DEF Comes, Begins, Hears, Alike
  <2>7. ASSUME NEW p \in Password, Vet(s, p) PROVE RestInv'
    <3>1. job' = [job EXCEPT ![s] = [job[s] EXCEPT !.at = "read", !.next = p, !.seen = epoch]]
      BY <2>7 DEF Vet
    <3>2. /\ job'[s].at = "read" /\ job'[s].seen = epoch
          /\ \A o \in Slot \ {s} : job'[o] = job[o]
      <4>1. /\ job'[s] = [job[s] EXCEPT !.at = "read", !.next = p, !.seen = epoch]
            /\ \A o \in Slot \ {s} : job'[o] = job[o]
        BY <2>0, <3>1
      <4>2. job[s] \in Job /\ epoch \in 0..MaxChanges
        BY <1>n
      <4>3. job'[s].at = "read" /\ job'[s].seen = epoch
        BY <4>1, <4>2 DEF Job
      <4> QED
        BY <4>1, <4>3
    <3>3. job[s].at = "vet" /\ UNCHANGED store /\ UNCHANGED worn /\ UNCHANGED cut
      BY <2>7 DEF Vet
    <3> QED
      BY <1>2, <1>n, <3>2, <3>3
  <2>8. CASE ReadPast(s)
    <3>1. job' = [job EXCEPT ![s] = [job[s] EXCEPT !.at = "update", !.trail = Trail]]
      BY <2>8 DEF ReadPast
    <3>2. /\ job'[s].at = "update" /\ job'[s].seen = job[s].seen
          /\ \A o \in Slot \ {s} : job'[o] = job[o]
      <4>1. \A j \in Job : /\ [j EXCEPT !.at = "update", !.trail = Trail].at = "update"
                           /\ [j EXCEPT !.at = "update", !.trail = Trail].seen = j.seen
        BY Prepared, TrailIsShort
      <4> QED
        BY <1>n, <2>0, <3>1, <4>1
    <3>3. job[s].at = "read" /\ UNCHANGED store /\ UNCHANGED worn /\ UNCHANGED cut
      BY <2>8 DEF ReadPast
    <3> QED
      BY <1>2, <3>2, <3>3
  <2>9. CASE Update(s)
    <3>1. epoch' = epoch + 1 /\ store' = store
      <4>1. worn \in Seq(Password) /\ worn' = <<job[s].next>> \o worn /\ job[s].next \in Password
        BY <1>n, <2>9, JobTypes DEF Update, TypeOK
      <4>2. Len(worn') = Len(worn) + 1 /\ Len(worn) \in Nat
        BY <4>1
      <4> QED
        BY <2>9, <4>2 DEF Update, epoch
    <3>2. \/ job' = [job EXCEPT ![s] = [Idle EXCEPT !.at = "revoke"]] /\ cut' = cut
          \/ job' = [job EXCEPT ![s] = Idle] /\ cut' = epoch + 1
      BY <2>9 DEF Update
    <3>3. [Idle EXCEPT !.at = "revoke"].at = "revoke" /\ [Idle EXCEPT !.at = "revoke"].seen = 0
      BY DEF Idle
    <3>4. (\E o \in Slot : job'[o].at = "revoke") \/ cut' = epoch'
      BY <3>1, <3>2, <3>3 DEF TypeOK
    <3>5. \A o \in Slot : job'[o].seen \in {0, job[o].seen}
      BY <1>i, <3>2, <3>3 DEF TypeOK
    <3>6. \A rests \in 0..epoch : Excused(rests)'
      BY <1>n, <3>1, <3>4 DEF Excused
    <3>7. \A o \in Slot : job'[o].seen \in 0..epoch
      BY <1>n, <3>5
    <3>8. \A x \in store' : x.rests \in 0..epoch
      BY <1>n, <1>x, <3>1
    <3> QED
      BY <1>n, <3>1, <3>6, <3>7, <3>8
  <2>10. CASE Revoke(s)
    <3>1. /\ job'[s] = Idle
          /\ \A o \in Slot \ {s} :
               job'[o] = IF Overtaken(o) THEN [job[o] EXCEPT !.late = TRUE] ELSE job[o]
      BY <2>10, RevokeTypes
    <3>2. \A o \in Slot \ {s} :
            /\ job'[o].at = job[o].at /\ job'[o].seen = job[o].seen
            /\ Overtaken(o) => job'[o].late
      BY <1>n, <3>1, Overrun DEF Alike
    <3>3. store' = {} /\ UNCHANGED worn
      BY <2>10 DEF Revoke
    <3> QED
      <4>1. epoch' = epoch
        BY <1>e, <3>3
      <4>2. \A o \in Slot \ {s} : job'[o].at \in {"compare", "stamp", "rotate"} =>
              job'[o].late \/ job'[o].seen >= epoch
        BY <1>s, <3>2 DEF Overtaken
      <4>3. \A o \in Slot \ {s} : job'[o].seen <= epoch /\ job'[o].seen \in Nat
        BY <1>s, <3>2
      <4>4. job'[s].at = "idle" /\ job'[s].seen = 0
        BY <1>i, <3>1
      <4>5. \A o \in Slot : /\ job'[o].seen <= epoch'
                            /\ job'[o].at \in {"compare", "stamp", "rotate"} =>
                                 job'[o].late \/ job'[o].seen >= epoch'
        BY <1>n, <4>1, <4>2, <4>3, <4>4
      <4> QED
        BY <1>n, <3>3, <4>1, <4>3, <4>4, <4>5 DEF Excused
  <2> QED
    BY <1>3, <2>1, <2>2, <2>3, <2>4, <2>5, <2>6, <2>7, <2>8, <2>9, <2>10 DEF Requests
<1>4. CASE Logouts
  <2>1. store' \subseteq store /\ UNCHANGED job /\ UNCHANGED <<worn, cut>>
    BY <1>4 DEF Logouts, Logout, ages
  <2> QED
    BY <1>r, <2>1
<1>5. CASE MailReset \/ LockLapses
  BY <1>1, <1>5 DEF MailReset, LockLapses, tokens, ages
<1>6. CASE Restart
  <2>1. job' = [s \in Slot |-> Idle] /\ store' = {} /\ UNCHANGED worn
    BY <1>6 DEF Restart
  <2> QED
    BY <1>e, <1>i, <1>n, <2>1
<1> QED
  BY <1>1, <1>3, <1>4, <1>5, <1>6, NextActors DEF vars, tokens, ages

-----------------------------------------------------------------------------
(* Tokens *)

LEMMA CredentialsAre ==
  /\ NoCredential \notin Credential /\ NoCredential[1] = "password"
  /\ \A c \in Credential : c[1] \in {"refresh", "reset"} /\ c[2] \in Nat \ {0}
  BY Numbers DEF Credential, NoCredential

\* A token that has been exchanged is not to be had any more.
Gone(c) ==
  /\ c[1] = "refresh" => c[2] <= issued /\ Refresh(c[2]) = {}
  /\ c[1] = "reset" => c[2] <= mails /\ c[2] # reset

\* Requests hold tokens that have been issued, of the kind they exchange.
Held(s) ==
  /\ job[s].at = "rotate" => job[s].holds[1] = "refresh"
  /\ job[s].at \in {"vet", "read", "update"} => job[s].holds[1] # "refresh"
  /\ job[s].holds[1] = "refresh" => job[s].holds[2] <= issued
  /\ job[s].holds[1] = "reset" => job[s].holds[2] <= mails

\* ExchangedOnce is not inductive without these.
TokenInv ==
  /\ ExchangedOnce
  /\ \A c \in spent : Gone(c)
  /\ \A s \in Slot : Held(s)
  /\ \A s, o \in Slot : s # o /\ job[s].holds = job[o].holds /\ job[s].holds # NoCredential =>
                          job[s].joint
  /\ \A x \in store : x.pair <= issued
  /\ reset <= mails

LEMMA TokenStep ==
  ASSUME TypeOK, TypeOK', TokenInv, [Next]_vars
  PROVE  TokenInv'
<1>n. /\ issued \in Nat /\ mails \in Nat /\ reset \in Nat /\ spent \subseteq Credential
      /\ \A s \in Slot : job[s] \in Job /\ job[s].holds \in Credential \cup {NoCredential}
      /\ \A x \in store : x.pair \in Nat
  BY Numbers, JobTypes DEF TypeOK, Entry
<1>i. Idle \in Job /\ Idle.at = "idle" /\ Idle.holds = NoCredential
  BY IdleIsJob DEF Idle
<1>g. ASSUME NEW c \in spent, store' \subseteq store, UNCHANGED issued, UNCHANGED mails,
             reset' \in {0, reset}
      PROVE  Gone(c)'
  BY <1>g, <1>n, CredentialsAre DEF Gone, Refresh, TokenInv
<1> USE DEF TokenInv, ExchangedOnce
<1>1. ASSUME NEW s \in Slot, \A o \in Slot \ {s} : job'[o] = job[o], Held(s)',
             issued <= issued', mails <= mails', issued' \in Nat, mails' \in Nat,
             job'[s].holds # NoCredential =>
               job'[s].holds = job[s].holds /\ (job[s].joint => job'[s].joint),
             \A c \in spent' : Gone(c)' /\ c # NoCredential /\ c \in spent \cup {job[s].holds},
             job'[s].holds = NoCredential \/ spent' \subseteq spent,
             \A x \in store' : x.pair <= issued',
             reset' <= mails'
      PROVE  TokenInv'
  <2>1. \A o \in Slot \ {s} : Held(o)'
    <3>1. \A o \in Slot \ {s} : Held(o) /\ job'[o] = job[o]
      BY <1>1
    <3>2. \A o \in Slot \ {s} : /\ job[o].holds[1] = "refresh" => job[o].holds[2] \in Nat
                                /\ job[o].holds[1] = "reset" => job[o].holds[2] \in Nat
      BY <1>n, CredentialsAre
    <3> QED
      BY <1>1, <1>n, <3>1, <3>2 DEF Held
  <2>2. ExchangedOnce'
    BY <1>1
  <2>3. \A o, u \in Slot : o # u /\ job'[o].holds = job'[u].holds /\ job'[o].holds # NoCredential =>
                             job'[o].joint
    BY <1>1
  <2> QED
    BY <1>1, <2>1, <2>2, <2>3
<1>2. ASSUME NEW s \in Slot, NEW c \in Credential, NEW place, NEW n, Comes(s, c, place, n),
             Held(s)', c \notin spent, UNCHANGED <<store, issued, spent, mails, reset>>
      PROVE  TokenInv'
  <2>1. \A o \in Slot \ {s} : /\ job'[o].at = job[o].at /\ job'[o].holds = job[o].holds
                              /\ (job[o].joint \/ job[o].holds = c) => job'[o].joint
    BY <1>2 DEF Comes, Hears, Alike
  <2>2. /\ job'[s].holds = c
        /\ (\E o \in Slot \ {s} : job[o].holds = c) => job'[s].joint
    BY <1>2 DEF Comes, Begins
  <2>3. \A o \in Slot \ {s} : Held(o)'
    BY <1>2, <2>1 DEF Held
  <2>4. \A d \in spent' : Gone(d)'
    BY <1>2, <1>g
  <2>5. ExchangedOnce'
    BY <1>2, <2>1, <2>2
  <2>6. \A o, u \in Slot : o # u /\ job'[o].holds = job'[u].holds /\ job'[o].holds # NoCredential =>
                             job'[o].joint
    BY <2>1, <2>2
  <2> QED
    BY <1>2, <2>3, <2>4, <2>5, <2>6
<1>3. ASSUME NEW s \in Slot, Requests(s)
      PROVE  TokenInv'
  <2> USE DEF Put, Leave, user, tokens
  <2>0. ASSUME NEW j, job' = [job EXCEPT ![s] = j]
        PROVE  job'[s] = j /\ \A o \in Slot \ {s} : job'[o] = job[o]
    BY <2>0 DEF TypeOK
  <2>h. \A o \in Slot : job'[o].holds = NoCredential /\ job'[o].at # "rotate" => Held(o)'
    BY CredentialsAre DEF Held
  <2>1. CASE \/ BeginLogin(s) \/ WrongPassword(s) \/ BeginChange(s) \/ Reject(s)
    <3>1. /\ job'[s].at # "rotate" /\ job'[s].holds = NoCredential
          /\ \A o \in Slot \ {s} : job'[o] = job[o]
      <4>1. /\ epoch \in 0..MaxChanges
            /\ \/ job' = [job EXCEPT ![s] = Idle]
               \/ job' = [job EXCEPT ![s] = [Idle EXCEPT !.at = "vet"]]
               \/ job' = [job EXCEPT ![s] = [Idle EXCEPT !.at = "compare", !.seen = epoch]]
        BY <2>1 DEF BeginLogin, WrongPassword, BeginChange, Reject, TypeOK
      <4>2. /\ [Idle EXCEPT !.at = "vet"].at = "vet"
            /\ [Idle EXCEPT !.at = "vet"].holds = NoCredential
            /\ [Idle EXCEPT !.at = "compare", !.seen = epoch].at = "compare"
            /\ [Idle EXCEPT !.at = "compare", !.seen = epoch].holds = NoCredential
        BY <4>1, Beginnings
      <4> QED
        BY <1>i, <2>0, <4>1, <4>2
    <3>2. UNCHANGED <<store, issued, spent, mails, reset>>
      BY <2>1 DEF BeginLogin, WrongPassword, BeginChange, Reject
    <3>3. \A c \in spent' : Gone(c)' /\ c # NoCredential /\ c \in spent
      BY <1>g, <1>n, <3>2, CredentialsAre
    <3> QED
      BY <1>1, <1>n, <2>h, <3>1, <3>2, <3>3
  <2>2. ASSUME NEW p \in Password, RightPassword(s) \/ Vet(s, p) \/ ReadPast(s) PROVE TokenInv'
    <3>1. /\ job'[s].holds = job[s].holds /\ (job[s].joint => job'[s].joint)
          /\ job'[s].at \in {"stamp", "read", "update"}
          /\ job'[s].at = "stamp" => job[s].at = "compare"
          /\ job'[s].at # "stamp" => job[s].at \in {"vet", "read"}
          /\ \A o \in Slot \ {s} : job'[o] = job[o]
      <4>1. CASE RightPassword(s)
        <5>1. job' = [job EXCEPT ![s] = [job[s] EXCEPT !.at = "stamp"]] /\ job[s].at = "compare"
          BY <4>1 DEF RightPassword
        <5>2. /\ job'[s] = [job[s] EXCEPT !.at = "stamp"]
              /\ \A o \in Slot \ {s} : job'[o] = job[o]
          BY <2>0, <5>1
        <5>3. "stamp" \in Places /\ job[s] \in Job
          BY <1>n DEF Places
        <5>4. /\ job'[s].at = "stamp" /\ job'[s].holds = job[s].holds
              /\ job[s].joint => job'[s].joint
          BY <5>2, <5>3, AtNext DEF Alike
        <5> QED
          BY <5>1, <5>2, <5>4
      <4>2. CASE Vet(s, p)
        <5>1. /\ job' = [job EXCEPT ![s] = [job[s] EXCEPT !.at = "read", !.next = p, !.seen = epoch]]
              /\ job[s].at = "vet" /\ epoch \in 0..MaxChanges
          BY <4>2 DEF Vet, TypeOK
        <5>2. /\ job'[s] = [job[s] EXCEPT !.at = "read", !.next = p, !.seen = epoch]
              /\ \A o \in Slot \ {s} : job'[o] = job[o]
          BY <2>0, <5>1
        <5>3. job[s] \in Job
          BY <1>n
        <5>4. /\ job'[s].at = "read" /\ job'[s].holds = job[s].holds
              /\ job[s].joint => job'[s].joint
          BY <5>2, <5>3 DEF Job
        <5> QED
          BY <5>1, <5>2, <5>4
      <4>3. CASE ReadPast(s)
        <5>1. /\ job' = [job EXCEPT ![s] = [job[s] EXCEPT !.at = "update", !.trail = Trail]]
              /\ job[s].at = "read"
          BY <4>3 DEF ReadPast
        <5>2. \A j \in Job : /\ [j EXCEPT !.at = "update", !.trail = Trail].at = "update"
                             /\ [j EXCEPT !.at = "update", !.trail = Trail].holds = j.holds
                             /\ j.joint => [j EXCEPT !.at = "update", !.trail = Trail].joint
          BY Prepared, TrailIsShort
        <5> QED
          BY <1>n, <2>0, <5>1, <5>2
      <4> QED
        BY <2>2, <4>1, <4>2, <4>3
    <3>2. UNCHANGED <<store, issued, spent, mails, reset>>
      BY <2>2 DEF RightPassword, Vet, ReadPast
    <3>3. \A c \in spent' : Gone(c)' /\ c # NoCredential /\ c \in spent
      BY <1>g, <1>n, <3>2, CredentialsAre
    <3>4. Held(s)'
      <4>1. Held(s)
        OBVIOUS
      <4> QED
        BY <3>1, <3>2, <4>1 DEF Held
    <3> QED
      BY <1>1, <1>n, <3>1, <3>2, <3>3, <3>4
  <2>3. CASE FinishLogin(s) \/ Rotate(s)
    <3>1. PICK left \in SUBSET store :
            /\ Store(left, job[s].seen, job[s].late)
            /\ Rotate(s) => left = store \ Refresh(job[s].holds[2])
      BY <2>3 DEF FinishLogin, Rotate
    <3>2. /\ issued' = issued + 1
          /\ \A x \in store' : x \in left \/ x.pair = issued + 1
      BY <3>1, StoreTypes
    <3>3. job'[s] = Idle /\ \A o \in Slot \ {s} : job'[o] = job[o]
      BY <2>0, <2>3 DEF FinishLogin, Rotate
    <3>4. UNCHANGED <<mails, reset>>
      BY <2>3 DEF FinishLogin, Rotate
    <3>5. \A c \in spent' : /\ c # NoCredential /\ c \in spent \cup {job[s].holds}
                            /\ c \in spent \/ Rotate(s)
      BY <1>n, <2>3, CredentialsAre DEF FinishLogin, Rotate, Exchange
    <3>6. \A c \in spent : Gone(c)'
      <4>1. ASSUME NEW c \in spent, c[1] = "refresh" PROVE Gone(c)'
        <5>1. c[2] \in Nat /\ c[2] <= issued /\ Refresh(c[2]) = {}
          BY <1>n, <4>1, CredentialsAre DEF Gone
        <5> QED
          BY <1>n, <3>1, <3>2, <4>1, <5>1 DEF Gone, Refresh
      <4>2. ASSUME NEW c \in spent, c[1] # "refresh" PROVE Gone(c)'
        BY <3>4, <4>2 DEF Gone
      <4> QED
        BY <4>1, <4>2
    <3>7. ASSUME NEW c, c = job[s].holds, Rotate(s)
          PROVE  Gone(c)'
      <4>1. job[s].at = "rotate" /\ Held(s)
        BY <3>7 DEF Rotate
      <4>2. c[1] = "refresh" /\ c[2] <= issued /\ c[2] \in Nat
        BY <1>n, <3>7, <4>1, CredentialsAre DEF Held
      <4>3. \A x \in left : ~(x.kind = "refresh" /\ x.pair = c[2])
        BY <3>1, <3>7 DEF Refresh
      <4>4. Refresh(c[2])' = {}
        BY <1>n, <3>2, <4>2, <4>3 DEF Refresh
      <4> QED
        BY <1>n, <3>2, <4>2, <4>4 DEF Gone
    <3>8. \A x \in store' : x.pair <= issued'
      BY <1>n, <3>1, <3>2
    <3>9. \A c \in spent' : Gone(c)'
      BY <3>5, <3>6, <3>7
    <3>10. job'[s].holds = NoCredential /\ Held(s)'
      BY <1>i, <2>h, <3>3
    <3> QED
      BY <1>1, <1>n, <3>2, <3>3, <3>4, <3>5, <3>8, <3>9, <3>10
  <2>4. ASSUME NEW n \in 1..MaxIssued, BeginRefresh(s, n) PROVE TokenInv'
    <3> DEFINE c == <<"refresh", n>>
    <3>1. PICK x \in Refresh(n) : Comes(s, c, "rotate", x.rests)
      BY <2>4, RefreshComes
    <3>2. x \in store /\ x.pair = n /\ n <= issued /\ c \in Credential
      BY <3>1 DEF Refresh, Credential
    <3>3. c \notin spent
      BY <3>1 DEF Gone
    <3>4. UNCHANGED <<store, issued, spent, mails, reset>>
      BY <2>4 DEF BeginRefresh
    <3>5. Held(s)'
      BY <3>1, <3>2, <3>4 DEF Held, Comes, Begins
    <3> QED
      BY <1>2, <3>1, <3>2, <3>3, <3>4, <3>5
  <2>5. CASE BeginReset(s)
    <3> DEFINE c == <<"reset", reset>>
    <3>1. Comes(s, c, "vet", 0) /\ c \in Credential
      BY <2>5, ResetComes
    <3>2. c \notin spent
      BY DEF Gone
    <3>3. UNCHANGED <<store, issued, spent, mails, reset>>
      BY <2>5 DEF BeginReset
    <3>4. Held(s)'
      BY <3>1, <3>3 DEF Held, Comes, Begins
    <3> QED
      BY <1>2, <3>1, <3>2, <3>3, <3>4
  <2>6. CASE Update(s)
    <3>1. /\ job'[s].at # "rotate" /\ job'[s].holds = NoCredential
          /\ \A o \in Slot \ {s} : job'[o] = job[o]
      <4>1. job' = [job EXCEPT ![s] = [Idle EXCEPT !.at = "revoke"]] \/ job' = [job EXCEPT ![s] = Idle]
        BY <2>6 DEF Update
      <4> QED
        BY <1>i, <2>0, <4>1, Beginnings
    <3>2. UNCHANGED <<store, issued, mails>> /\ reset' = 0 /\ job[s].at = "update"
      BY <2>6 DEF Update
    <3>3. \A c \in spent' : c # NoCredential /\ c \in spent \cup {job[s].holds}
      BY <2>6 DEF Update, Exchange
    <3>4. \A c \in spent : Gone(c)'
      BY <1>g, <3>2
    <3>5. ASSUME NEW c \in Credential, c = job[s].holds
          PROVE  Gone(c)'
      <4>1. c[1] = "reset" /\ c[2] <= mails /\ c[2] \in Nat \ {0}
        <5>1. Held(s)
          OBVIOUS
        <5> QED
          BY <3>2, <3>5, <5>1, CredentialsAre DEF Held
      <4> QED
        BY <3>2, <4>1 DEF Gone
    <3>6. \A c \in spent' : Gone(c)'
      BY <1>n, <3>3, <3>4, <3>5
    <3> QED
      BY <1>1, <1>n, <2>h, <3>1, <3>2, <3>3, <3>6
  <2>7. CASE Revoke(s)
    <3>1. /\ job'[s] = Idle
          /\ \A o \in Slot \ {s} :
               job'[o] = IF Overtaken(o) THEN [job[o] EXCEPT !.late = TRUE] ELSE job[o]
      BY <2>7, RevokeTypes
    <3>2. \A o \in Slot \ {s} : /\ job'[o].at = job[o].at /\ job'[o].holds = job[o].holds
                                /\ job[o].joint => job'[o].joint
      BY <1>n, <3>1, Overrun DEF Alike
    <3>3. store' = {} /\ UNCHANGED <<issued, spent, mails, reset>>
      BY <2>7 DEF Revoke
    <3>4. job'[s].at = "idle" /\ job'[s].holds = NoCredential
      BY <1>i, <3>1
    <3>5. \A o \in Slot : Held(o)'
      BY <2>h, <3>2, <3>3, <3>4 DEF Held
    <3>6. \A c \in spent' : Gone(c)' /\ c # NoCredential
      BY <1>g, <1>n, <3>3, CredentialsAre
    <3> QED
      BY <3>2, <3>3, <3>4, <3>5, <3>6
  <2> QED
    BY <1>3, <2>1, <2>2, <2>3, <2>4, <2>5, <2>6, <2>7, Numbers DEF Requests
<1>4. CASE Logouts
  <2>1. store' \subseteq store /\ UNCHANGED <<issued, job, spent, mails, reset>>
    BY <1>4 DEF Logouts, Logout, user
  <2>2. \A c \in spent : Gone(c)'
    BY <1>g, <2>1
  <2> QED
    BY <2>1, <2>2 DEF Held
<1>5. CASE MailReset
  <2>1. PICK n \in 1..(mails + 1) :
          /\ reset' = n /\ mails' = (IF n > mails THEN n ELSE mails)
          /\ spent' = spent \ {<<"reset", n>>}
          /\ UNCHANGED <<store, issued, job>>
    BY <1>5 DEF MailReset, tokens
  <2>4. n \in Nat /\ mails' \in Nat /\ mails <= mails' /\ reset' <= mails'
    BY <1>n, <2>1
  <2>2. ASSUME NEW c \in spent, c # <<"reset", n>>
        PROVE  Gone(c)' /\ c # NoCredential
    <3>1. c \in Credential /\ c[1] \in {"refresh", "reset"} /\ Gone(c) /\ c # NoCredential
      BY <1>n, CredentialsAre
    <3>2. CASE c[1] = "refresh"
      BY <2>1, <3>1, <3>2 DEF Gone, Refresh
    <3>3. CASE c[1] = "reset"
      <4>1. c[2] # n /\ c[2] \in Nat
        BY <2>2, <3>1, <3>3, CredentialsAre DEF Credential
      <4>2. c[2] <= mails' /\ reset' = n
        BY <1>n, <2>1, <2>4, <3>1, <3>3, <4>1 DEF Gone
      <4> QED
        BY <1>n, <2>1, <3>1, <3>3, <4>1, <4>2 DEF Gone, Refresh
    <3> QED
      BY <3>1, <3>2, <3>3
  <2>3. \A s \in Slot : Held(s)'
    <3>1. \A s \in Slot : Held(s) /\ (job[s].holds[1] = "reset" => job[s].holds[2] \in Nat)
      BY <1>n, CredentialsAre
    <3> QED
      BY <1>n, <2>1, <2>4, <3>1 DEF Held
  <2> QED
    BY <1>n, <2>1, <2>2, <2>3, <2>4
<1>6. CASE LockLapses \/ UNCHANGED vars
  <2>1. UNCHANGED <<store, issued, job, spent, mails, reset>>
    BY <1>6 DEF LockLapses, vars, tokens, user
  <2> QED
    BY <2>1 DEF Held, Gone, Refresh
<1>7. CASE Restart
  <2>1. /\ job' = [s \in Slot |-> Idle] /\ store' = {}
        /\ UNCHANGED <<issued, spent, mails, reset>>
    BY <1>7 DEF Restart, user
  <2>2. \A s \in Slot : job'[s].at = "idle" /\ job'[s].holds = NoCredential
    BY <1>i, <2>1
  <2>3. \A c \in spent' : Gone(c)' /\ c # NoCredential
    BY <1>g, <1>n, <2>1, CredentialsAre
  <2> QED
    BY <2>1, <2>2, <2>3, CredentialsAre DEF Held
<1> QED
  BY <1>3, <1>4, <1>5, <1>6, <1>7, NextActors

-----------------------------------------------------------------------------
(* Wrong passwords *)

Comparing == {s \in Slot : job[s].at = "compare"}

\* While the account is not locked the misses that were counted are within the
\* count in the row, and once it is locked only the requests that got in before
\* can miss.
MissInv ==
  IF locked THEN misses + Cardinality(Comparing) <= LockLimit + Cardinality(Slot) - 1 + uncounted
  ELSE misses = uncounted \/ (misses <= failed + uncounted /\ failed < LockLimit)

LEMMA ComparingCounts ==
  /\ Cardinality(Slot) \in Nat /\ Cardinality(Comparing) \in Nat
  /\ Cardinality(Comparing') \in Nat
  /\ Comparing' \subseteq Comparing => Cardinality(Comparing') <= Cardinality(Comparing)
  /\ \A s \in Comparing : Comparing' \subseteq Comparing \ {s} =>
       Cardinality(Comparing') <= Cardinality(Comparing) - 1
  /\ \A s \in Slot : s \notin Comparing' => Cardinality(Comparing') <= Cardinality(Slot) - 1
<1>1. IsFiniteSet(Slot) /\ Comparing \subseteq Slot /\ Comparing' \subseteq Slot
  BY Numbers DEF Comparing
<1>2. /\ IsFiniteSet(Comparing) /\ IsFiniteSet(Comparing')
      /\ Cardinality(Slot) \in Nat /\ Cardinality(Comparing) \in Nat
      /\ Cardinality(Comparing') \in Nat
  BY <1>1, FS_Subset, FS_CardinalityType
<1>3. ASSUME Comparing' \subseteq Comparing
      PROVE  Cardinality(Comparing') <= Cardinality(Comparing)
  BY <1>2, <1>3, FS_Subset
<1>4. ASSUME NEW s \in Comparing, Comparing' \subseteq Comparing \ {s}
      PROVE  Cardinality(Comparing') <= Cardinality(Comparing) - 1
  <2>1. IsFiniteSet(Comparing \ {s}) /\ Cardinality(Comparing \ {s}) = Cardinality(Comparing) - 1
    BY <1>2, FS_RemoveElement
  <2> QED
    BY <1>4, <2>1, FS_Subset
<1>5. ASSUME NEW s \in Slot, s \notin Comparing'
      PROVE  Cardinality(Comparing') <= Cardinality(Slot) - 1
  <2>1. IsFiniteSet(Slot \ {s}) /\ Cardinality(Slot \ {s}) = Cardinality(Slot) - 1
    BY <1>1, FS_RemoveElement
  <2>2. Comparing' \subseteq Slot \ {s}
    BY <1>1, <1>5
  <2> QED
    BY <2>1, <2>2, FS_Subset
<1> QED
  BY <1>2, <1>3, <1>4, <1>5

LEMMA MissInvBounds == TypeOK /\ MissInv => MissesAreBounded
  BY ComparingCounts, Numbers DEF TypeOK, MissInv, MissesAreBounded

LEMMA MissStep ==
  ASSUME TypeOK, TypeOK', MissInv, [Next]_vars
  PROVE  MissInv'
<1>n. /\ failed \in Nat /\ misses \in Nat /\ uncounted \in Nat /\ LockLimit \in Nat \ {0}
      /\ failed <= LockLimit /\ locked \in BOOLEAN
      /\ \A s \in Slot : job[s] \in Job
  BY Numbers DEF TypeOK
<1>i. Idle \in Job /\ Idle.at = "idle"
  BY IdleIsJob DEF Idle
<1>c. /\ Cardinality(Slot) \in Nat /\ Cardinality(Comparing) \in Nat
      /\ Cardinality(Comparing') \in Nat
  BY ComparingCounts
<1>1. ASSUME UNCHANGED <<locked, failed, misses, uncounted>>, Comparing' \subseteq Comparing \/ ~locked
      PROVE  MissInv'
  <2>1. CASE locked
    <3>1. Cardinality(Comparing') <= Cardinality(Comparing)
      BY <1>1, <2>1, ComparingCounts
    <3> QED
      BY <1>1, <1>c, <1>n, <2>1, <3>1 DEF MissInv
  <2>2. CASE ~locked
    BY <1>1, <2>2 DEF MissInv
  <2> QED
    BY <2>1, <2>2
<1>2. ASSUME ~locked', misses' = 0, uncounted' = 0
      PROVE  MissInv'
  BY <1>2 DEF MissInv
<1>3. ASSUME NEW s \in Slot, Requests(s)
      PROVE  MissInv'
  <2> USE DEF Put, Leave, user
  <2>0. ASSUME NEW j, job' = [job EXCEPT ![s] = j]
        PROVE  job'[s] = j /\ \A o \in Slot \ {s} : job'[o] = job[o]
    BY <2>0 DEF TypeOK
  <2>s. ASSUME \A o \in Slot \ {s} : job'[o] = job[o], job'[s].at # "compare"
        PROVE  Comparing' \subseteq Comparing \ {s}
    BY <2>s DEF Comparing
  <2>1. CASE BeginLogin(s)
    BY <1>1, <2>1 DEF BeginLogin
  <2>2. CASE WrongPassword(s)
    <3>1. s \in Comparing /\ Comparing' \subseteq Comparing \ {s}
      BY <1>i, <2>0, <2>2, <2>s DEF WrongPassword, Comparing
    <3>2. /\ Cardinality(Comparing') <= Cardinality(Comparing) - 1
          /\ Cardinality(Comparing') <= Cardinality(Slot) - 1
      BY <3>1, ComparingCounts
    <3>3. /\ misses' = misses + 1 /\ uncounted' = uncounted /\ failed' = AddOne(failed)
          /\ locked => locked'
          /\ ~locked => /\ locked' => failed' = LockLimit
                        /\ ~locked' => failed' # LockLimit
      BY <2>2, Zenon DEF WrongPassword
    <3>4. CASE locked
      BY <1>c, <1>n, <3>2, <3>3, <3>4 DEF MissInv
    <3>5. CASE ~locked
      <4>1. misses' <= failed' + uncounted' /\ failed' \in 1..LockLimit
        BY <1>n, <3>3, <3>5 DEF MissInv, AddOne
      <4> QED
        BY <1>c, <1>n, <3>2, <3>3, <3>5, <4>1 DEF MissInv
    <3> QED
      BY <3>4, <3>5
  <2>3. CASE RightPassword(s)
    BY <1>2, <2>3 DEF RightPassword
  <2>4. CASE FinishLogin(s) \/ Rotate(s) \/ BeginChange(s)
    <3>1. job'[s].at # "compare" /\ \A o \in Slot \ {s} : job'[o] = job[o]
      BY <1>i, <2>0, <2>4, Beginnings DEF FinishLogin, Rotate, BeginChange
    <3>2. UNCHANGED <<locked, failed, misses, uncounted>>
      BY <2>4 DEF FinishLogin, Rotate, BeginChange
    <3> QED
      BY <1>1, <2>s, <3>1, <3>2
  <2>10. CASE Reject(s)
    <3>1. Comparing' \subseteq Comparing \ {s} /\ UNCHANGED <<locked, failed>>
      BY <1>i, <2>0, <2>10, <2>s DEF Reject
    <3>2. CASE UNCHANGED tries
      BY <1>1, <3>1, <3>2
    <3>3. CASE misses' = misses + 1 /\ uncounted' = uncounted + 1 /\ job[s].at = "compare"
      <4>1. Cardinality(Comparing') <= Cardinality(Comparing) - 1
        BY <3>1, <3>3, ComparingCounts DEF Comparing
      <4> QED
        BY <1>c, <1>n, <3>1, <3>3, <4>1 DEF MissInv
    <3> QED
      BY <2>10, <3>2, <3>3 DEF Reject
  <2>5. ASSUME NEW n \in 1..MaxIssued, BeginRefresh(s, n) PROVE MissInv'
    <3>1. PICK x \in store : Comes(s, <<"refresh", n>>, "rotate", x.rests)
      BY <2>5, RefreshComes DEF Refresh
    <3>2. Comparing' \subseteq Comparing
      BY <3>1 DEF Comes, Begins, Hears, Comparing
    <3> QED
      BY <1>1, <2>5, <3>2 DEF BeginRefresh
  <2>6. CASE BeginReset(s)
    <3>1. Comes(s, <<"reset", reset>>, "vet", 0)
      BY <2>6, ResetComes
    <3>2. Comparing' \subseteq Comparing
      BY <3>1 DEF Comes, Begins, Hears, Comparing
    <3> QED
      BY <1>1, <2>6, <3>2 DEF BeginReset
  <2>7. ASSUME NEW p \in Password, Vet(s, p) \/ ReadPast(s) PROVE MissInv'
    <3>1. \/ job' = [job EXCEPT ![s] = [job[s] EXCEPT !.at = "read", !.next = p, !.seen = epoch]]
          \/ job' = [job EXCEPT ![s] = [job[s] EXCEPT !.at = "update", !.trail = Trail]]
      BY <2>7 DEF Vet, ReadPast
    <3>2. /\ [job[s] EXCEPT !.at = "read", !.next = p, !.seen = epoch].at = "read"
          /\ [job[s] EXCEPT !.at = "update", !.trail = Trail].at = "update"
      BY <1>n DEF Job
    <3>3. job'[s].at # "compare" /\ \A o \in Slot \ {s} : job'[o] = job[o]
      BY <2>0, <3>1, <3>2
    <3> QED
      BY <1>1, <2>7, <2>s, <3>3 DEF Vet, ReadPast
  <2>8. CASE Update(s)
    <3>1. job' = [job EXCEPT ![s] = [Idle EXCEPT !.at = "revoke"]] \/ job' = [job EXCEPT ![s] = Idle]
      BY <2>8 DEF Update
    <3>2. job'[s].at # "compare" /\ \A o \in Slot \ {s} : job'[o] = job[o]
      BY <1>i, <2>0, <3>1, Beginnings
    <3> QED
      BY <1>1, <2>8, <2>s, <3>2 DEF Update
  <2>9. CASE Revoke(s)
    <3>1. /\ job'[s] = Idle
          /\ \A o \in Slot \ {s} :
               job'[o] = IF Overtaken(o) THEN [job[o] EXCEPT !.late = TRUE] ELSE job[o]
      BY <2>9, RevokeTypes
    <3>2. job'[s].at = "idle" /\ \A o \in Slot \ {s} : job'[o].at = job[o].at
      BY <1>i, <1>n, <3>1, Overrun
    <3>3. Comparing' \subseteq Comparing
      BY <3>2 DEF Comparing
    <3> QED
      BY <1>1, <2>9, <3>3 DEF Revoke
  <2> QED
    BY <1>3, <2>1, <2>2, <2>3, <2>4, <2>5, <2>6, <2>7, <2>8, <2>9, <2>10, Numbers DEF Requests
<1>4. CASE Logouts \/ MailReset \/ UNCHANGED vars
  <2>1. UNCHANGED <<locked, failed, misses, uncounted, job>>
    BY <1>4 DEF Logouts, Logout, MailReset, vars, user
  <2> QED
    BY <1>1, <2>1 DEF Comparing
<1>5. CASE LockLapses
  BY <1>2, <1>5 DEF LockLapses
<1>6. CASE Restart
  <2>1. Comparing' = {}
    BY <1>6, <1>i DEF Restart, Comparing
  <2> QED
    BY <1>1, <1>6, <2>1 DEF Restart, user
<1> QED
  BY <1>3, <1>4, <1>5, <1>6, NextActors

-----------------------------------------------------------------------------
(* The size of the store *)

\* The kind and the pair tell an entry.
Distinct(S) == \A x, y \in S : x.kind = y.kind /\ x.pair = y.pair => x = y

Counted(S, kinds) == {x \in S : x.kind \in kinds}

\* StoreIsBounded is not inductive without it: entries of one kind and pair would
\* be newer than none of each other, and all of them be kept.
StoreInv ==
  /\ IsFiniteSet(store)
  /\ Distinct(store)
  /\ \A x \in store : x.pair <= issued
  /\ StoreIsBounded

\* Of the entries that are counted, Enforce leaves as many as the limit allows.
LEMMA EnforceKeepsTheNewest ==
  ASSUME NEW S \in SUBSET Entry, IsFiniteSet(S), Distinct(S), NEW kinds
  PROVE  /\ Cardinality(Counted(Enforce(S, kinds), kinds)) <= MaxSessions
         /\ Enforce(S, kinds) \in SUBSET S
<1> DEFINE counted == {x \in S : x.kind \in kinds}
           newer(x) == {y \in counted : Newer(y, x)}
           kept == {x \in counted : Cardinality(newer(x)) < MaxSessions}
           rank == [x \in kept |-> Cardinality(newer(x))]
<1>1. Counted(Enforce(S, kinds), kinds) = kept
  <2>1. \A x \in counted : Cardinality(newer(x)) \in Nat
    <3> TAKE x \in counted
    <3>1. newer(x) \in SUBSET S
      OBVIOUS
    <3>2. IsFiniteSet(newer(x))
      BY <3>1, FS_Subset
    <3> QED
      BY <3>2, FS_CardinalityType
  <2>2. \A x \in counted : Cardinality(newer(x)) >= MaxSessions <=> ~(Cardinality(newer(x)) < MaxSessions)
    BY <2>1, Numbers
  <2> QED
    BY <2>2 DEF Counted, Enforce
<1>2. ASSUME NEW x \in counted, NEW y \in counted, Newer(x, y)
      PROVE  Cardinality(newer(x)) < Cardinality(newer(y))
  <2>1. \A z \in counted : Newer(z, x) => Newer(z, y)
    <3>1. \A z \in counted : z.pair \in Int
      BY Numbers DEF Entry
    <3> QED
      BY <1>2, <3>1 DEF Newer
  <2>2. ~Newer(x, x)
    <3>1. x.pair \in Int
      BY Numbers DEF Entry
    <3> QED
      BY <3>1 DEF Newer
  <2>3. newer(x) \in SUBSET newer(y) /\ x \in newer(y) /\ x \notin newer(x)
    BY <1>2, <2>1, <2>2
  <2>4. IsFiniteSet(newer(y))
    <3>1. newer(y) \in SUBSET S
      OBVIOUS
    <3> QED
      BY <3>1, FS_Subset
  <2> HIDE DEF newer
  <2>5. /\ IsFiniteSet(newer(x)) /\ Cardinality(newer(x)) <= Cardinality(newer(y))
        /\ Cardinality(newer(y)) # Cardinality(newer(x))
    BY <2>3, <2>4, FS_Subset
  <2>6. Cardinality(newer(x)) \in Nat /\ Cardinality(newer(y)) \in Nat
    BY <2>4, <2>5, FS_CardinalityType
  <2> QED
    BY <2>5, <2>6
<1>3. \A x, y \in counted : x = y \/ Newer(x, y) \/ Newer(y, x)
  <2>1. \A x \in S : x.pair \in Int /\ x.kind \in {"bearer", "refresh"}
    BY Numbers DEF Entry
  <2> QED
    BY <2>1 DEF Newer, Distinct
<1>4. rank \in Injection(kept, 0..(MaxSessions - 1))
  <2>1. \A x \in kept : rank[x] \in 0..(MaxSessions - 1)
    <3> TAKE x \in kept
    <3>1. newer(x) \in SUBSET S
      OBVIOUS
    <3>2. Cardinality(newer(x)) \in Nat
      BY <3>1, FS_Subset, FS_CardinalityType
    <3>3. Cardinality(newer(x)) < MaxSessions
      OBVIOUS
    <3> HIDE DEF newer
    <3> QED
      BY <3>2, <3>3, Numbers
  <2>2. \A x, y \in kept : rank[x] = rank[y] => x = y
    <3> SUFFICES ASSUME NEW x \in kept, NEW y \in kept, rank[x] = rank[y], x # y
                 PROVE  FALSE
      OBVIOUS
    <3>1. Newer(x, y) \/ Newer(y, x)
      BY <1>3
    <3>2. rank[x] < rank[y] \/ rank[y] < rank[x]
      BY <1>2, <3>1
    <3>3. rank[x] \in 0..(MaxSessions - 1) /\ rank[y] \in 0..(MaxSessions - 1)
      BY <2>1
    <3> HIDE DEF rank
    <3> QED
      BY <3>2, <3>3, Numbers
  <2> HIDE DEF rank, kept
  <2>3. rank \in [kept -> 0..(MaxSessions - 1)]
    BY <2>1 DEF rank
  <2> QED
    BY <2>2, <2>3 DEF Injection, IsInjective
<1>5. IsFiniteSet(0..(MaxSessions - 1)) /\ Cardinality(0..(MaxSessions - 1)) = MaxSessions
  <2>1. 0 \in Int /\ MaxSessions - 1 \in Int /\ ~(0 > MaxSessions - 1) /\ MaxSessions - 1 - 0 + 1 = MaxSessions
    BY Numbers
  <2> QED
    BY <2>1, FS_Interval
<1> HIDE DEF kept, rank
<1>6. Cardinality(kept) <= MaxSessions
  BY <1>4, <1>5, FS_Injection
<1> QED
  BY <1>1, <1>6 DEF Enforce

LEMMA StoreKeeps ==
  ASSUME TypeOK, StoreInv, NEW s \in Slot, NEW left \in SUBSET store,
         Store(left, job[s].seen, job[s].late)
  PROVE  StoreInv'
<1> DEFINE bearer == [kind |-> "bearer", pair |-> issued + 1,
                      rests |-> job[s].seen, late |-> job[s].late]
           refresh == [bearer EXCEPT !.kind = "refresh"]
           one == left \cup {bearer}
           kept == Enforce(one, AnyKind)
           two == kept \cup {refresh}
<1>1. issued < MaxIssued /\ issued' = issued + 1 /\ store' = Enforce(two, {"refresh"})
  BY DEF Store
<1>2. issued \in Nat /\ issued + 1 \in 1..MaxIssued
      /\ job[s].seen \in 0..MaxChanges /\ job[s].late \in BOOLEAN
  BY <1>1, Numbers, JobTypes DEF TypeOK
<1>3. /\ bearer \in Entry /\ bearer.kind = "bearer" /\ bearer.pair = issued + 1
      /\ refresh \in Entry /\ refresh.kind = "refresh" /\ refresh.pair = issued + 1
  BY <1>2 DEF Entry
<1> HIDE DEF bearer, refresh
<1>4. /\ \A x \in left : x \in Entry /\ x.pair <= issued /\ x.pair \in Nat
      /\ Distinct(left) /\ IsFiniteSet(left)
  <2>1. IsFiniteSet(left)
    BY FS_Subset DEF StoreInv
  <2> QED
    BY <2>1, Numbers DEF StoreInv, Distinct, TypeOK, Entry
<1>5. one \in SUBSET Entry /\ IsFiniteSet(one) /\ Distinct(one)
  BY <1>2, <1>3, <1>4, FS_AddElement DEF Distinct
<1>6. /\ kept \in SUBSET one
      /\ Cardinality(Counted(kept, AnyKind)) <= MaxSessions
  BY <1>5, EnforceKeepsTheNewest
<1>7. Counted(kept, AnyKind) = kept
  BY <1>5, <1>6 DEF Counted, AnyKind, Entry
<1> HIDE DEF kept, one
<1>8. IsFiniteSet(kept) /\ Cardinality(kept) <= MaxSessions /\ Cardinality(kept) \in Nat
  BY <1>5, <1>6, <1>7, FS_Subset, FS_CardinalityType
<1>9. /\ IsFiniteSet(two) /\ Cardinality(two) <= MaxSessions + 1 /\ Cardinality(two) \in Nat
  <2>1. /\ IsFiniteSet(two)
        /\ Cardinality(two) = IF refresh \in kept THEN Cardinality(kept) ELSE Cardinality(kept) + 1
    BY <1>8, FS_AddElement
  <2> QED
    BY <1>8, <2>1, Numbers
<1>10. two \in SUBSET Entry /\ Distinct(two) /\ \A x \in two : x.pair <= issued + 1
  <2>1. \A x \in one : x.pair <= issued + 1 /\ (x.pair = issued + 1 => x = bearer)
    BY <1>2, <1>3, <1>4 DEF one
  <2>2. \A x \in kept : x.kind # "refresh" \/ x.pair # issued + 1
    BY <1>3, <1>6, <2>1
  <2> QED
    BY <1>2, <1>3, <1>5, <1>6, <2>1, <2>2 DEF Distinct
<1> HIDE DEF two
<1>11. /\ store' \in SUBSET two
       /\ Cardinality(Counted(store', {"refresh"})) <= MaxSessions
  BY <1>1, <1>9, <1>10, EnforceKeepsTheNewest
<1>12. IsFiniteSet(store') /\ Cardinality(store') <= Cardinality(two) /\ Cardinality(store') \in Nat
  BY <1>9, <1>11, FS_Subset, FS_CardinalityType
<1>13. Cardinality(store') <= MaxSessions + 1
  BY <1>9, <1>12, Numbers
<1>14. {x \in store' : x.kind = "refresh"} = Counted(store', {"refresh"})
  BY DEF Counted
<1>15. Distinct(store')
  BY <1>10, <1>11 DEF Distinct
<1>16. \A x \in store' : x.pair <= issued'
  BY <1>1, <1>10, <1>11
<1> QED
  BY <1>11, <1>12, <1>13, <1>14, <1>15, <1>16 DEF StoreInv, StoreIsBounded

LEMMA FewerKeep ==
  ASSUME StoreInv, store' \in SUBSET store, UNCHANGED issued
  PROVE  StoreInv'
<1>1. /\ IsFiniteSet(store') /\ Cardinality(store') <= Cardinality(store)
      /\ Cardinality(store') \in Nat /\ Cardinality(store) \in Nat
  BY FS_Subset, FS_CardinalityType DEF StoreInv
<1> DEFINE before == {x \in store : x.kind = "refresh"}
           after == {x \in store' : x.kind = "refresh"}
<1>2. before \in SUBSET store /\ after \in SUBSET before
  OBVIOUS
<1> HIDE DEF before, after
<1>3. /\ Cardinality(after) <= Cardinality(before)
      /\ Cardinality(after) \in Nat /\ Cardinality(before) \in Nat
  BY <1>2, FS_Subset, FS_CardinalityType DEF StoreInv
<1>4. Cardinality(store') <= MaxSessions + 1
  BY <1>1, Numbers DEF StoreInv, StoreIsBounded
<1>5. Cardinality(before) <= MaxSessions
  BY DEF StoreInv, StoreIsBounded, before
<1>6. Cardinality(after) <= MaxSessions
  BY <1>3, <1>5, Numbers
<1> QED
  BY <1>1, <1>4, <1>6 DEF StoreInv, StoreIsBounded, Distinct, after

LEMMA StoreStep ==
  ASSUME TypeOK, StoreInv, [Next]_vars
  PROVE  StoreInv'
<1>1. CASE UNCHANGED tokens \/ (store' = {} /\ UNCHANGED issued)
  BY <1>1, FewerKeep DEF tokens
<1>2. ASSUME NEW s \in Slot, Requests(s)
      PROVE  StoreInv'
  <2>1. CASE FinishLogin(s) \/ Rotate(s)
    <3>1. PICK left \in SUBSET store : Store(left, job[s].seen, job[s].late)
      BY <2>1 DEF FinishLogin, Rotate
    <3> QED
      BY <3>1, StoreKeeps
  <2>2. CASE ~(FinishLogin(s) \/ Rotate(s))
    <3>1. UNCHANGED tokens \/ (store' = {} /\ UNCHANGED issued)
      BY <1>2, <2>2 DEF Requests, BeginLogin, WrongPassword, RightPassword, BeginRefresh,
                        BeginChange, BeginReset, Vet, ReadPast, Update, Revoke, Reject
    <3> QED
      BY <1>1, <3>1
  <2> QED
    BY <2>1, <2>2
<1>3. CASE Logouts
  BY <1>3, FewerKeep DEF Logouts, Logout
<1>4. CASE MailReset \/ LockLapses \/ Restart
  BY <1>1, <1>4 DEF MailReset, LockLapses, Restart
<1> QED
  BY <1>1, <1>2, <1>3, <1>4, NextActors DEF vars

-----------------------------------------------------------------------------
(* Passwords used before *)

\* Unless two changes have overlapped the history is what the account has worn
\* before, and a request that has vetted a password since the last change will
\* write one that is not recent, with the history it finds. NoReuse is not
\* inductive without it.
WornInv ==
  /\ password = worn[1]
  /\ ~raced => /\ Len(past) = SmallerOf(epoch, HistoryLimit)
               /\ \A i \in 1..Len(past) : past[i] = worn[i + 1]
  /\ \A s \in Slot : job[s].at \in {"read", "update"} /\ job[s].seen = epoch /\ ~raced =>
       /\ job[s].next \notin Recent
       /\ job[s].at = "update" => job[s].trail = Trail

LEMMA WornTypes ==
  ASSUME TypeOK
  PROVE  /\ worn \in Seq(Password) /\ Len(worn) \in Nat /\ Len(worn) = epoch + 1 /\ epoch \in Nat
         /\ past \in Seq(Password) /\ Len(past) \in Nat /\ password \in Password
         /\ HistoryLimit \in Nat \ {0}
  BY Numbers DEF TypeOK, epoch

\* What checkPasswordHistory lets through is not recent.
LEMMA VettedIsNew ==
  ASSUME TypeOK, WornInv, ~raced, NEW p, p # password, p \notin ToSet(past)
  PROVE  p \notin Recent
<1>1. /\ \A i \in 1..Len(past) : past[i] = worn[i + 1] /\ past[i] # p
      /\ worn[1] # p
      /\ Len(past) = SmallerOf(epoch, HistoryLimit)
  BY WornTypes DEF WornInv, ToSet
<1>2. ASSUME NEW i \in 1..SmallerOf(Len(worn), HistoryLimit + 1) PROVE worn[i] # p
  <2>1. i = 1 \/ (i - 1 \in 1..Len(past) /\ (i - 1) + 1 = i)
    BY <1>1, WornTypes DEF SmallerOf
  <2> QED
    BY <1>1, <2>1
<1> QED
  BY <1>2 DEF Recent

\* What an update puts before what has been worn is the history of what it leaves.
LEMMA TrailFollows ==
  ASSUME TypeOK, WornInv, ~raced, NEW p \in Password
  PROVE  /\ Len(Trail) = SmallerOf(epoch + 1, HistoryLimit)
         /\ \A i \in 1..Len(Trail) : Trail[i] = (<<p>> \o worn)[i + 1]
<1> DEFINE longer == <<password>> \o past
           n == SmallerOf(Len(past) + 1, HistoryLimit)
<1>1. /\ longer \in Seq(Password) /\ Len(longer) = Len(past) + 1
      /\ longer[1] = password /\ \A i \in 2..Len(longer) : longer[i] = past[i - 1]
  BY WornTypes
<1>2. n \in 0..Len(longer) /\ n = SmallerOf(epoch + 1, HistoryLimit)
  BY <1>1, WornTypes DEF WornInv, SmallerOf
<1>3. Len(SubSeq(longer, 1, n)) = n /\ \A i \in 1..n : SubSeq(longer, 1, n)[i] = longer[i]
  BY <1>1, <1>2
<1>4. ASSUME NEW i \in 1..n PROVE longer[i] = (<<p>> \o worn)[i + 1]
  <2>1. i \in 1..Len(worn)
    BY <1>2, WornTypes DEF SmallerOf
  <2>2. (<<p>> \o worn)[i + 1] = worn[i]
    BY <2>1, WornTypes
  <2>3. CASE i = 1
    BY <1>1, <2>2, <2>3 DEF WornInv
  <2>4. CASE i # 1
    <3>1. i - 1 \in 1..Len(past) /\ i \in 2..Len(longer) /\ (i - 1) + 1 = i
      BY <1>1, <1>2, <2>4, WornTypes
    <3> QED
      BY <1>1, <2>2, <3>1 DEF WornInv
  <2> QED
    BY <2>3, <2>4
<1> HIDE DEF longer, n
<1> QED
  BY <1>2, <1>3, <1>4 DEF Trail, longer, n

LEMMA WornStep ==
  ASSUME TypeOK, RestInv, WornInv, [Next]_vars
  PROVE  WornInv' /\ (worn' # worn => raced' \/ worn'[1] \notin Recent)
<1>n. /\ \A s \in Slot : job[s] \in Job /\ job[s].seen <= epoch /\ job[s].seen \in Nat
      /\ epoch \in Nat
  BY WornTypes, JobTypes DEF TypeOK, RestInv
<1>i. Idle \in Job /\ Idle.at = "idle"
  BY IdleIsJob DEF Idle
<1>0. ASSUME NEW s \in Slot, NEW j, job' = [job EXCEPT ![s] = j]
      PROVE  job'[s] = j /\ \A o \in Slot \ {s} : job'[o] = job[o]
  BY <1>0 DEF TypeOK
\* A step in which nobody vets, reads or writes a password.
<1>1. ASSUME UNCHANGED <<password, past, worn, raced>>,
             \A s \in Slot : job'[s].at \in {"read", "update"} =>
               \/ job'[s] = job[s]
               \/ job'[s].at = job[s].at /\ Alike(job'[s], job[s])
      PROVE  WornInv' /\ UNCHANGED worn
  <2>1. epoch' = epoch /\ Recent' = Recent /\ Trail' = Trail
    BY <1>1 DEF epoch, Recent, Trail
  <2>2. \A s \in Slot : job'[s].at \in {"read", "update"} =>
          /\ job'[s].at = job[s].at /\ job'[s].seen = job[s].seen
          /\ job'[s].next = job[s].next /\ job'[s].trail = job[s].trail
    BY <1>1 DEF Alike
  <2> QED
    BY <1>1, <2>1, <2>2 DEF WornInv
<1>2. ASSUME NEW s \in Slot, Requests(s)
      PROVE  WornInv' /\ (worn' # worn => raced' \/ worn'[1] \notin Recent)
  <2> USE DEF Put, Leave, user, tokens, ages
  <2>1. CASE \/ BeginLogin(s) \/ WrongPassword(s) \/ RightPassword(s) \/ FinishLogin(s)
             \/ Rotate(s) \/ BeginChange(s) \/ Reject(s)
    <3>1. /\ UNCHANGED <<password, past, worn, raced>>
          /\ \E j : job' = [job EXCEPT ![s] = j] /\ j.at \notin {"read", "update"}
      <4>1. CASE RightPassword(s)
        <5>1. [job[s] EXCEPT !.at = "stamp"].at = "stamp"
          BY <1>n, AtNext DEF Places
        <5> QED
          BY <4>1, <5>1 DEF RightPassword
      <4>2. CASE BeginLogin(s)
        <5>1. [Idle EXCEPT !.at = "compare", !.seen = epoch].at = "compare"
          BY DEF Idle
        <5> QED
          BY <4>2, <5>1 DEF BeginLogin
      <4>3. CASE BeginChange(s)
        <5>1. [Idle EXCEPT !.at = "vet"].at = "vet"
          BY DEF Idle
        <5> QED
          BY <4>3, <5>1 DEF BeginChange
      <4>4. CASE WrongPassword(s) \/ FinishLogin(s) \/ Rotate(s) \/ Reject(s)
        BY <1>i, <4>4 DEF WrongPassword, FinishLogin, Rotate, Reject
      <4> QED
        BY <2>1, <4>1, <4>2, <4>3, <4>4
    <3>2. \A o \in Slot : job'[o].at \in {"read", "update"} => job'[o] = job[o]
      BY <1>0, <3>1
    <3> QED
      BY <1>1, <3>1, <3>2
  <2>2. CASE (\E n \in 1..MaxIssued : BeginRefresh(s, n)) \/ BeginReset(s)
    <3>1. UNCHANGED <<password, past, worn, raced>>
      BY <2>2 DEF BeginRefresh, BeginReset
    <3>2. \E c, n : Comes(s, c, "rotate", n) \/ Comes(s, c, "vet", n)
      BY <2>2, RefreshComes, ResetComes
    <3>3. \A o \in Slot : job'[o].at \in {"read", "update"} =>
            job'[o].at = job[o].at /\ Alike(job'[o], job[o])
      BY <3>2 DEF Comes, Begins, Hears
    <3> QED
      BY <1>1, <3>1, <3>3
  <2>3. ASSUME NEW p \in Password, Vet(s, p)
        PROVE  WornInv' /\ UNCHANGED worn
    <3>1. /\ p # password /\ p \notin ToSet(past) /\ UNCHANGED <<password, past, worn, raced>>
          /\ job' = [job EXCEPT ![s] = [job[s] EXCEPT !.at = "read", !.next = p, !.seen = epoch]]
      BY <2>3 DEF Vet
    <3>2. /\ job'[s].at = "read" /\ job'[s].next = p
          /\ \A o \in Slot \ {s} : job'[o] = job[o]
      <4>1. /\ job'[s] = [job[s] EXCEPT !.at = "read", !.next = p, !.seen = epoch]
            /\ \A o \in Slot \ {s} : job'[o] = job[o]
        BY <1>0, <3>1
      <4>2. job'[s].at = "read" /\ job'[s].next = p
        BY <1>n, <4>1 DEF Job
      <4> QED
        BY <4>1, <4>2
    <3>3. epoch' = epoch /\ Recent' = Recent /\ Trail' = Trail
      BY <3>1 DEF epoch, Recent, Trail
    <3>4. ~raced => p \notin Recent
      BY <3>1, VettedIsNew
    <3> QED
      BY <3>1, <3>2, <3>3, <3>4 DEF WornInv
  <2>4. CASE ReadPast(s)
    <3>1. /\ UNCHANGED <<password, past, worn, raced>> /\ job[s].at = "read"
          /\ job' = [job EXCEPT ![s] = [job[s] EXCEPT !.at = "update", !.trail = Trail]]
      BY <2>4 DEF ReadPast
    <3>2. /\ job'[s].at = "update" /\ job'[s].next = job[s].next /\ job'[s].trail = Trail
          /\ job'[s].seen = job[s].seen
          /\ \A o \in Slot \ {s} : job'[o] = job[o]
      <4>1. /\ job'[s] = [job[s] EXCEPT !.at = "update", !.trail = Trail]
            /\ \A o \in Slot \ {s} : job'[o] = job[o]
        BY <1>0, <3>1
      <4>2. /\ job'[s].at = "update" /\ job'[s].next = job[s].next /\ job'[s].trail = Trail
            /\ job'[s].seen = job[s].seen
        BY <1>n, <4>1 DEF Job
      <4> QED
        BY <4>1, <4>2
    <3>3. epoch' = epoch /\ Recent' = Recent /\ Trail' = Trail
      BY <3>1 DEF epoch, Recent, Trail
    <3> QED
      BY <3>1, <3>2, <3>3 DEF WornInv
  <2>5. CASE Update(s)
    <3> DEFINE p == job[s].next
    <3>1. /\ job[s].at = "update" /\ password' = p /\ past' = job[s].trail
          /\ worn' = <<p>> \o worn /\ (raced' <=> raced \/ epoch # job[s].seen)
          /\ \/ job' = [job EXCEPT ![s] = [Idle EXCEPT !.at = "revoke"]]
             \/ job' = [job EXCEPT ![s] = Idle]
      BY <2>5 DEF Update
    <3>2. p \in Password
      BY <1>n, JobTypes
    <3>3. /\ worn'[1] = p /\ epoch' = epoch + 1
          /\ Len(worn') = Len(worn) + 1
      BY <3>1, <3>2, WornTypes DEF epoch
    <3>4. [Idle EXCEPT !.at = "revoke"].at = "revoke"
      BY DEF Idle
    <3>5. \A o \in Slot : job'[o].at \in {"read", "update"} =>
            job'[o].seen = job[o].seen /\ o # s
      BY <1>0, <1>i, <3>1, <3>4
    <3>6. \A o \in Slot : job'[o].at \in {"read", "update"} => job'[o].seen # epoch'
      BY <1>n, <3>3, <3>5
    <3>7. ASSUME ~raced'
          PROVE  /\ ~raced /\ job[s].seen = epoch /\ p \notin Recent /\ past' = Trail
      BY <3>1, <3>7 DEF WornInv
    <3>8. ASSUME ~raced'
          PROVE  /\ Len(past') = SmallerOf(epoch', HistoryLimit)
                 /\ \A i \in 1..Len(past') : past'[i] = worn'[i + 1]
      BY <3>1, <3>2, <3>3, <3>7, <3>8, TrailFollows
    <3>9. password' = worn'[1]
      BY <3>1, <3>3
    <3> HIDE DEF p
    <3>10. WornInv'
      BY <3>6, <3>8, <3>9 DEF WornInv
    <3> QED
      BY <3>3, <3>7, <3>10
  <2>6. CASE Revoke(s)
    <3>1. /\ job'[s] = Idle
          /\ \A o \in Slot \ {s} :
               job'[o] = IF Overtaken(o) THEN [job[o] EXCEPT !.late = TRUE] ELSE job[o]
      BY <2>6, RevokeTypes
    <3>2. \A o \in Slot : job'[o].at \in {"read", "update"} =>
            job'[o] = job[o] \/ (job'[o].at = job[o].at /\ Alike(job'[o], job[o]))
      BY <1>i, <1>n, <3>1, Overrun
    <3>3. UNCHANGED <<password, past, worn, raced>>
      BY <2>6 DEF Revoke
    <3> QED
      BY <1>1, <3>2, <3>3
  <2> QED
    BY <1>2, <2>1, <2>2, <2>3, <2>4, <2>5, <2>6 DEF Requests
<1>3. CASE Logouts \/ MailReset \/ LockLapses \/ UNCHANGED vars
  <2>1. UNCHANGED <<password, past, worn, raced, job>>
    BY <1>3 DEF Logouts, Logout, MailReset, LockLapses, vars, user, ages
  <2> QED
    BY <1>1, <2>1
<1>4. CASE Restart
  <2>1. job' = [s \in Slot |-> Idle] /\ UNCHANGED <<password, past, worn, raced>>
    BY <1>4 DEF Restart, user
  <2> QED
    BY <1>1, <1>i, <2>1
<1> QED
  BY <1>2, <1>3, <1>4, NextActors

-----------------------------------------------------------------------------
(* The invariant, and what follows from it *)

IInv == /\ TypeOK /\ TrailsAreShort /\ RestInv /\ TokenInv /\ MissInv
        /\ StoreInv /\ WornInv

LEMMA FromTheStart == Init => IInv
<1> SUFFICES ASSUME Init PROVE IInv
  OBVIOUS
<1>1. TypeOK /\ TrailsAreShort
  BY TypeInit
<1>2. \A s \in Slot : /\ job[s].at = "idle" /\ job[s].seen = 0 /\ job[s].holds = NoCredential
  BY DEF Init, Idle
<1>3. store = {} /\ spent = {} /\ reset = 0 /\ mails = 0 /\ ~locked /\ misses = uncounted /\ epoch = 0
  BY DEF Init, epoch
<1>4. RestInv
  BY <1>2, <1>3 DEF RestInv
<1>5. TokenInv
  BY <1>2, <1>3, CredentialsAre DEF TokenInv, ExchangedOnce, Held
<1>6. MissInv
  BY <1>3 DEF MissInv
<1>7. StoreInv
  <2>1. Cardinality({}) = 0 /\ IsFiniteSet({})
    BY FS_EmptySet
  <2>2. {x \in store : x.kind = "refresh"} = {}
    BY <1>3
  <2> QED
    BY <1>3, <2>1, <2>2, Numbers DEF StoreInv, StoreIsBounded, Distinct
<1>8. WornInv
  <2>1. password = First /\ worn = <<First>> /\ past = <<>>
    BY DEF Init
  <2>2. Len(past) = SmallerOf(epoch, HistoryLimit)
    BY <1>3, <2>1, Numbers DEF SmallerOf
  <2> QED
    BY <1>2, <2>1, <2>2 DEF WornInv
<1> QED
  BY <1>1, <1>4, <1>5, <1>6, <1>7, <1>8 DEF IInv

LEMMA Continues == IInv /\ [Next]_vars => IInv'
<1> SUFFICES ASSUME IInv, [Next]_vars PROVE IInv'
  OBVIOUS
<1>1. /\ TypeOK /\ TrailsAreShort /\ RestInv /\ TokenInv /\ MissInv
      /\ StoreInv /\ WornInv
  BY DEF IInv
<1>2. TypeOK' /\ TrailsAreShort'
  BY <1>1, TypeStep
<1>3. RestInv' /\ TokenInv' /\ MissInv' /\ StoreInv' /\ WornInv'
  BY <1>1, <1>2, RestStep, TokenStep, MissStep, StoreStep, WornStep
<1> QED
  BY <1>2, <1>3 DEF IInv

LEMMA IInvAlways == Spec => []IInv
  BY FromTheStart, Continues, PTL DEF Spec

\* The row, the sessions and the locals of every request keep their types,
\* and a password history no update makes longer than its limit. (User rows,
\* memorySessions)
THEOREM TypesKept == Spec => []TypeOK
<1>1. IInv => TypeOK
  BY DEF IInv
<1> QED
  BY <1>1, IInvAlways, PTL

\* However logins, refreshes, changes and restarts interleave, a session that
\* goes back to an earlier password is one of those that are excused.
\* (changePassword, resetPassword, login, refreshAccessToken)
THEOREM SessionsRest == Spec => []SessionsRestOnPassword
<1>1. IInv => SessionsRestOnPassword
  BY RestInvRests DEF IInv
<1> QED
  BY <1>1, IInvAlways, PTL

\* A refresh token that has been exchanged, and a reset token that has been
\* exchanged and not sent again since, is presented by those requests only that
\* had it together with the one that exchanged it. (refreshAccessToken,
\* requestPasswordReset, resetPassword)
THEOREM TokensExchangedOnce == Spec => []ExchangedOnce
<1>1. IInv => ExchangedOnce
  BY DEF IInv, TokenInv
<1> QED
  BY <1>1, IInvAlways, PTL

\* For every limit and every number of requests at a time, the wrong passwords
\* compared before a lock stay below their sum and the number of those whose
\* count was lost. (login, recordFailedLoginAttempt)
THEOREM MissesBounded == Spec => []MissesAreBounded
<1>1. IInv => MissesAreBounded
  BY MissInvBounds DEF IInv
<1> QED
  BY <1>1, IInvAlways, PTL

\* For every limit, and whatever is stored, rotated, logged out and evicted in
\* between, the store stays within one entry of the limit and its refresh
\* entries within the limit. (_enforceMemorySessionLimit)
THEOREM StoreBounded == Spec => []StoreIsBounded
<1>1. IInv => StoreIsBounded
  BY DEF IInv, StoreInv
<1> QED
  BY <1>1, IInvAlways, PTL

\* For every length of the history, no step gives the account a password that is
\* the present one or in reach of the history, unless a change has been
\* overtaken by another since it vetted its password. (checkPasswordHistory,
\* updatePassword)
THEOREM PasswordsAreNew == Spec => NoReuse
<1>1. IInv /\ [Next]_vars => [worn' # worn => raced' \/ worn'[1] \notin Recent]_vars
  BY WornStep DEF IInv
<1> QED
  BY <1>1, IInvAlways, PTL DEF Spec, NoReuse
=============================================================================
