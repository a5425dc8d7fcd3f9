---------------------------- MODULE Oauth_proofs ----------------------------
(***************************************************************************)
(* One OAuth2 credential, for any number of requests, sources, processes    *)
(* and scenes: what is handed out is sound, a live token is not replaced,    *)
(* and the credential on disk survives.                                     *)
(*                                                                         *)
(* The argument for the last is about who knows a refresh token.  One that   *)
(* only its writer knows cannot be presented, and so is live; it becomes     *)
(* known no earlier than it is on disk, and from then on whoever retires it  *)
(* carries its successor.                                                   *)
(***************************************************************************)
EXTENDS Oauth, TLAPS

Minting == {"holding", "minting", "read", "asking", "answered", "received", "writing",
            "written", "renamed", "saved", "exchanging"}

Answering == {"answered", "received", "writing", "written", "renamed", "saved", "exchanging"}

Call == [pc : Minting \union {"idle", "queued", "done", "failed"},
         src : Source \union {None}, enrols : BOOLEAN, grant : Grant \union {None},
         answer : Answer \union {None}, token : Token \union {None},
         fd : {"tmp", "disk", "gone"} \union {None}]

-----------------------------------------------------------------------------
(* The invariant. *)

Typed ==
  /\ scene \in Scene
  /\ disk \in Grant \union {None} /\ tmp \in Grant \union {None}
  /\ disk # None => disk.rt <= issued
  /\ tmp # None => tmp.rt <= issued
  /\ grants \in [Process -> Grant \union {None}]
  /\ \A p \in Process : grants[p] # None => grants[p].rt <= issued
  /\ access \in [Process -> Token \union {None}]
  /\ lock \in [Source -> Task \union {None}]
  /\ task \in [Task -> Call]
  /\ issued \in 1 .. scene.responses + 1
  /\ live \subseteq 1 .. issued /\ durable \subseteq 1 .. issued
  /\ mislaid \in BOOLEAN /\ crossed \in BOOLEAN

\* The refresh token has been on disk, if there is one.
Saved(rt) == crossed \/ rt = 0 \/ rt \in durable

Sound(k) == Saved(k.rt) /\ (scene.exchange => k.exchanged \/ k.enrolled)

\* How far a call has come, and what it holds by then.
CallOK(c) ==
  /\ c.pc = "idle" => ~c.enrols /\ c.grant = None /\ c.token = None /\ c.src = None
  /\ c.pc # "idle" => c.src \in scene.sources
  /\ c.pc = "read" \/ (c.pc = "asking" /\ ~c.enrols) => c.grant # None
  /\ c.grant # None => c.grant.rt <= issued
  /\ c.pc \in Answering => c.answer # None /\ c.answer.rt <= issued
  /\ c.pc \in {"received", "writing", "written", "renamed"} => c.answer.rt # 0
  /\ c.pc = "writing" => c.fd \in {"tmp", "disk", "gone"}
  /\ c.pc \in {"renamed", "saved", "exchanging"} => Saved(c.answer.rt)
  /\ c.pc \in {"queued", "holding", "minting", "read", "exchanging"} => ~c.enrols
  /\ c.pc = "exchanging" => scene.exchange
  /\ c.token # None => Sound(c.token)

Calls == \A t \in Task : CallOK(task[t])

Cached == \A p \in Process : access[p] # None => Sound(access[p])

\* Who refreshes holds the lock of its source, and nobody else does.
Locks ==
  /\ \A t \in Task : At(t, Minting) /\ ~task[t].enrols => lock[task[t].src] = t
  /\ \A s \in Source : lock[s] # None =>
       task[lock[s]].src = s /\ At(lock[s], Minting) /\ ~task[lock[s]].enrols

\* A source that mints has found no token of its own, and nobody but an
\* enrolment has cached one since.
Needed ==
  \A t \in Task :
    At(t, Minting \ {"holding"}) /\ ~task[t].enrols /\ access[Home(t)] # None =>
      access[Home(t)].by # task[t].src \/ access[Home(t)].enrolled

\* As long as two writers have not had the temporary file at once.
OneWriter ==
  ~crossed =>
    /\ disk # Torn
    /\ \A t, u \in Task : At(t, {"writing", "written"}) /\ At(u, {"writing", "written"}) => t = u
    /\ \A t \in Task : At(t, {"writing"}) => task[t].fd = "tmp"
    /\ \A t \in Task : At(t, {"written"}) => tmp = Rotated(t)

\* No fault has taken an answer away, and a provider that revokes on reuse has
\* one source to do with.
Tame ==
  /\ ~mislaid
  /\ scene.revokes => /\ \A r, s \in scene.sources : r = s
                      /\ \A t \in Task : ~task[t].enrols

\* Somebody could present this refresh token, or soon will.
KnownIn(file, caches, calls, x) ==
  \/ file # None /\ file.rt = x
  \/ \E p \in Process : caches[p] # None /\ caches[p].rt = x
  \/ \E t \in Task : calls[t].grant # None /\ calls[t].grant.rt = x

Known(x) == KnownIn(disk, grants, task, x)

KnownNext(x) == KnownIn(disk', grants', task', x)

\* The refresh token a call carries and has not put into a file.
Fresh0(t) == At(t, {"answered", "received", "writing"}) /\ Rotates(t)

Secret ==
  /\ \A t \in Task : Fresh0(t) => task[t].answer.rt \in live /\ ~Known(task[t].answer.rt)
  /\ \A t, u \in Task :
       t # u /\ At(t, Answering) /\ At(u, Answering) /\ Rotates(t) =>
         task[t].answer.rt # task[u].answer.rt
  /\ tmp # None /\ tmp.rt # 0 =>
       /\ tmp.rt \in live /\ ~Known(tmp.rt)
       /\ \A t \in Task : Fresh0(t) \/ At(t, {"renamed"}) => task[t].answer.rt # tmp.rt

\* A file that holds no grant yet is being written.
Whole ==
  /\ disk = Torn => \E t \in Task : At(t, {"writing"}) /\ task[t].fd = "disk"
  /\ tmp = Torn => \E t \in Task : At(t, {"writing"}) /\ task[t].fd = "tmp"

Carried(t) == AtRisk(t) /\ (At(t, {"writing", "written"}) => tmp # None)

Survives ==
  \/ disk = None \/ disk = Torn \/ disk.rt \in live
  \/ \E t \in Task : Carried(t)

\* A provider that revokes on reuse never sees a dead token.
Unrevoked ==
  scene.revokes =>
    /\ \A t \in Task : At(t, {"read", "asking"}) => task[t].grant.rt \in live
    /\ \A s \in scene.sources :
         \/ grants[ProcessOf[s]] = None \/ grants[ProcessOf[s]].rt \in live
         \/ \E t \in Task : AtRisk(t) \/ At(t, {"renamed"})
    /\ \A t \in Task : AtRisk(t) \/ At(t, {"renamed"}) => task[t].answer.rt \in live
    /\ \A t \in Task : At(t, {"writing", "written"}) => tmp # None

Survival == Tame => Secret /\ Whole /\ Survives /\ Unrevoked

IInv ==
  /\ Typed /\ Calls /\ Cached /\ Locks /\ Needed /\ OneWriter
  /\ Survival
-----------------------------------------------------------------------------
(* Calls as records. *)

Pcs == Minting \union {"idle", "queued", "done", "failed"}

LEMMA NoneIsNothing == None \notin Task /\ None \notin Source /\ None \notin Grant /\ None \notin Answer
  BY OauthConfig

\* Most steps of a call assign only to its pc.
LEMMA SetPc ==
  ASSUME NEW c \in Call, NEW p \in Pcs, NEW r, r = [c EXCEPT !.pc = p]
  PROVE  /\ r \in Call /\ r.pc = p /\ r.src = c.src /\ r.enrols = c.enrols
         /\ r.grant = c.grant /\ r.answer = c.answer /\ r.token = c.token /\ r.fd = c.fd
  BY DEF Call, Pcs

LEMMA Moved ==
  ASSUME Typed, NEW t \in Task, NEW r \in Call, Goes(t, r)
  PROVE  /\ task' \in [Task -> Call] /\ task'[t] = r
         /\ \A u \in Task : u # t => task'[u] = task[u]
  <1> HIDE DEF Call
  <1> QED
    BY DEF Typed, Goes

LEMMA CallIs ==
  ASSUME Typed, NEW t \in Task
  PROVE  /\ task[t] \in Call /\ task[t].pc \in Pcs /\ task[t].src \in Source \union {None}
         /\ task[t].enrols \in BOOLEAN /\ task[t].grant \in Grant \union {None}
         /\ task[t].answer \in Answer \union {None} /\ task[t].token \in Token \union {None}
  BY DEF Typed, Call, Pcs

\* What history and the scene may do while a call goes on.
Onward ==
  /\ issued <= issued' /\ durable \subseteq durable' /\ (crossed => crossed')
  /\ scene'.sources = scene.sources /\ scene'.exchange = scene.exchange

LEMMA SavedStays ==
  ASSUME Onward, NEW rt, Saved(rt)
  PROVE  crossed' \/ rt = 0 \/ rt \in durable'
  BY DEF Onward, Saved

LEMMA OthersOK ==
  ASSUME IInv, Onward, Typed', NEW u \in Task, task'[u] = task[u]
  PROVE  CallOK(task[u])'
  <1> DEFINE c == task[u]
  <1>1. CallOK(c) /\ task'[u] = c
    BY DEF IInv, Calls
  <1>2. /\ c.grant # None => c.grant \in Grant
        /\ c.answer # None => c.answer \in Answer
        /\ issued \in Nat /\ issued' \in Nat
    BY CallIs DEF IInv, Typed, Scene
  <1>3. /\ c.grant # None /\ c.grant.rt <= issued => c.grant.rt <= issued'
        /\ c.answer # None /\ c.answer.rt <= issued => c.answer.rt <= issued'
    BY <1>2 DEF Onward, Grant, Answer
  <1>4. Saved(c.answer.rt) => crossed' \/ c.answer.rt = 0 \/ c.answer.rt \in durable'
    BY DEF Onward, Saved
  <1>5. c.token # None /\ Sound(c.token) =>
          /\ crossed' \/ c.token.rt = 0 \/ c.token.rt \in durable'
          /\ scene'.exchange => c.token.exchanged \/ c.token.enrolled
    BY DEF Onward, Saved, Sound
  <1> HIDE DEF c
  <1> QED
    BY <1>1, <1>3, <1>4, <1>5 DEF CallOK, At, Onward, Saved, Sound, c

\* A call goes on.
LEMMA TaskMoves ==
  ASSUME IInv, NEW t \in Task, NEW r \in Call, Goes(t, r), Typed', Onward,
         CallOK(task[t])',
         \/ /\ lock' = lock
            /\ (r.pc \in Minting /\ ~r.enrols) <=> (At(t, Minting) /\ ~task[t].enrols)
         \/ lock' = Unlocked(t) /\ r.pc \notin Minting,
         r.pc \in Minting /\ ~r.enrols => r.src = task[t].src
  PROVE  Calls' /\ Locks'
  <1>1. /\ task' \in [Task -> Call] /\ task'[t] = r
        /\ \A u \in Task : u # t => task'[u] = task[u]
    BY Moved DEF IInv
  <1>2. Calls'
    BY <1>1, OthersOK DEF Calls
  <1>3. Locks'
    <2>1. lock \in [Source -> Task \union {None}]
      BY DEF IInv, Typed
    <2>2. CASE /\ lock' = lock
               /\ (r.pc \in Minting /\ ~r.enrols) <=> (At(t, Minting) /\ ~task[t].enrols)
      <3>1. ASSUME NEW u \in Task, At(u, Minting)', ~task'[u].enrols
            PROVE  lock'[task'[u].src] = u
        <4>1. CASE u = t
          BY <1>1, <2>2, <3>1, <4>1 DEF IInv, Locks, At
        <4>2. CASE u # t
          BY <1>1, <2>2, <3>1, <4>2 DEF IInv, Locks, At
        <4> QED
          BY <4>1, <4>2
      <3>2. ASSUME NEW s \in Source, lock'[s] # None
            PROVE  task'[lock'[s]].src = s /\ task'[lock'[s]].pc \in Minting /\ ~task'[lock'[s]].enrols
        <4>1. /\ lock[s] \in Task /\ lock'[s] = lock[s] /\ task[lock[s]].src = s
              /\ At(lock[s], Minting) /\ ~task[lock[s]].enrols
          BY <2>1, <2>2, <3>2 DEF IInv, Locks
        <4>2. CASE lock[s] = t
          BY <1>1, <2>2, <4>1, <4>2 DEF At
        <4>3. CASE lock[s] # t
          BY <1>1, <4>1, <4>3 DEF At
        <4> QED
          BY <4>2, <4>3
      <3> QED
        BY <3>1, <3>2 DEF Locks, At
    <2>3. CASE lock' = Unlocked(t) /\ r.pc \notin Minting
      <3>0. \A s \in Source : lock'[s] = IF lock[s] = t THEN None ELSE lock[s]
        BY <2>3 DEF Unlocked
      <3>1. ASSUME NEW u \in Task, At(u, Minting)', ~task'[u].enrols
            PROVE  lock'[task'[u].src] = u
        <4>1. u # t /\ task'[u] = task[u]
          BY <1>1, <2>3, <3>1 DEF At
        <4>2. At(u, Minting) /\ ~task[u].enrols
          BY <3>1, <4>1 DEF At
        <4>3. lock[task[u].src] = u
          BY <4>2 DEF IInv, Locks
        <4>4. task[u].src \in Source
          BY <4>2, CallIs DEF IInv, Calls, CallOK, At, Minting, Typed, Scene
        <4> QED
          BY <3>0, <4>1, <4>3, <4>4
      <3>2. ASSUME NEW s \in Source, lock'[s] # None
            PROVE  task'[lock'[s]].src = s /\ task'[lock'[s]].pc \in Minting /\ ~task'[lock'[s]].enrols
        <4>1. /\ lock[s] \in Task /\ lock'[s] = lock[s] /\ task[lock[s]].src = s /\ lock[s] # t
              /\ At(lock[s], Minting) /\ ~task[lock[s]].enrols
          BY <2>1, <3>0, <3>2 DEF IInv, Locks
        <4> QED
          BY <1>1, <4>1 DEF At
      <3> QED
        BY <3>1, <3>2 DEF Locks, At
    <2> QED
      BY <2>2, <2>3
  <1> QED
    BY <1>2, <1>3

\* The same, while the access tokens stay as they are.
LEMMA TaskStep ==
  ASSUME IInv, NEW t \in Task, NEW r \in Call, Goes(t, r), Typed', Onward, access' = access,
         CallOK(task[t])',
         \/ /\ lock' = lock
            /\ (r.pc \in Minting /\ ~r.enrols) <=> (At(t, Minting) /\ ~task[t].enrols)
         \/ lock' = Unlocked(t) /\ r.pc \notin Minting,
         r.pc \in Minting /\ ~r.enrols =>
           /\ r.src = task[t].src
           /\ At(t, {"holding"}) /\ r.pc # "holding" => access[Home(t)] = None
  PROVE  Calls' /\ Cached' /\ Locks' /\ Needed'
  <1>1. /\ task' \in [Task -> Call] /\ task'[t] = r
        /\ \A u \in Task : u # t => task'[u] = task[u]
    BY Moved DEF IInv
  <1>2. Calls' /\ Locks'
    BY TaskMoves
  <1>3. Cached'
    BY DEF Cached, IInv, Sound, Saved, Onward, Typed
  <1>4. Needed'
    <2>1. ASSUME NEW u \in Task, At(u, Minting \ {"holding"})', ~task'[u].enrols,
                 access'[Home(u)'] # None
          PROVE  access'[Home(u)'].by # task'[u].src \/ access'[Home(u)'].enrolled
      <3>1. CASE u # t
        BY <1>1, <2>1, <3>1 DEF IInv, Needed, At, Home
      <3>2. CASE u = t
        <4>1. r.pc \in Minting /\ ~r.enrols /\ r.pc # "holding" /\ task'[u] = r
          BY <1>1, <2>1, <3>2 DEF At
        <4>2. r.src = task[t].src /\ Home(u)' = Home(t)
          BY <3>2, <4>1 DEF Home
        <4>3. ~At(t, {"holding"})
          BY <2>1, <4>1, <4>2
        <4>4. At(t, Minting) /\ ~task[t].enrols
          BY <4>1
        <4>5. At(t, Minting \ {"holding"})
          BY <4>3, <4>4 DEF At
        <4> QED
          BY <2>1, <4>1, <4>2, <4>4, <4>5 DEF IInv, Needed
      <3> QED
        BY <3>1, <3>2
    <2> QED
      BY <2>1 DEF Needed
  <1> QED
    BY <1>2, <1>3, <1>4

LEMMA QuietWriters ==
  ASSUME IInv, disk' = disk, tmp' = tmp, crossed' = crossed,
         \A u \in Task : At(u, {"writing", "written"})' => task'[u] = task[u]
  PROVE  OneWriter'
  <1>1. \A u \in Task : At(u, {"writing", "written"})' =>
          /\ At(u, {"writing", "written"}) /\ task'[u] = task[u]
    BY DEF At
  <1> QED
    BY <1>1 DEF IInv, OneWriter, At, Rotated, Torn

\* Everything but the survival of the credential.
Base == Typed /\ Calls /\ Cached /\ Locks /\ Needed /\ OneWriter

LEMMA TypedStep ==
  ASSUME IInv, NEW t \in Task, NEW r \in Call, Goes(t, r), lock' \in {lock, Unlocked(t)},
         UNCHANGED <<disk, tmp, grants, access, issued, durable, crossed, scene>>,
         live' \subseteq live, mislaid' \in BOOLEAN
  PROVE  Typed' /\ Onward
  <1>1. task' \in [Task -> Call]
    BY Moved DEF IInv
  <1>2. lock' \in [Source -> Task \union {None}]
    <2>1. lock \in [Source -> Task \union {None}]
      BY DEF IInv, Typed
    <2>2. Unlocked(t) \in [Source -> Task \union {None}]
      BY <2>1 DEF Unlocked
    <2> QED
      BY <2>1, <2>2
  <1>3. Typed'
    BY <1>1, <1>2 DEF IInv, Typed
  <1>4. issued \in Nat
    BY DEF IInv, Typed, Scene
  <1> QED
    BY <1>3, <1>4 DEF Onward

\* A call goes on that touches neither files nor caches.
LEMMA Quietly ==
  ASSUME IInv, NEW t \in Task, NEW r \in Call, Goes(t, r),
         UNCHANGED <<disk, tmp, grants, access, issued, durable, crossed, scene>>,
         live' \subseteq live, mislaid' \in BOOLEAN, CallOK(r),
         r.pc \notin {"writing", "written"},
         \/ /\ lock' = lock
            /\ (r.pc \in Minting /\ ~r.enrols) <=> (At(t, Minting) /\ ~task[t].enrols)
         \/ lock' = Unlocked(t) /\ r.pc \notin Minting,
         r.pc \in Minting /\ ~r.enrols =>
           /\ r.src = task[t].src
           /\ At(t, {"holding"}) /\ r.pc # "holding" => access[Home(t)] = None
  PROVE  Base'
  <1>1. /\ task' \in [Task -> Call] /\ task'[t] = r
        /\ \A u \in Task : u # t => task'[u] = task[u]
    BY Moved DEF IInv
  <1>2. Typed' /\ Onward
    BY TypedStep
  <1>3. CallOK(task[t])'
    BY <1>1 DEF CallOK, Saved, Sound
  <1>4. Calls' /\ Cached' /\ Locks' /\ Needed'
    BY <1>2, <1>3, TaskStep
  <1>5. OneWriter'
    <2>1. \A u \in Task : At(u, {"writing", "written"})' => task'[u] = task[u]
      BY <1>1 DEF At
    <2> QED
      BY <2>1, QuietWriters
  <1> QED
    BY <1>2, <1>4, <1>5 DEF Base

LEMMA FailsBase ==
  ASSUME IInv, NEW t \in Task, Fails(t), ~At(t, {"idle", "done", "failed"}),
         UNCHANGED <<disk, tmp, grants, access, issued, durable, crossed, scene>>,
         live' \subseteq live, mislaid' \in BOOLEAN
  PROVE  Base'
  <1> DEFINE c == task[t]
             r == [c EXCEPT !.pc = "failed", !.fd = None]
  <1>1. c \in Call /\ "failed" \in Pcs /\ CallOK(c)
    BY CallIs DEF IInv, Calls, Pcs
  <1>0. r = [c EXCEPT !.pc = "failed", !.fd = None] /\ None \in {"tmp", "disk", "gone"} \union {None}
    OBVIOUS
  <1>3. Goes(t, r) /\ lock' = Unlocked(t) /\ c.pc # "idle"
    BY DEF Fails, At
  <1> HIDE DEF r, c
  <1>2. /\ r \in Call /\ r.pc = "failed" /\ r.src = c.src /\ r.enrols = c.enrols
        /\ r.grant = c.grant /\ r.answer = c.answer /\ r.token = c.token
    BY <1>0, <1>1 DEF Call, Pcs
  <1>4. CallOK(r)
    BY <1>1, <1>2, <1>3 DEF CallOK, Answering
  <1>5. r.pc \notin {"writing", "written"} /\ r.pc \notin Minting
    BY <1>2 DEF Minting
  <1> QED
    BY <1>2, <1>3, <1>4, <1>5, Quietly

LEMMA FailuresBase ==
  ASSUME IInv, NEW t \in Task,
         \/ NotEnrolled(t) \/ ProviderRefuses(t) \/ ProviderFails(t) \/ TimesOut(t)
         \/ RenameFindsNothing(t) \/ PutGrantFails(t) \/ ExchangeFails(t) \/ Cancelled(t)
  PROVE  Base'
  <1>1. ~At(t, {"idle", "done", "failed"}) /\ Fails(t)
    BY DEF NotEnrolled, ProviderRefuses, ProviderFails, TimesOut, RenameFindsNothing,
           PutGrantFails, ExchangeFails, Cancelled, At
  <1>2. UNCHANGED <<disk, tmp, grants, access, issued, durable, crossed, scene>>
        /\ live' \subseteq live
    BY DEF NotEnrolled, ProviderRefuses, ProviderFails, TimesOut, RenameFindsNothing,
           PutGrantFails, ExchangeFails, Cancelled, Store, Provider, History
  <1>3. mislaid' \in BOOLEAN
    BY DEF NotEnrolled, ProviderRefuses, ProviderFails, TimesOut, RenameFindsNothing,
           PutGrantFails, ExchangeFails, Cancelled, Store, Provider, History, IInv, Typed
  <1> QED
    BY <1>1, <1>2, <1>3, FailsBase

LEMMA BeginsBase ==
  ASSUME IInv, NEW t \in Task, NEW s \in Source, Hit(t, s) \/ Miss(t, s)
  PROVE  Base'
  <1> DEFINE k == IF Hit(t, s) THEN access[ProcessOf[s]] ELSE None
             p == IF Hit(t, s) THEN "done" ELSE "queued"
  <1>1. /\ ProcessOf[s] \in Process /\ access[ProcessOf[s]] \in Token \union {None}
        /\ s \in scene.sources /\ p \in Pcs
    BY OauthConfig DEF IInv, Typed, Hit, Miss, Usable, Pcs
  <1>2. PICK r : /\ Goes(t, r)
                 /\ \/ r = [Idle EXCEPT !.pc = p, !.src = s, !.token = k]
                    \/ k = None /\ r = [Idle EXCEPT !.pc = p, !.src = s]
    BY DEF Hit, Miss
  <1>3. /\ UNCHANGED <<disk, tmp, grants, access, issued, durable, crossed, scene>>
        /\ live' \subseteq live /\ mislaid' \in BOOLEAN /\ lock' = lock /\ At(t, {"idle"})
    BY DEF Hit, Miss, Store, Provider, History, IInv, Typed
  <1>4. k # None => Sound(k)
    BY <1>1 DEF IInv, Cached
  <1>5. k \in Token \union {None} /\ p \in {"done", "queued"}
    BY <1>1
  <1> HIDE DEF k, p
  <1>6. /\ r \in Call /\ r.pc = p /\ r.src = s /\ r.enrols = FALSE
        /\ r.grant = None /\ r.answer = None /\ r.token = k
    BY <1>1, <1>2, <1>5 DEF Call, Idle, Pcs
  <1>7. CallOK(r)
    BY <1>1, <1>4, <1>5, <1>6 DEF CallOK, Answering
  <1>8. r.pc \notin {"writing", "written"} /\ r.pc \notin Minting /\ ~At(t, Minting)
    BY <1>3, <1>5, <1>6 DEF Minting, At
  <1> QED
    BY <1>2, <1>3, <1>6, <1>7, <1>8, Quietly

LEMMA EnrolBase ==
  ASSUME IInv, NEW t \in Task, NEW s \in Source, Enrol(t, s)
  PROVE  Base'
  <1> DEFINE r == [Idle EXCEPT !.pc = "asking", !.src = s, !.enrols = TRUE]
  <1>1. /\ Goes(t, r) /\ At(t, {"idle"}) /\ s \in scene.sources
        /\ UNCHANGED <<disk, tmp, grants, access, issued, durable, crossed, lock, live, mislaid>>
        /\ scene' = [scene EXCEPT !.enrolments = @ - 1] /\ scene.enrolments > 0
    BY DEF Enrol, Store, Provider, History, Usable
  <1>2. /\ r \in Call /\ r.pc = "asking" /\ r.src = s /\ r.enrols = TRUE
        /\ r.grant = None /\ r.answer = None /\ r.token = None
    BY DEF Call, Idle, Minting
  <1> HIDE DEF r
  <1>3. /\ scene' \in Scene /\ scene'.sources = scene.sources
        /\ scene'.exchange = scene.exchange /\ scene'.responses = scene.responses
    BY <1>1 DEF IInv, Typed, Scene
  <1>4. /\ task' \in [Task -> Call] /\ task'[t] = r
        /\ \A u \in Task : u # t => task'[u] = task[u]
    BY <1>1, <1>2, Moved DEF IInv
  <1>5. Typed'
    BY <1>1, <1>3, <1>4 DEF IInv, Typed
  <1>6. Onward
    BY <1>1, <1>3 DEF Onward, IInv, Typed, Scene
  <1>7. CallOK(task[t])'
    BY <1>1, <1>2, <1>3, <1>4 DEF CallOK, Answering
  <1>8. Calls' /\ Cached' /\ Locks' /\ Needed'
    <2>1. ~At(t, Minting) /\ ~(r.pc \in Minting /\ ~r.enrols)
      BY <1>1, <1>2 DEF At, Minting
    <2> QED
      BY <1>1, <1>2, <1>5, <1>6, <1>7, <2>1, TaskStep
  <1>9. OneWriter'
    <2>1. \A u \in Task : At(u, {"writing", "written"})' => task'[u] = task[u]
      BY <1>2, <1>4 DEF At
    <2> QED
      BY <1>1, <2>1, QuietWriters
  <1> QED
    BY <1>5, <1>8, <1>9 DEF Base

LEMMA HomeIs ==
  ASSUME IInv, NEW t \in Task, ~At(t, {"idle"})
  PROVE  task[t].src \in Source /\ task[t].src \in scene.sources /\ Home(t) \in Process
  BY OauthConfig DEF IInv, Calls, CallOK, At, Home, Typed, Scene

LEMMA AcquireBase ==
  ASSUME IInv, NEW t \in Task, Acquire(t)
  PROVE  Base'
  <1> DEFINE c == task[t]
             r == [c EXCEPT !.pc = "holding"]
  <1>1. /\ c \in Call /\ CallOK(c) /\ c.pc = "queued" /\ Goes(t, r) /\ lock[c.src] = None
        /\ lock' = [lock EXCEPT ![c.src] = t]
        /\ UNCHANGED <<disk, tmp, grants, access, issued, durable, crossed, scene, live, mislaid>>
    BY CallIs DEF IInv, Calls, Acquire, At, Store, Provider, History
  <1>2. c.src \in Source /\ lock \in [Source -> Task \union {None}]
    BY HomeIs DEF IInv, Typed, Acquire, At
  <1>3. /\ r \in Call /\ r.pc = "holding" /\ r.src = c.src /\ r.enrols = c.enrols
        /\ r.grant = c.grant /\ r.answer = c.answer /\ r.token = c.token
    BY <1>1, SetPc DEF Pcs, Minting
  <1> HIDE DEF r, c
  <1>4. /\ task' \in [Task -> Call] /\ task'[t] = r
        /\ \A u \in Task : u # t => task'[u] = task[u]
    BY <1>1, <1>3, Moved DEF IInv
  <1>5. Typed'
    <2>1. lock' \in [Source -> Task \union {None}]
      BY <1>1, <1>2
    <2> QED
      BY <1>1, <1>4, <2>1 DEF IInv, Typed
  <1>6. Onward
    BY <1>1 DEF Onward, IInv, Typed, Scene
  <1>7. Calls'
    <2>1. CallOK(task[t])'
      BY <1>1, <1>3, <1>4 DEF CallOK, Answering, Saved, Sound
    <2> QED
      BY <1>4, <1>5, <1>6, <2>1, OthersOK DEF Calls
  <1>8. Cached'
    BY <1>1 DEF IInv, Cached, Sound, Saved
  <1>9. ~c.enrols
    \* Only a request queues: an enrolment starts by asking.
    BY <1>1 DEF CallOK
  <1>10. Locks'
    <2>1. \A s \in Source : lock'[s] = IF s = c.src THEN t ELSE lock[s]
      BY <1>1, <1>2
    <2>2. ASSUME NEW u \in Task, At(u, Minting)', ~task'[u].enrols
          PROVE  lock'[task'[u].src] = u
      <3>1. CASE u = t
        BY <1>1, <1>2, <1>3, <1>4, <3>1
      <3>2. CASE u # t
        <4>1. task'[u] = task[u] /\ At(u, Minting) /\ ~task[u].enrols
          BY <1>4, <2>2, <3>2 DEF At
        <4>2. lock[task[u].src] = u /\ u # None
          BY <4>1, NoneIsNothing DEF IInv, Locks
        <4>3. task[u].src \in Source
          BY <4>1, HomeIs DEF At, Minting
        <4> QED
          BY <1>1, <2>1, <4>1, <4>2, <4>3
      <3> QED
        BY <3>1, <3>2
    <2>3. ASSUME NEW s \in Source, lock'[s] # None
          PROVE  task'[lock'[s]].src = s /\ task'[lock'[s]].pc \in Minting /\ ~task'[lock'[s]].enrols
      <3>1. CASE s = c.src
        BY <1>3, <1>4, <1>9, <2>1, <3>1 DEF Minting
      <3>2. CASE s # c.src
        <4>1. lock'[s] = lock[s] /\ lock[s] \in Task
          BY <1>2, <2>1, <2>3, <3>2
        <4>2. task[lock[s]].src = s /\ task[lock[s]].pc \in Minting /\ ~task[lock[s]].enrols
          BY <2>3, <4>1 DEF IInv, Locks, At
        <4>3. lock[s] # t
          BY <1>1, <4>2 DEF c, Minting
        <4> QED
          BY <1>4, <4>1, <4>2, <4>3
      <3> QED
        BY <3>1, <3>2
    <2> QED
      BY <2>2, <2>3 DEF Locks, At
  <1>11. Needed'
    BY <1>1, <1>3, <1>4 DEF IInv, Needed, At, Home
  <1>12. OneWriter'
    <2>1. \A u \in Task : At(u, {"writing", "written"})' => task'[u] = task[u]
      BY <1>3, <1>4 DEF At
    <2> QED
      BY <1>1, <2>1, QuietWriters
  <1> QED
    BY <1>5, <1>7, <1>8, <1>10, <1>11, <1>12 DEF Base

LEMMA RecheckBase ==
  ASSUME IInv, NEW t \in Task, Recheck(t)
  PROVE  Base'
  <1> DEFINE c == task[t]
             k == access[Home(t)]
  <1>1. /\ c \in Call /\ CallOK(c) /\ c.pc = "holding"
        /\ UNCHANGED <<disk, tmp, grants, access, issued, durable, crossed, scene, live, mislaid>>
        /\ live' \subseteq live /\ mislaid' \in BOOLEAN
    BY CallIs DEF IInv, Calls, Recheck, At, Store, Provider, History, Typed
  <1>2. k \in Token \union {None} /\ (k # None => Sound(k))
    BY <1>1, HomeIs DEF IInv, Typed, Cached, At
  <1>3. CASE k # None
    <2> DEFINE r == [c EXCEPT !.pc = "done", !.token = k]
    <2>1. Goes(t, r) /\ lock' = Unlocked(t)
      BY <1>3 DEF Recheck
    <2> HIDE DEF k, c
    <2>2. /\ r \in Call /\ r.pc = "done" /\ r.src = c.src /\ r.enrols = c.enrols
          /\ r.grant = c.grant /\ r.answer = c.answer /\ r.token = k
      BY <1>1, <1>2 DEF Call
    <2> HIDE DEF r
    <2>3. CallOK(r) /\ r.pc \notin Minting
      BY <1>1, <1>2, <2>2 DEF CallOK, Answering, Minting
    <2> QED
      BY <1>1, <2>1, <2>2, <2>3, Quietly
  <1>4. CASE k = None
    <2> DEFINE r == [c EXCEPT !.pc = "minting"]
    <2>1. Goes(t, r) /\ lock' = lock
      BY <1>4 DEF Recheck
    <2>2. /\ r \in Call /\ r.pc = "minting" /\ r.src = c.src /\ r.enrols = c.enrols
          /\ r.grant = c.grant /\ r.answer = c.answer /\ r.token = c.token
      BY <1>1, SetPc DEF Pcs, Minting
    <2> HIDE DEF r
    <2>3. CallOK(r)
      BY <1>1, <2>2 DEF CallOK, Answering
    <2>4. (r.pc \in Minting /\ ~r.enrols) <=> (At(t, Minting) /\ ~task[t].enrols)
      BY <1>1, <2>2 DEF At, Minting
    <2> QED
      BY <1>1, <1>4, <2>1, <2>2, <2>3, <2>4, Quietly
  <1> QED
    BY <1>3, <1>4

\* A step of a call that holds on to its place in mint.
LEMMA GoesOnBase ==
  ASSUME IInv, NEW t \in Task, NEW r \in Call, Goes(t, r), At(t, Minting \ {"holding"}),
         UNCHANGED <<disk, tmp, grants, access, lock, issued, durable, crossed, scene, live, mislaid>>,
         CallOK(r), r.pc \in Minting \ {"holding", "writing", "written"},
         r.src = task[t].src, r.enrols = task[t].enrols
  PROVE  Base'
  <1>1. /\ (r.pc \in Minting /\ ~r.enrols) <=> (At(t, Minting) /\ ~task[t].enrols)
        /\ ~At(t, {"holding"})
    BY DEF At
  <1>2. live' \subseteq live /\ mislaid' \in BOOLEAN
    BY DEF IInv, Typed
  <1> QED
    BY <1>1, <1>2, Quietly

LEMMA GrantBase ==
  ASSUME IInv, NEW t \in Task, GrantCached(t) \/ GrantRead(t)
  PROVE  Base'
  <1> DEFINE c == task[t]
             g == IF GrantCached(t) THEN grants[Home(t)] ELSE disk
             p == IF GrantCached(t) THEN "asking" ELSE "read"
             r == [c EXCEPT !.pc = p, !.grant = g]
  <1>1. /\ c \in Call /\ CallOK(c) /\ c.pc = "minting" /\ Goes(t, r)
        /\ UNCHANGED <<disk, tmp, grants, access, lock, issued, durable, crossed, scene, live, mislaid>>
    BY CallIs DEF IInv, Calls, GrantCached, GrantRead, At, Store, Provider, History, Asks
  <1>2. g \in Grant /\ g # None /\ g.rt <= issued /\ p \in {"asking", "read"}
    BY HomeIs DEF IInv, Typed, GrantCached, GrantRead, At
  <1>0. r = [c EXCEPT !.pc = p, !.grant = g]
    OBVIOUS
  <1> HIDE DEF c, g, p, r
  <1>3. /\ r \in Call /\ r.pc = p /\ r.src = c.src /\ r.enrols = c.enrols
        /\ r.grant = g /\ r.answer = c.answer /\ r.token = c.token
    BY <1>0, <1>1, <1>2 DEF Call, Minting
  <1>4. CallOK(r)
    BY <1>1, <1>2, <1>3 DEF CallOK, Answering
  <1>5. At(t, Minting \ {"holding"}) /\ r.pc \in Minting \ {"holding", "writing", "written"}
    BY <1>1, <1>2, <1>3 DEF At, Minting, c
  <1> QED
    BY <1>1, <1>3, <1>4, <1>5, GoesOnBase DEF c

LEMMA ReceiveBase ==
  ASSUME IInv, NEW t \in Task, Receive(t) \/ StartExchange(t)
  PROVE  Base'
  <1> DEFINE c == task[t]
  <1>1. PICK p : /\ Goes(t, [c EXCEPT !.pc = p])
                 /\ \/ c.pc = "answered" /\ p = "received" /\ Rotates(t)
                    \/ c.pc = "answered" /\ p = "saved" /\ ~Rotates(t)
                    \/ c.pc = "saved" /\ p = "exchanging" /\ scene.exchange /\ ~c.enrols
    BY DEF Receive, StartExchange, At
  <1>2. /\ c \in Call /\ CallOK(c) /\ p \in Pcs
        /\ UNCHANGED <<disk, tmp, grants, access, lock, issued, durable, crossed, scene, live, mislaid>>
    BY <1>1, CallIs DEF IInv, Calls, Receive, StartExchange, Store, Provider, History, Pcs, Minting
  <1> DEFINE r == [c EXCEPT !.pc = p]
  <1>3. /\ r \in Call /\ r.pc = p /\ r.src = c.src /\ r.enrols = c.enrols
        /\ r.grant = c.grant /\ r.answer = c.answer /\ r.token = c.token
    BY <1>2, SetPc
  <1>4. Goes(t, r)
    BY <1>1
  <1> HIDE DEF r
  <1>5. CallOK(r)
    BY <1>1, <1>2, <1>3 DEF CallOK, Answering, Rotates, Saved
  <1>6. At(t, Minting \ {"holding"}) /\ r.pc \in Minting \ {"holding", "writing", "written"}
    BY <1>1, <1>3 DEF At, Minting
  <1> QED
    BY <1>2, <1>3, <1>4, <1>5, <1>6, GoesOnBase

LEMMA GrantFilledBase ==
  ASSUME IInv, NEW t \in Task, GrantFilled(t) \/ CacheGrant(t)
  PROVE  Base'
  <1> DEFINE c == task[t]
             g == IF GrantFilled(t) THEN c.grant ELSE Rotated(t)
  <1>1. PICK r : /\ Goes(t, r)
                 /\ \/ c.pc = "read" /\ r = [c EXCEPT !.pc = "asking", !.grant = c.grant]
                    \/ c.pc = "renamed" /\ r = [c EXCEPT !.pc = "saved"]
    BY DEF GrantFilled, CacheGrant, At, Asks
  <1>2. /\ c \in Call /\ CallOK(c)
        /\ UNCHANGED <<disk, tmp, access, lock, issued, durable, crossed, scene, live, mislaid>>
        /\ grants' = [grants EXCEPT ![Home(t)] = g]
    BY CallIs DEF IInv, Calls, GrantFilled, CacheGrant, Provider, History
  <1>3. g \in Grant /\ g.rt <= issued
    <2>1. CASE c.pc = "read"
      <3>1. GrantFilled(t)
        BY <2>1 DEF GrantFilled, CacheGrant, At
      <3>2. c.grant \in Grant \union {None}
        BY CallIs DEF IInv
      <3>3. c.grant # None /\ c.grant.rt <= issued /\ c.grant \in Grant
        <4> HIDE DEF c
        <4> QED
          BY <1>2, <2>1, <3>2 DEF CallOK
      <3> QED
        BY <3>1, <3>3
    <2>2. CASE c.pc = "renamed"
      <3>1. ~GrantFilled(t)
        BY <2>2 DEF GrantFilled, At
      <3>0. c.answer \in Answer \union {None}
        BY CallIs DEF IInv
      <3>2. c.answer \in Answer /\ c.answer.rt <= issued
        <4> HIDE DEF c
        <4> QED
          BY <1>2, <2>2, <3>0 DEF CallOK, Answering
      <3>3. g = [rt |-> c.answer.rt]
        BY <3>1 DEF Rotated
      <3> HIDE DEF c, g
      <3> QED
        BY <3>2, <3>3 DEF Grant, Answer
    <2> QED
      BY <1>1, <2>1, <2>2
  <1>4. /\ r \in Call /\ r.src = c.src /\ r.enrols = c.enrols
        /\ r.grant = c.grant /\ r.answer = c.answer /\ r.token = c.token
        /\ (c.pc = "read" /\ r.pc = "asking") \/ (c.pc = "renamed" /\ r.pc = "saved")
    <2> HIDE DEF c
    <2> QED
      BY <1>1, <1>2 DEF Call, Minting
  <1>5. /\ task' \in [Task -> Call] /\ task'[t] = r
        /\ \A u \in Task : u # t => task'[u] = task[u]
    BY <1>1, <1>4, Moved DEF IInv
  <1>6. Home(t) \in Process
    BY <1>1, HomeIs DEF At
  <1> HIDE DEF g, c
  <1>7. Typed'
    <2>1. grants' \in [Process -> Grant \union {None}]
      BY <1>2, <1>3 DEF IInv, Typed
    <2>2. \A p \in Process : grants'[p] # None => grants'[p].rt <= issued
      BY <1>2, <1>3, <1>6 DEF IInv, Typed
    <2> QED
      BY <1>2, <1>5, <2>1, <2>2 DEF IInv, Typed
  <1>8. Onward
    BY <1>2 DEF Onward, IInv, Typed, Scene
  <1>9. CallOK(task[t])'
    <2>1. CallOK(r)
      BY <1>2, <1>4 DEF CallOK, Answering
    <2> QED
      BY <1>2, <1>5, <2>1 DEF CallOK, Saved, Sound
  <1>10. Calls' /\ Cached' /\ Locks' /\ Needed'
    <2>1. At(t, Minting) /\ r.pc \in Minting /\ ~At(t, {"holding"})
      BY <1>4 DEF At, Minting, c
    <2> QED
      BY <1>1, <1>2, <1>4, <1>7, <1>8, <1>9, <2>1, TaskStep DEF c
  <1>11. OneWriter'
    <2>1. \A u \in Task : At(u, {"writing", "written"})' => task'[u] = task[u]
      BY <1>4, <1>5 DEF At
    <2> QED
      BY <1>2, <2>1, QuietWriters
  <1> QED
    BY <1>7, <1>10, <1>11 DEF Base

\* The provider has answered: one more response, with a token of its number.
LEMMA AnswersBase ==
  ASSUME IInv, NEW t \in Task,
         \/ \E rotates \in BOOLEAN : ProviderAnswers(t, rotates)
         \/ ProviderRedeems(t)
  PROVE  Base'
  <1> DEFINE c == task[t]
  <1>1. PICK rt \in {0, issued'} :
          Goes(t, [c EXCEPT !.pc = "answered", !.answer = [at |-> issued', rt |-> rt]])
    BY DEF ProviderAnswers, ProviderRedeems
  <1>2. /\ c \in Call /\ CallOK(c) /\ c.pc = "asking" /\ issued <= scene.responses
        /\ UNCHANGED <<disk, tmp, grants, access, lock, durable, crossed, scene, mislaid>>
        /\ issued' = issued + 1 /\ live' \subseteq live \union {issued'}
    BY CallIs DEF IInv, Calls, ProviderAnswers, ProviderRedeems, Store, History, At
  <1>3. issued \in Nat /\ issued >= 1 /\ scene.responses \in Nat
    BY DEF IInv, Typed, Scene
  <1> DEFINE a == [at |-> issued', rt |-> rt]
             r == [c EXCEPT !.pc = "answered", !.answer = a]
  <1>4. a \in Answer /\ a.rt <= issued'
    BY <1>2, <1>3 DEF Answer
  <1>5. r = [c EXCEPT !.pc = "answered", !.answer = a] /\ Goes(t, r)
    BY <1>1
  <1> HIDE DEF r, a, c
  <1>6. /\ r \in Call /\ r.pc = "answered" /\ r.src = c.src /\ r.enrols = c.enrols
        /\ r.grant = c.grant /\ r.answer = a /\ r.token = c.token
    BY <1>2, <1>4, <1>5 DEF Call, Minting
  <1>7. /\ task' \in [Task -> Call] /\ task'[t] = r
        /\ \A u \in Task : u # t => task'[u] = task[u]
    BY <1>5, <1>6, Moved DEF IInv
  <1>8. Typed'
    <2>1. /\ issued' \in 1 .. scene.responses + 1
          /\ live' \subseteq 1 .. issued' /\ durable \subseteq 1 .. issued'
      BY <1>2, <1>3 DEF IInv, Typed
    <2>2. /\ disk # None => disk.rt <= issued'
          /\ tmp # None => tmp.rt <= issued'
          /\ \A p \in Process : grants[p] # None => grants[p].rt <= issued'
      <3>1. \A x \in Grant : x.rt <= issued => x.rt <= issued'
        BY <1>2, <1>3 DEF Grant
      <3> QED
        BY <3>1 DEF IInv, Typed
    <2> QED
      BY <1>2, <1>7, <2>1, <2>2 DEF IInv, Typed
  <1>9. Onward
    BY <1>2, <1>3 DEF Onward
  <1>10. CallOK(task[t])'
    <2>1. c.grant # None => c.grant.rt <= issued'
      <3>1. c.grant # None => c.grant.rt \in Nat /\ c.grant.rt <= issued
        BY <1>2 DEF CallOK, Call, Grant
      <3> QED
        BY <1>2, <1>3, <3>1
    <2>2. a # None
      BY <1>4, NoneIsNothing
    <2>3. c.token # None =>
            /\ crossed' \/ c.token.rt = 0 \/ c.token.rt \in durable'
            /\ scene'.exchange => c.token.exchanged \/ c.token.enrolled
      BY <1>2 DEF CallOK, Sound, Saved
    <2>4. c.src \in scene.sources
      BY <1>2 DEF CallOK
    <2> QED
      BY <1>2, <1>4, <1>6, <1>7, <2>1, <2>2, <2>3, <2>4 DEF CallOK, Answering, Sound, Saved
  <1>11. Calls' /\ Cached' /\ Locks' /\ Needed'
    <2>1. At(t, Minting) /\ r.pc \in Minting /\ ~At(t, {"holding"})
      BY <1>2, <1>6 DEF At, Minting, c
    <2> QED
      BY <1>2, <1>5, <1>6, <1>8, <1>9, <1>10, <2>1, TaskStep DEF c
  <1>12. OneWriter'
    <2>1. \A u \in Task : At(u, {"writing", "written"})' => task'[u] = task[u]
      BY <1>6, <1>7 DEF At
    <2> QED
      BY <1>2, <2>1, QuietWriters
  <1> QED
    BY <1>8, <1>11, <1>12 DEF Base

\* The caller gets its token, and the cache may keep it.
LEMMA ReturnBase ==
  ASSUME IInv, NEW t \in Task, Exchanged(t) \/ ReturnGrantsOwn(t)
  PROVE  Base'
  <1> DEFINE c == task[t]
  <1>1. PICK x \in BOOLEAN : /\ Return(t, x) /\ (scene.exchange => x \/ c.enrols)
                             /\ c.pc \in {"exchanging", "saved"}
    BY DEF Exchanged, ReturnGrantsOwn, At
  <1> DEFINE f == Fresh(t, x)
             k == IF c.enrols THEN None ELSE f
             r == [c EXCEPT !.pc = "done", !.token = k]
  <1>2. /\ c \in Call /\ CallOK(c) /\ Goes(t, r) /\ lock' = Unlocked(t)
        /\ access' \in {access, [access EXCEPT ![Home(t)] = f]}
        /\ UNCHANGED <<disk, tmp, grants, issued, durable, crossed, scene, live, mislaid>>
    BY <1>1, CallIs DEF IInv, Calls, Return, Provider, History
  <1>3. c.src \in Source /\ Home(t) \in Process
    BY <1>1, HomeIs DEF At
  <1>4. f \in Token /\ f.by = c.src /\ f.enrolled = c.enrols /\ Sound(f)
    <2>0. c.answer \in Answer \union {None} /\ c.enrols \in BOOLEAN
      BY CallIs DEF IInv
    <2>1. /\ c.answer \in Answer /\ Saved(c.answer.rt) /\ c.enrols \in BOOLEAN
      <3> HIDE DEF c
      <3> QED
        BY <1>1, <1>2, <2>0 DEF CallOK, Answering
    <2>2. f = [at |-> c.answer.at, rt |-> c.answer.rt, exchanged |-> x,
               by |-> c.src, enrolled |-> c.enrols]
      BY DEF Fresh
    <2> HIDE DEF c, f
    <2> QED
      BY <1>1, <1>3, <2>1, <2>2 DEF Token, Answer, Sound
  <1>5. k \in Token \union {None} /\ (k # None => Sound(k))
    BY <1>4
  <1>0. r = [c EXCEPT !.pc = "done", !.token = k]
    OBVIOUS
  <1> HIDE DEF f, k, r
  <1>6. /\ r \in Call /\ r.pc = "done" /\ r.src = c.src /\ r.enrols = c.enrols
        /\ r.grant = c.grant /\ r.answer = c.answer /\ r.token = k
    <2> HIDE DEF c
    <2> QED
      BY <1>0, <1>2, <1>5 DEF Call
  <1>7. /\ task' \in [Task -> Call] /\ task'[t] = r
        /\ \A u \in Task : u # t => task'[u] = task[u]
    BY <1>2, <1>6, Moved DEF IInv
  <1>8. Typed'
    <2>1. access' \in [Process -> Token \union {None}]
      BY <1>2, <1>4 DEF IInv, Typed
    <2>2. lock' \in [Source -> Task \union {None}]
      BY <1>2 DEF Unlocked, IInv, Typed
    <2> QED
      BY <1>2, <1>7, <2>1, <2>2 DEF IInv, Typed
  <1>9. Onward
    BY <1>2 DEF Onward, IInv, Typed, Scene
  <1>10. CallOK(task[t])'
    <2>1. CallOK(r)
      <3> HIDE DEF c
      <3> QED
        BY <1>1, <1>2, <1>5, <1>6 DEF CallOK, Answering
    <2> QED
      BY <1>2, <1>7, <2>1 DEF CallOK, Saved, Sound
  <1>11. Calls' /\ Locks'
    <2>1. r.pc \notin Minting
      BY <1>6 DEF Minting
    <2> QED
      BY <1>2, <1>6, <1>8, <1>9, <1>10, <2>1, TaskMoves
  <1>12. \A p \in Process : access'[p] = access[p] \/ (p = Home(t) /\ access'[p] = f)
    BY <1>2, <1>3 DEF IInv, Typed
  <1>13. Cached'
    BY <1>2, <1>4, <1>12 DEF IInv, Cached, Sound, Saved
  <1>14. Needed'
    <2>1. ASSUME NEW u \in Task, At(u, Minting \ {"holding"})', ~task'[u].enrols,
                 access'[Home(u)'] # None
          PROVE  access'[Home(u)'].by # task'[u].src \/ access'[Home(u)'].enrolled
      <3>1. u # t /\ task'[u] = task[u] /\ Home(u)' = Home(u)
        BY <1>6, <1>7, <2>1 DEF At, Minting, Home
      <3>2. At(u, Minting \ {"holding"}) /\ At(u, Minting) /\ ~task[u].enrols
        BY <2>1, <3>1 DEF At
      <3>3. Home(u) \in Process /\ task[u].src \in Source
        BY <3>2, HomeIs DEF At, Minting
      <3>4. CASE access'[Home(u)] = access[Home(u)]
        BY <2>1, <3>1, <3>2, <3>4 DEF IInv, Needed
      <3>5. CASE access'[Home(u)] = f
        <4>1. ASSUME ~c.enrols, c.src = task[u].src PROVE FALSE
          <5>1. lock[task[u].src] = u
            BY <3>2 DEF IInv, Locks
          <5>2. At(t, Minting)
            BY <1>1 DEF At, Minting
          <5>3. lock[c.src] = t
            BY <4>1, <5>2 DEF IInv, Locks
          <5> QED
            BY <3>1, <4>1, <5>1, <5>3
        <4> QED
          BY <1>4, <3>1, <3>5, <4>1
      <3> QED
        BY <1>12, <3>3, <3>4, <3>5
    <2> QED
      BY <2>1 DEF Needed
  <1>15. OneWriter'
    <2>1. \A u \in Task : At(u, {"writing", "written"})' => task'[u] = task[u]
      BY <1>6, <1>7 DEF At
    <2> QED
      BY <1>2, <2>1, QuietWriters
  <1> QED
    BY <1>8, <1>11, <1>13, <1>14, <1>15 DEF Base

-----------------------------------------------------------------------------
(* The steps that touch the files. *)

\* How a call may look after a step on the files.
Files(u) ==
  /\ task'[u].src = task[u].src /\ task'[u].enrols = task[u].enrols
  /\ task'[u].grant = task[u].grant /\ task'[u].answer = task[u].answer
  /\ task'[u].token = task[u].token
  /\ \/ task'[u].pc = task[u].pc
     \/ task[u].pc = "received" /\ task'[u].pc = "writing"
     \/ task[u].pc = "writing" /\ task'[u].pc = "written"
     \/ /\ task[u].pc = "written" /\ task'[u].pc = "renamed"
        /\ crossed' \/ task[u].answer.rt \in durable'
  /\ task'[u].pc = "writing" => task'[u].fd \in {"tmp", "disk", "gone"}

LEMMA FilesBase ==
  ASSUME IInv, Typed', Onward, \A u \in Task : Files(u),
         UNCHANGED <<access, lock>>
  PROVE  Calls' /\ Cached' /\ Locks' /\ Needed'
  <1>1. Calls'
    <2>1. ASSUME NEW u \in Task PROVE CallOK(task[u])'
      <3> DEFINE c == task[u]
                 d == task'[u]
      <3>1. CallOK(c) /\ Files(u)
        BY DEF IInv, Calls
      <3>2. /\ c.grant \in Grant \union {None} /\ c.answer \in Answer \union {None}
            /\ issued \in Nat /\ issued' \in Nat
        BY CallIs DEF IInv, Typed, Scene
      <3>3. /\ c.grant # None /\ c.grant.rt <= issued => c.grant.rt <= issued'
            /\ c.answer # None /\ c.answer.rt <= issued => c.answer.rt <= issued'
        BY <3>2 DEF Onward, Grant, Answer
      <3>4. Saved(c.answer.rt) => crossed' \/ c.answer.rt = 0 \/ c.answer.rt \in durable'
        BY DEF Onward, Saved
      <3>5. c.token # None /\ Sound(c.token) =>
              /\ crossed' \/ c.token.rt = 0 \/ c.token.rt \in durable'
              /\ scene'.exchange => c.token.exchanged \/ c.token.enrolled
        BY DEF Onward, Saved, Sound
      <3>6. /\ d.src = c.src /\ d.enrols = c.enrols /\ d.grant = c.grant
            /\ d.answer = c.answer /\ d.token = c.token
            /\ d.pc = "writing" => d.fd \in {"tmp", "disk", "gone"}
            /\ \/ d.pc = c.pc
               \/ c.pc = "received" /\ d.pc = "writing"
               \/ c.pc = "writing" /\ d.pc = "written"
               \/ /\ c.pc = "written" /\ d.pc = "renamed"
                  /\ crossed' \/ c.answer.rt \in durable'
        BY <3>1 DEF Files
      <3>7. scene'.sources = scene.sources /\ scene'.exchange = scene.exchange
        BY DEF Onward
      <3>8. /\ d.pc = "idle" => ~d.enrols /\ d.grant = None /\ d.token = None /\ d.src = None
            /\ d.pc # "idle" => d.src \in scene'.sources
            /\ d.pc = "read" \/ (d.pc = "asking" /\ ~d.enrols) => d.grant # None
            /\ d.grant # None => d.grant.rt <= issued'
            /\ d.pc \in Answering => d.answer # None /\ d.answer.rt <= issued'
            /\ d.pc \in {"received", "writing", "written", "renamed"} => d.answer.rt # 0
            /\ d.pc \in {"queued", "holding", "minting", "read", "exchanging"} => ~d.enrols
            /\ d.pc = "exchanging" => scene'.exchange
        <4> HIDE DEF c, d
        <4> QED
          BY <3>1, <3>3, <3>6, <3>7 DEF CallOK, Answering
      <3>9. /\ d.pc \in {"renamed", "saved", "exchanging"} =>
                 crossed' \/ d.answer.rt = 0 \/ d.answer.rt \in durable'
            /\ d.token # None => /\ crossed' \/ d.token.rt = 0 \/ d.token.rt \in durable'
                                 /\ scene'.exchange => d.token.exchanged \/ d.token.enrolled
        <4> HIDE DEF c, d
        <4> QED
          BY <3>1, <3>4, <3>5, <3>6 DEF CallOK
      <3> QED
        BY <3>6, <3>8, <3>9 DEF CallOK, Sound, Saved
    <2> QED
      BY <2>1 DEF Calls
  <1>2. Cached'
    BY DEF Cached, IInv, Sound, Saved, Onward, Typed
  <1>3. \A u \in Task : /\ At(u, Minting)' <=> At(u, Minting)
                        /\ At(u, Minting \ {"holding"})' <=> At(u, Minting \ {"holding"})
                        /\ Home(u)' = Home(u)
    BY DEF Files, At, Minting, Home
  <1>4. Locks'
    <2>1. \A s \in Source : lock[s] # None => lock[s] \in Task
      BY DEF IInv, Typed
    <2>2. \A u \in Task : task'[u].pc \in Minting <=> task[u].pc \in Minting
      BY <1>3 DEF At
    <2>3. ASSUME NEW u \in Task, At(u, Minting)', ~task'[u].enrols
          PROVE  lock'[task'[u].src] = u
      BY <1>3, <2>3 DEF IInv, Locks, Files
    <2>4. ASSUME NEW s \in Source, lock'[s] # None
          PROVE  task'[lock'[s]].src = s /\ task'[lock'[s]].pc \in Minting /\ ~task'[lock'[s]].enrols
      BY <2>1, <2>2, <2>4 DEF IInv, Locks, Files, At
    <2> QED
      BY <2>3, <2>4 DEF Locks, At
  <1>5. Needed'
    BY <1>3 DEF IInv, Needed, Files
  <1> QED
    BY <1>1, <1>2, <1>4, <1>5

LEMMA OpenTmpBase ==
  ASSUME IInv, NEW t \in Task, OpenTmp(t)
  PROVE  Base'
  <1> DEFINE c == task[t]
             r == [c EXCEPT !.pc = "writing", !.fd = "tmp"]
  <1>1. /\ c \in Call /\ c.pc = "received" /\ Goes(t, r) /\ tmp' = Torn
        /\ crossed' = (crossed \/ \E u \in Task : At(u, {"writing", "written"}))
        /\ UNCHANGED <<disk, grants, access, lock, live, issued, durable, mislaid, scene>>
    BY CallIs DEF IInv, OpenTmp, At, Provider
  <1>0. r = [c EXCEPT !.pc = "writing", !.fd = "tmp"]
    OBVIOUS
  <1> HIDE DEF r
  <1>2. /\ r \in Call /\ r.pc = "writing" /\ r.src = c.src /\ r.enrols = c.enrols
        /\ r.grant = c.grant /\ r.answer = c.answer /\ r.token = c.token /\ r.fd = "tmp"
    <2> HIDE DEF c
    <2> QED
      BY <1>0, <1>1 DEF Call, Minting
  <1>3. /\ task' \in [Task -> Call] /\ task'[t] = r
        /\ \A u \in Task : u # t => task'[u] = task[u]
    BY <1>1, <1>2, Moved DEF IInv
  <1>4. Typed'
    <2>1. tmp' \in Grant /\ tmp'.rt = 0 /\ issued \in Nat
      BY <1>1 DEF Torn, Grant, IInv, Typed, Scene
    <2>2. crossed' \in BOOLEAN
      BY <1>1 DEF IInv, Typed
    <2> QED
      BY <1>1, <1>3, <2>1, <2>2 DEF IInv, Typed
  <1>5. Onward
    BY <1>1 DEF Onward, IInv, Typed, Scene
  <1>6. ASSUME NEW u \in Task PROVE Files(u)
    <2>1. CASE u = t
      BY <1>1, <1>2, <1>3, <2>1 DEF Files
    <2>2. CASE u # t
      BY <1>3, <2>2 DEF Files, IInv, Calls, CallOK
    <2> QED
      BY <2>1, <2>2
  <1>7. Calls' /\ Cached' /\ Locks' /\ Needed'
    BY <1>1, <1>4, <1>5, <1>6, FilesBase
  <1>8. OneWriter'
    \* If nobody was writing, this call is the only writer now.
    <2> SUFFICES ASSUME ~crossed' PROVE OneWriter'
      BY DEF OneWriter
    <2>1. ~crossed /\ \A u \in Task : ~At(u, {"writing", "written"})
      BY <1>1
    <2>2. \A u \in Task : At(u, {"writing", "written"})' => u = t
      BY <1>3, <2>1 DEF At
    <2>3. ~At(t, {"written"})' /\ task'[t].fd = "tmp"
      BY <1>2, <1>3 DEF At
    <2>4. \A u \in Task : ~At(u, {"written"})'
      BY <2>2, <2>3 DEF At
    <2>5. \A u \in Task : At(u, {"writing"})' => task'[u].fd = "tmp"
      BY <2>2, <2>3 DEF At
    <2> QED
      BY <1>1, <2>1, <2>2, <2>4, <2>5 DEF OneWriter, IInv, Torn
  <1> QED
    BY <1>4, <1>7, <1>8 DEF Base

\* What a writer writes: the refresh token it was given.
LEMMA RotatedIs ==
  ASSUME IInv, NEW t \in Task, At(t, {"received", "writing", "written", "renamed"})
  PROVE  /\ Rotated(t) \in Grant /\ Rotated(t).rt = task[t].answer.rt
         /\ task[t].answer.rt \in 1 .. issued /\ task[t].answer \in Answer
         /\ Rotated(t) # Torn /\ Rotated(t) # None
  <1> DEFINE c == task[t]
  <1>1. c.answer \in Answer \union {None} /\ CallOK(c) /\ issued \in Nat
    BY CallIs DEF IInv, Calls, Typed, Scene
  <1>2. c.pc \in {"received", "writing", "written", "renamed"} /\ Rotated(t) = [rt |-> c.answer.rt]
    BY DEF At, Rotated
  <1> HIDE DEF c
  <1>3. c.answer \in Answer /\ c.answer.rt # 0 /\ c.answer.rt <= issued
    BY <1>1, <1>2 DEF CallOK, Answering
  <1>4. c.answer.rt \in Nat
    BY <1>3 DEF Answer
  <1>5. Rotated(t) \in Grant /\ Rotated(t).rt = c.answer.rt /\ Rotated(t) # Torn
    BY <1>2, <1>3, <1>4 DEF Grant, Torn
  <1> QED
    BY <1>1, <1>3, <1>4, <1>5, NoneIsNothing DEF c

LEMMA FillTmpBase ==
  ASSUME IInv, NEW t \in Task, FillTmp(t)
  PROVE  Base'
  <1> DEFINE c == task[t]
             r == [c EXCEPT !.pc = "written", !.fd = None]
             g == Rotated(t)
  <1>1. /\ c \in Call /\ c.pc = "writing" /\ Goes(t, r)
        /\ tmp' = (IF c.fd = "tmp" THEN g ELSE tmp)
        /\ disk' = (IF c.fd = "disk" THEN g ELSE disk)
        /\ durable' = (IF c.fd = "disk" THEN durable \union {g.rt} ELSE durable)
        /\ UNCHANGED <<crossed, grants, access, lock, live, issued, mislaid, scene>>
    BY CallIs DEF IInv, FillTmp, Fills, At, Provider
  <1>0. r = [c EXCEPT !.pc = "written", !.fd = None] /\ None \in {"tmp", "disk", "gone"} \union {None}
    OBVIOUS
  <1>a. /\ g \in Grant /\ g.rt = c.answer.rt /\ g.rt \in 1 .. issued
        /\ g # Torn /\ g # None
    BY <1>1, RotatedIs DEF At
  <1> HIDE DEF r, g
  <1>2. /\ r \in Call /\ r.pc = "written" /\ r.src = c.src /\ r.enrols = c.enrols
        /\ r.grant = c.grant /\ r.answer = c.answer /\ r.token = c.token /\ r.fd = None
    <2> HIDE DEF c
    <2> QED
      BY <1>0, <1>1 DEF Call, Minting
  <1>3. /\ task' \in [Task -> Call] /\ task'[t] = r
        /\ \A u \in Task : u # t => task'[u] = task[u]
    BY <1>1, <1>2, Moved DEF IInv
  <1>4. Typed'
    <2>1. /\ disk' \in Grant \union {None} /\ tmp' \in Grant \union {None}
          /\ disk' # None => disk'.rt <= issued
          /\ tmp' # None => tmp'.rt <= issued
          /\ durable' \subseteq 1 .. issued
      <3>1. /\ disk \in Grant \union {None} /\ tmp \in Grant \union {None}
            /\ disk # None => disk.rt <= issued
            /\ tmp # None => tmp.rt <= issued
            /\ durable \subseteq 1 .. issued
        BY DEF IInv, Typed
      <3>2. g \in Grant /\ g.rt <= issued /\ {g.rt} \subseteq 1 .. issued
        BY <1>a
      <3>3. disk' \in {disk, g} /\ tmp' \in {tmp, g} /\ durable' \in {durable, durable \union {g.rt}}
        BY <1>1
      <3> QED
        BY <3>1, <3>2, <3>3
    <2> QED
      BY <1>1, <1>3, <2>1 DEF IInv, Typed
  <1>5. Onward
    BY <1>1 DEF Onward, IInv, Typed, Scene
  <1>6. ASSUME NEW u \in Task PROVE Files(u)
    <2>1. CASE u = t
      BY <1>1, <1>2, <1>3, <2>1 DEF Files
    <2>2. CASE u # t
      BY <1>3, <2>2 DEF Files, IInv, Calls, CallOK
    <2> QED
      BY <2>1, <2>2
  <1>7. Calls' /\ Cached' /\ Locks' /\ Needed'
    BY <1>1, <1>4, <1>5, <1>6, FilesBase
  <1>8. OneWriter'
    \* The only writer: what is in the temporary file is its own.
    <2> SUFFICES ASSUME ~crossed' PROVE OneWriter'
      BY DEF OneWriter
    <2>1. /\ ~crossed /\ disk # Torn /\ c.fd = "tmp" /\ At(t, {"writing", "written"})
          /\ \A u \in Task : At(u, {"writing", "written"}) => u = t
      BY <1>1 DEF IInv, OneWriter, At
    <2>2. \A u \in Task : At(u, {"writing", "written"})' => u = t
      BY <1>3, <2>1 DEF At
    <2>3. \A u \in Task : ~At(u, {"writing"})'
      BY <1>2, <1>3, <2>2 DEF At
    <2>4. tmp' = g /\ disk' = disk /\ Rotated(t)' = g
      BY <1>1, <1>2, <1>3, <2>1 DEF Rotated, g
    <2>5. \A u \in Task : At(u, {"written"})' => tmp' = Rotated(u)'
      <3>1. \A u \in Task : At(u, {"written"})' => u = t
        BY <2>2 DEF At
      <3> QED
        BY <2>4, <3>1
    <2> QED
      BY <2>1, <2>2, <2>3, <2>4, <2>5 DEF OneWriter, Torn
  <1> QED
    BY <1>4, <1>7, <1>8 DEF Base

\* Where an open file is, by now: the writer keeps its own.
LEMMA Moves ==
  ASSUME IInv, NEW u \in Task, NEW r,
         \E f \in {"tmp", "disk", "gone"} \union {None} :
           /\ r = [task[u] EXCEPT !.fd = f]
           /\ task[u].pc = "writing" => f \in {"tmp", "disk", "gone"}
  PROVE  /\ r \in Call /\ r.pc = task[u].pc /\ r.src = task[u].src /\ r.enrols = task[u].enrols
         /\ r.grant = task[u].grant /\ r.answer = task[u].answer /\ r.token = task[u].token
         /\ r.pc = "writing" => r.fd \in {"tmp", "disk", "gone"}
  <1> DEFINE c == task[u]
  <1>1. c \in Call
    BY CallIs DEF IInv
  <1>2. PICK f \in {"tmp", "disk", "gone"} \union {None} :
          r = [c EXCEPT !.fd = f] /\ (c.pc = "writing" => f \in {"tmp", "disk", "gone"})
    OBVIOUS
  <1> HIDE DEF c
  <1>3. /\ r \in Call /\ r.pc = c.pc /\ r.src = c.src /\ r.enrols = c.enrols
        /\ r.grant = c.grant /\ r.answer = c.answer /\ r.token = c.token /\ r.fd = f
    BY <1>1, <1>2 DEF Call
  <1> QED
    BY <1>2, <1>3 DEF c

LEMMA RenameBase ==
  ASSUME IInv, NEW t \in Task, Rename(t)
  PROVE  Base'
  <1> DEFINE c == task[t]
             r == [c EXCEPT !.pc = "renamed"]
  <1>1. /\ c \in Call /\ c.pc = "written" /\ tmp # None /\ disk' = tmp /\ tmp' = None
        /\ durable' = durable \union ({tmp.rt} \ {0})
        /\ UNCHANGED <<crossed, grants, access, lock, live, issued, mislaid, scene>>
    BY CallIs DEF IInv, Rename, At, Provider
  <1>2. /\ r \in Call /\ r.pc = "renamed" /\ r.src = c.src /\ r.enrols = c.enrols
        /\ r.grant = c.grant /\ r.answer = c.answer /\ r.token = c.token
    BY <1>1, SetPc DEF Pcs, Minting
  <1>3. task' = [u \in Task |->
                   IF u = t THEN r
                   ELSE [task[u] EXCEPT !.fd = CASE @ = "tmp" -> "disk" [] @ = "disk" -> "gone"
                                                 [] OTHER -> @]]
    BY DEF Rename
  <1> HIDE DEF r
  <1>4. ASSUME NEW u \in Task, u # t
        PROVE  /\ task'[u] \in Call /\ task'[u].pc = task[u].pc /\ task'[u].src = task[u].src
               /\ task'[u].enrols = task[u].enrols
               /\ task'[u].grant = task[u].grant /\ task'[u].answer = task[u].answer
               /\ task'[u].token = task[u].token
               /\ task'[u].pc = "writing" => task'[u].fd \in {"tmp", "disk", "gone"}
    <2> DEFINE d == task[u]
               f == CASE d.fd = "tmp" -> "disk" [] d.fd = "disk" -> "gone" [] OTHER -> d.fd
    <2>1. task'[u] = [d EXCEPT !.fd = f]
      BY <1>3, <1>4
    <2>2. d.fd \in {"tmp", "disk", "gone"} \union {None}
      BY DEF IInv, Typed, Call
    <2>3. d.pc = "writing" => d.fd \in {"tmp", "disk", "gone"}
      BY DEF IInv, Calls, CallOK
    <2>4. /\ f \in {"tmp", "disk", "gone"} \union {None}
          /\ d.pc = "writing" => f \in {"tmp", "disk", "gone"}
      BY <2>2, <2>3
    <2> QED
      BY <2>1, <2>4, Moves
  <1>5. task' \in [Task -> Call] /\ task'[t] = r
    BY <1>2, <1>3, <1>4
  <1>6. Typed'
    <2>1. tmp \in Grant /\ tmp.rt <= issued /\ tmp.rt \in Nat /\ issued \in Nat
      BY <1>1 DEF IInv, Typed, Grant, Scene
    <2>2. durable' \subseteq 1 .. issued
      <3>1. {tmp.rt} \ {0} \subseteq 1 .. issued
        BY <2>1
      <3> QED
        BY <1>1, <3>1 DEF IInv, Typed
    <2> QED
      BY <1>1, <1>5, <2>1, <2>2 DEF IInv, Typed
  <1>7. Onward
    BY <1>1 DEF Onward, IInv, Typed, Scene
  <1>8. ~crossed => /\ tmp = Rotated(t) /\ Rotated(t).rt = c.answer.rt /\ c.answer.rt # 0
                    /\ Rotated(t) # Torn
    BY <1>1, RotatedIs DEF IInv, OneWriter, At
  <1>9. ASSUME NEW u \in Task PROVE Files(u)
    <2>1. CASE u = t
      <3>1. crossed' \/ c.answer.rt \in durable'
        BY <1>1, <1>8
      <3> QED
        BY <1>1, <1>2, <1>5, <2>1, <3>1 DEF Files
    <2>2. CASE u # t
      BY <1>4, <2>2 DEF Files
    <2> QED
      BY <2>1, <2>2
  <1>10. Calls' /\ Cached' /\ Locks' /\ Needed'
    BY <1>1, <1>6, <1>7, <1>9, FilesBase
  <1>11. OneWriter'
    <2> SUFFICES ASSUME ~crossed' PROVE OneWriter'
      BY DEF OneWriter
    <2>1. \A u \in Task : At(u, {"writing", "written"}) => u = t
      BY <1>1 DEF IInv, OneWriter, At
    <2>2. \A u \in Task : ~At(u, {"writing", "written"})'
      BY <1>2, <1>4, <1>5, <2>1 DEF At
    <2>3. disk' # Torn
      BY <1>1, <1>8
    <2> QED
      BY <2>2, <2>3 DEF OneWriter, At, Torn
  <1> QED
    BY <1>6, <1>10, <1>11 DEF Base

LEMMA LogoutBase ==
  ASSUME IInv, Logout
  PROVE  Base'
  <1>1. /\ disk' = None
        /\ UNCHANGED <<tmp, durable, crossed, grants, access, lock, live, issued, mislaid>>
        /\ scene' = [scene EXCEPT !.logouts = @ - 1] /\ scene.logouts > 0
        /\ task' = [t \in Task |-> [task[t] EXCEPT !.fd = IF @ = "disk" THEN "gone" ELSE @]]
    BY DEF Logout, Provider, History
  <1>2. /\ scene' \in Scene /\ scene'.sources = scene.sources
        /\ scene'.exchange = scene.exchange /\ scene'.responses = scene.responses
    BY <1>1 DEF IInv, Typed, Scene
  <1>3. ASSUME NEW u \in Task
        PROVE  /\ task'[u] \in Call /\ task'[u].pc = task[u].pc /\ task'[u].src = task[u].src
               /\ task'[u].enrols = task[u].enrols
               /\ task'[u].grant = task[u].grant /\ task'[u].answer = task[u].answer
               /\ task'[u].token = task[u].token
               /\ task'[u].pc = "writing" => task'[u].fd \in {"tmp", "disk", "gone"}
    <2> DEFINE d == task[u]
               f == IF d.fd = "disk" THEN "gone" ELSE d.fd
    <2>1. task'[u] = [d EXCEPT !.fd = f]
      BY <1>1
    <2>2. d.fd \in {"tmp", "disk", "gone"} \union {None}
      BY DEF IInv, Typed, Call
    <2>3. d.pc = "writing" => d.fd \in {"tmp", "disk", "gone"}
      BY DEF IInv, Calls, CallOK
    <2>4. /\ f \in {"tmp", "disk", "gone"} \union {None}
          /\ d.pc = "writing" => f \in {"tmp", "disk", "gone"}
      BY <2>2, <2>3
    <2> QED
      BY <2>1, <2>4, Moves
  <1>4. task' \in [Task -> Call]
    BY <1>1, <1>3
  <1>5. Typed'
    BY <1>1, <1>2, <1>4 DEF IInv, Typed
  <1>6. Onward
    BY <1>1, <1>2 DEF Onward, IInv, Typed, Scene
  <1>7. \A u \in Task : Files(u)
    BY <1>3 DEF Files
  <1>8. Calls' /\ Cached' /\ Locks' /\ Needed'
    BY <1>1, <1>5, <1>6, <1>7, FilesBase
  <1>9. OneWriter'
    <2> SUFFICES ASSUME ~crossed' PROVE OneWriter'
      BY DEF OneWriter
    <2>1. /\ ~crossed
          /\ \A t, u \in Task : At(t, {"writing", "written"}) /\ At(u, {"writing", "written"}) => t = u
          /\ \A t \in Task : At(t, {"writing"}) => task[t].fd = "tmp"
          /\ \A t \in Task : At(t, {"written"}) => tmp = Rotated(t)
      BY <1>1 DEF IInv, OneWriter
    <2>2. \A t \in Task : At(t, {"writing"})' => task'[t].fd = "tmp"
      <3>1. ASSUME NEW u \in Task, At(u, {"writing"})' PROVE task'[u].fd = "tmp"
        <4> DEFINE d == task[u]
                   f == IF d.fd = "disk" THEN "gone" ELSE d.fd
        <4>1. task'[u] = [d EXCEPT !.fd = f] /\ d \in Call /\ d.fd = "tmp" /\ f = "tmp"
          BY <1>1, <1>3, <2>1, <3>1, CallIs DEF At, IInv
        <4> HIDE DEF d, f
        <4> QED
          BY <4>1 DEF Call
      <3> QED
        BY <3>1
    <2>3. disk' # Torn
      BY <1>1, NoneIsNothing DEF Torn, Grant
    <2>4. \A u \in Task : Rotated(u)' = Rotated(u)
      BY <1>3 DEF Rotated
    <2>5. \A u \in Task : /\ At(u, {"writing", "written"})' <=> At(u, {"writing", "written"})
                          /\ At(u, {"written"})' <=> At(u, {"written"})
      BY <1>3 DEF At
    <2> QED
      BY <1>1, <2>1, <2>2, <2>3, <2>4, <2>5 DEF OneWriter, Torn
  <1> QED
    BY <1>5, <1>8, <1>9 DEF Base

LEMMA ExpireBase ==
  ASSUME IInv, NEW p \in Process, Expire(p)
  PROVE  Base'
  <1>1. /\ UNCHANGED <<disk, tmp, grants, lock, task, live, issued, durable, mislaid, crossed, scene>>
        /\ access' = [access EXCEPT ![p] = None]
    BY DEF Expire, Provider, History
  <1>2. /\ access' \in [Process -> Token \union {None}]
        /\ \A q \in Process : access'[q] = None \/ access'[q] = access[q]
    BY <1>1 DEF IInv, Typed
  <1>3. Typed'
    BY <1>1, <1>2 DEF IInv, Typed
  <1>4. Calls' /\ Locks' /\ OneWriter'
    BY <1>1 DEF IInv, Calls, CallOK, Sound, Saved, Locks, OneWriter, At, Rotated, Torn
  <1>5. Cached'
    BY <1>1, <1>2 DEF IInv, Cached, Sound, Saved
  <1>6. Needed'
    <2>1. ASSUME NEW u \in Task, At(u, Minting \ {"holding"})', ~task'[u].enrols,
                 access'[Home(u)'] # None
          PROVE  access'[Home(u)'].by # task'[u].src \/ access'[Home(u)'].enrolled
      <3>1. At(u, Minting \ {"holding"}) /\ ~task[u].enrols /\ Home(u)' = Home(u)
        BY <1>1, <2>1 DEF At, Home
      <3>2. Home(u) \in Process
        BY <3>1, HomeIs DEF At, Minting
      <3> QED
        BY <1>1, <1>2, <2>1, <3>1, <3>2 DEF IInv, Needed
    <2> QED
      BY <2>1 DEF Needed
  <1> QED
    BY <1>3, <1>4, <1>5, <1>6 DEF Base

\* The calls a crash of p ends.
Ended(p) == {t \in Task : task[t].src # None /\ Home(t) = p /\ ~At(t, {"done", "failed"})}

LEMMA CrashIs ==
  ASSUME IInv, NEW p \in Process, Crash(p)
  PROVE  /\ UNCHANGED <<disk, tmp, live, issued, durable, crossed>>
         /\ grants' = [grants EXCEPT ![p] = None] /\ access' = [access EXCEPT ![p] = None]
         /\ \A t \in Task : t \notin Ended(p) => task'[t] = task[t]
         /\ \A t \in Ended(p) : task'[t] = [task[t] EXCEPT !.pc = "failed", !.fd = None]
         /\ lock' = [s \in Source |-> IF lock[s] \in Ended(p) THEN None ELSE lock[s]]
         /\ mislaid' = (mislaid \/ \E t \in Ended(p) : AtRisk(t))
         /\ scene' \in Scene /\ scene'.sources = scene.sources /\ scene'.revokes = scene.revokes
         /\ scene'.exchange = scene.exchange /\ scene'.responses = scene.responses
         /\ DOMAIN task' = Task /\ \E s \in scene.sources : ProcessOf[s] = p
  <1>1. scene' = [scene EXCEPT !.crashes = @ - 1] /\ scene.crashes > 0
    BY DEF Crash
  <1>2. /\ scene' \in Scene /\ scene'.sources = scene.sources /\ scene'.revokes = scene.revokes
        /\ scene'.exchange = scene.exchange /\ scene'.responses = scene.responses
    BY <1>1 DEF IInv, Typed, Scene
  <1>3. task' = [t \in Task |-> IF t \in Ended(p) THEN [task[t] EXCEPT !.pc = "failed", !.fd = None]
                                ELSE task[t]]
    BY DEF Crash, Ended
  <1>4. \A t \in Ended(p) : t \in Task
    BY DEF Ended
  <1>5. /\ UNCHANGED <<disk, tmp, live, issued, durable, crossed>>
        /\ grants' = [grants EXCEPT ![p] = None] /\ access' = [access EXCEPT ![p] = None]
        /\ lock' = [s \in Source |-> IF lock[s] \in Ended(p) THEN None ELSE lock[s]]
        /\ \E s \in scene.sources : ProcessOf[s] = p
    BY DEF Crash, Ended, Provider
  <1>6. mislaid' = (mislaid \/ \E t \in Ended(p) : AtRisk(t))
    BY DEF Crash, Ended
  <1> QED
    BY <1>2, <1>3, <1>4, <1>5, <1>6

LEMMA CrashBase ==
  ASSUME IInv, NEW p \in Process, Crash(p)
  PROVE  Base'
  <1>0. /\ UNCHANGED <<disk, tmp, live, issued, durable, crossed>>
        /\ grants' = [grants EXCEPT ![p] = None] /\ access' = [access EXCEPT ![p] = None]
        /\ lock' = [s \in Source |-> IF lock[s] \in Ended(p) THEN None ELSE lock[s]]
        /\ mislaid' = (mislaid \/ \E t \in Ended(p) : AtRisk(t))
        /\ scene' \in Scene /\ scene'.sources = scene.sources
        /\ scene'.exchange = scene.exchange /\ scene'.responses = scene.responses
    BY CrashIs
  <1>1. ASSUME NEW t \in Ended(p)
        PROVE  /\ t \in Task /\ task'[t] \in Call /\ task'[t].pc = "failed"
               /\ CallOK(task'[t])
    <2> DEFINE c == task[t]
               r == [c EXCEPT !.pc = "failed", !.fd = None]
    <2>1. t \in Task /\ c.src # None
      BY DEF Ended
    <2>2. c \in Call /\ "failed" \in Pcs /\ CallOK(c) /\ task'[t] = r
      BY <2>1, CallIs, CrashIs DEF IInv, Calls, Pcs
    <2>0. r = [c EXCEPT !.pc = "failed", !.fd = None] /\ None \in {"tmp", "disk", "gone"} \union {None}
      OBVIOUS
    <2> HIDE DEF r, c
    <2>3. /\ r \in Call /\ r.pc = "failed" /\ r.src = c.src /\ r.enrols = c.enrols
          /\ r.grant = c.grant /\ r.answer = c.answer /\ r.token = c.token
      BY <2>0, <2>2 DEF Call, Pcs
    <2>4. c.pc # "idle"
      BY <2>1, <2>2 DEF CallOK
    <2>5. CallOK(r)
      BY <2>2, <2>3, <2>4 DEF CallOK, Answering
    <2> QED
      BY <2>1, <2>2, <2>3, <2>5
  <1>2. \A t \in Task : t \notin Ended(p) => task'[t] = task[t]
    BY CrashIs
  <1>3. task' \in [Task -> Call]
    <2>1. DOMAIN task' = Task
      BY CrashIs
    <2>2. \A t \in Task : task'[t] \in Call
      BY <1>1, <1>2, CallIs DEF IInv
    <2>3. task' = [t \in Task |-> task'[t]]
      <3>1. task' = [t \in Task |-> IF t \in Ended(p) THEN [task[t] EXCEPT !.pc = "failed", !.fd = None]
                                    ELSE task[t]]
        BY DEF Crash, Ended
      <3> QED
        BY <3>1
    <2> QED
      BY <2>2, <2>3
  <1>4. lock' \in [Source -> Task \union {None}]
    <2>1. lock \in [Source -> Task \union {None}]
      BY DEF IInv, Typed
    <2> QED
      BY <2>1, <1>0
  <1>5. /\ grants' \in [Process -> Grant \union {None}]
        /\ \A q \in Process : grants'[q] # None => grants'[q].rt <= issued
        /\ access' \in [Process -> Token \union {None}]
        /\ \A q \in Process : access'[q] # None => q # p /\ access'[q] = access[q]
    BY <1>0 DEF IInv, Typed
  <1>6. mislaid' \in BOOLEAN
    BY <1>0 DEF IInv, Typed
  <1>7. Typed'
    BY <1>3, <1>4, <1>5, <1>6, <1>0 DEF IInv, Typed
  <1>8. Calls'
    <2>1. ASSUME NEW t \in Task PROVE CallOK(task[t])'
      <3>1. CallOK(task'[t])
        BY <1>1, <1>2 DEF IInv, Calls
      <3> QED
        BY <3>1, <1>0 DEF CallOK, Saved, Sound
    <2> QED
      BY <2>1 DEF Calls
  <1>9. Cached'
    BY <1>5, <1>0 DEF IInv, Cached, Sound, Saved
  <1>10. ASSUME NEW t \in Task, At(t, Minting \union {"writing", "written"})'
         PROVE  t \notin Ended(p) /\ task'[t] = task[t]
    BY <1>1, <1>2, <1>10 DEF At, Minting
  <1>11. Locks'
    <2>1. ASSUME NEW u \in Task, At(u, Minting)', ~task'[u].enrols
          PROVE  lock'[task'[u].src] = u
      <3>1. u \notin Ended(p) /\ task'[u] = task[u]
        BY <1>10, <2>1 DEF At
      <3>2. At(u, Minting) /\ ~task[u].enrols
        BY <2>1, <3>1 DEF At
      <3>3. lock[task[u].src] = u /\ task[u].src \in Source
        BY <3>2, HomeIs DEF IInv, Locks, At, Minting
      <3> QED
        BY <3>1, <3>3, <1>0
    <2>2. ASSUME NEW s \in Source, lock'[s] # None
          PROVE  task'[lock'[s]].src = s /\ task'[lock'[s]].pc \in Minting /\ ~task'[lock'[s]].enrols
      <3>1. lock'[s] = lock[s] /\ lock[s] \notin Ended(p) /\ lock[s] # None
        BY <2>2, <1>0
      <3>2. lock[s] \in Task
        BY <3>1 DEF IInv, Typed
      <3>3. task[lock[s]].src = s /\ At(lock[s], Minting) /\ ~task[lock[s]].enrols
        BY <3>1 DEF IInv, Locks
      <3> QED
        BY <1>2, <3>1, <3>2, <3>3 DEF At
    <2> QED
      BY <2>1, <2>2 DEF Locks, At
  <1>12. Needed'
    <2>1. ASSUME NEW u \in Task, At(u, Minting \ {"holding"})', ~task'[u].enrols,
                 access'[Home(u)'] # None
          PROVE  access'[Home(u)'].by # task'[u].src \/ access'[Home(u)'].enrolled
      <3>1. task'[u] = task[u]
        BY <1>10, <2>1 DEF At
      <3>2. At(u, Minting \ {"holding"}) /\ ~task[u].enrols /\ Home(u)' = Home(u)
        BY <2>1, <3>1 DEF At, Home
      <3>3. Home(u) \in Process
        BY <3>2, HomeIs DEF At, Minting
      <3> QED
        BY <1>5, <2>1, <3>1, <3>2, <3>3 DEF IInv, Needed
    <2> QED
      BY <2>1 DEF Needed
  <1>13. OneWriter'
    <2>1. \A u \in Task : At(u, {"writing", "written"})' => task'[u] = task[u]
      BY <1>10 DEF At
    <2> QED
      BY <2>1, QuietWriters, <1>0
  <1> QED
    BY <1>7, <1>8, <1>9, <1>11, <1>12, <1>13 DEF Base

LEMMA NextBase ==
  ASSUME IInv, [Next]_vars
  PROVE  Base'
  <1>1. CASE UNCHANGED vars
    BY <1>1 DEF vars, IInv, Base, Typed, Calls, CallOK, Cached, Sound, Saved, Locks, Needed,
                OneWriter, At, Home, Rotated, Torn
  <1>2. ASSUME NEW t \in Task, NEW s \in Source, Hit(t, s) \/ Miss(t, s) \/ Enrol(t, s)
        PROVE  Base'
    BY <1>2, BeginsBase, EnrolBase
  <1>3. ASSUME NEW t \in Task, Proceeds(t)
        PROVE  Base'
    BY <1>3, AcquireBase, RecheckBase, GrantBase, GrantFilledBase, FailuresBase, ReceiveBase,
       OpenTmpBase, FillTmpBase, RenameBase, ReturnBase DEF Proceeds
  <1>4. ASSUME NEW t \in Task, ProviderStep(t) \/ Cancelled(t)
        PROVE  Base'
    BY <1>4, AnswersBase, FailuresBase, ReturnBase DEF ProviderStep
  <1>5. ASSUME NEW p \in Process, Expire(p) \/ Crash(p)
        PROVE  Base'
    BY <1>5, ExpireBase, CrashBase
  <1> QED
    BY <1>1, <1>2, <1>3, <1>4, <1>5, LogoutBase DEF Next

-----------------------------------------------------------------------------
(* The survival of the credential. *)

Alive == Secret /\ Whole /\ Survives /\ Unrevoked

LEMMA TameBefore ==
  ASSUME Tame', mislaid => mislaid', scene'.revokes = scene.revokes,
         scene'.sources = scene.sources,
         \A t \in Task : task[t].enrols => task'[t].enrols
  PROVE  Tame
  BY DEF Tame

\* One source, and no enrolment: one call at a time is in mint.
LEMMA OneMinter ==
  ASSUME IInv, Tame, scene.revokes, NEW t \in Task, NEW u \in Task,
         At(t, Minting), At(u, Minting)
  PROVE  t = u
  <1>1. ~task[t].enrols /\ ~task[u].enrols
    BY DEF Tame
  <1>2. task[t].src = task[u].src
    BY HomeIs DEF Tame, At, Minting
  <1> QED
    BY <1>1, <1>2 DEF IInv, Locks

\* A step of a call that tells nobody a refresh token and loses none.
Quiet(u) ==
  \/ task'[u] = task[u]
  \/ /\ At(u, {"answered"}) /\ task'[u].pc = "received"
     /\ task'[u].answer = task[u].answer /\ task'[u].grant = task[u].grant
  \/ /\ ~Carried(u) /\ (AtRisk(u) => ~scene.revokes) /\ ~At(u, {"writing"})
     /\ task'[u].pc \in Answering =>
          /\ task'[u].pc \in {"answered", "saved", "exchanging"}
          /\ \/ task'[u].answer.rt = 0
             \/ /\ At(u, Answering) /\ task'[u].pc # "answered"
                /\ task'[u].answer = task[u].answer
     /\ task'[u].grant = None \/ Known(task'[u].grant.rt)
     /\ scene.revokes /\ task'[u].pc \in {"read", "asking"} => task'[u].grant.rt \in live
     /\ scene.revokes /\ At(u, {"renamed"}) => \A s \in scene.sources : grants'[ProcessOf[s]] = None

LEMMA QuietKnown ==
  ASSUME disk' = disk, \A u \in Task : Quiet(u),
         \A p \in Process : grants'[p] = None \/ Known(grants'[p].rt),
         NEW x, KnownNext(x)
  PROVE  Known(x)
  <1>1. CASE disk' # None /\ disk'.rt = x
    BY <1>1 DEF Known, KnownNext, KnownIn
  <1>2. CASE \E p \in Process : grants'[p] # None /\ grants'[p].rt = x
    BY <1>2
  <1>3. ASSUME NEW t \in Task, task'[t].grant # None, task'[t].grant.rt = x
        PROVE  Known(x)
    <2>1. task'[t].grant = task[t].grant \/ Known(task'[t].grant.rt)
      BY <1>3 DEF Quiet
    <2> QED
      BY <1>3, <2>1 DEF Known, KnownNext, KnownIn
  <1> QED
    BY <1>1, <1>2, <1>3 DEF Known, KnownNext, KnownIn

\* Secret in the next state, by its parts.
LEMMA SecretNext ==
  ASSUME \A u \in Task : Fresh0(u)' =>
           task'[u].answer.rt \in live' /\ ~KnownNext(task'[u].answer.rt),
         \A t, u \in Task :
           t # u /\ At(t, Answering)' /\ At(u, Answering)' /\ Rotates(t)' =>
             task'[t].answer.rt # task'[u].answer.rt,
         tmp' # None /\ tmp'.rt # 0 =>
           /\ tmp'.rt \in live' /\ ~KnownNext(tmp'.rt)
           /\ \A t \in Task : Fresh0(t)' \/ At(t, {"renamed"})' => task'[t].answer.rt # tmp'.rt
  PROVE  Secret'
  BY DEF Secret, Known, KnownNext

LEMMA QuietSurvival ==
  ASSUME IInv, Tame, UNCHANGED <<disk, tmp, live>>,
         scene'.revokes = scene.revokes, scene'.sources = scene.sources,
         \A u \in Task : Quiet(u),
         \A p \in Process : grants'[p] = None \/ Known(grants'[p].rt),
         scene.revokes => \A s \in scene.sources :
           grants'[ProcessOf[s]] \in {None, grants[ProcessOf[s]]} \/ grants'[ProcessOf[s]].rt \in live
  PROVE  Alive'
  <1>1. Secret /\ Whole /\ Survives /\ Unrevoked
    BY DEF IInv, Survival
  <1>2. \A x : KnownNext(x) => Known(x)
    BY QuietKnown
  <1>3. ASSUME NEW u \in Task, Fresh0(u)'
        PROVE  Fresh0(u) /\ task'[u].answer = task[u].answer
    BY <1>3 DEF Quiet, Fresh0, At, Rotates, Answering
  <1>4. ASSUME NEW u \in Task, At(u, {"renamed"})'
        PROVE  At(u, {"renamed"}) /\ task'[u].answer = task[u].answer
    BY <1>4 DEF Quiet, At, Answering
  <1>5. ASSUME NEW u \in Task, At(u, Answering)'
        PROVE  task'[u].answer.rt = 0 \/ (At(u, Answering) /\ task'[u].answer = task[u].answer)
    BY <1>5 DEF Quiet, At, Answering
  <1>6. ASSUME NEW u \in Task, At(u, {"writing"})
        PROVE  task'[u] = task[u]
    BY <1>6 DEF Quiet, At
  <1>7. ASSUME NEW u \in Task, AtRisk(u)'
        PROVE  AtRisk(u) /\ task'[u].answer = task[u].answer
    BY <1>7 DEF Quiet, AtRisk, At, Rotates, Answering
  <1>8. ASSUME NEW u \in Task, Carried(u)
        PROVE  Carried(u)'
    BY <1>8 DEF Quiet, Carried, AtRisk, At, Rotates
  <1>9. Secret'
    <2>1. \A u \in Task : Fresh0(u)' =>
            task'[u].answer.rt \in live' /\ ~KnownNext(task'[u].answer.rt)
      BY <1>1, <1>2, <1>3 DEF Secret
    <2>2. ASSUME NEW t \in Task, NEW u \in Task, t # u, At(t, Answering)', At(u, Answering)', Rotates(t)'
          PROVE  task'[t].answer.rt # task'[u].answer.rt
      <3>1. task'[t].answer.rt # 0
        BY <2>2 DEF Rotates
      <3>2. At(t, Answering) /\ task'[t].answer = task[t].answer /\ Rotates(t)
        BY <1>5, <2>2, <3>1 DEF Rotates
      <3> QED
        BY <1>1, <1>5, <2>2, <3>1, <3>2 DEF Secret
    <2>3. tmp' # None /\ tmp'.rt # 0 =>
            /\ tmp'.rt \in live' /\ ~KnownNext(tmp'.rt)
            /\ \A t \in Task : Fresh0(t)' \/ At(t, {"renamed"})' => task'[t].answer.rt # tmp'.rt
      BY <1>1, <1>2, <1>3, <1>4 DEF Secret
    <2> QED
      BY <2>1, <2>2, <2>3, SecretNext
  <1>10. Whole'
    BY <1>1, <1>6 DEF Whole, At, Torn
  <1>11. Survives'
    BY <1>1, <1>8 DEF Survives, Torn
  <1>12. Unrevoked'
    <2> SUFFICES ASSUME scene'.revokes PROVE Unrevoked'
      BY DEF Unrevoked
    <2>1. scene.revokes
      OBVIOUS
    <2>2. \A u \in Task : At(u, {"read", "asking"})' => task'[u].grant.rt \in live'
      BY <1>1, <2>1 DEF Unrevoked, Quiet, At
    <2>3. ASSUME NEW s \in scene'.sources
          PROVE  \/ grants'[ProcessOf[s]] = None \/ grants'[ProcessOf[s]].rt \in live'
                 \/ \E t \in Task : AtRisk(t)' \/ At(t, {"renamed"})'
      <3>1. CASE grants'[ProcessOf[s]] # grants[ProcessOf[s]]
        BY <2>1, <3>1
      <3>2. CASE grants'[ProcessOf[s]] = grants[ProcessOf[s]] /\ grants'[ProcessOf[s]] # None
                 /\ grants[ProcessOf[s]].rt \notin live
        <4>1. PICK t \in Task : AtRisk(t) \/ At(t, {"renamed"})
          BY <1>1, <2>1, <3>2 DEF Unrevoked
        <4>2. Quiet(t)
          OBVIOUS
        <4>3. AtRisk(t)' \/ At(t, {"renamed"})'
          BY <2>1, <3>2, <4>1, <4>2 DEF Quiet, AtRisk, At, Rotates
        <4> QED
          BY <4>3
      <3> QED
        BY <3>1, <3>2
    <2>4. \A t \in Task : AtRisk(t)' \/ At(t, {"renamed"})' => task'[t].answer.rt \in live'
      BY <1>1, <1>4, <1>7, <2>1 DEF Unrevoked
    <2>5. \A t \in Task : At(t, {"writing", "written"})' => tmp' # None
      <3>1. \A t \in Task : At(t, {"writing", "written"})' => At(t, {"writing", "written"})
        BY DEF Quiet, At, Answering
      <3> QED
        BY <1>1, <2>1, <3>1 DEF Unrevoked
    <2> QED
      BY <2>2, <2>3, <2>4, <2>5 DEF Unrevoked
  <1> QED
    BY <1>9, <1>10, <1>11, <1>12 DEF Alive

LEMMA CallSurvival ==
  ASSUME IInv, Tame', NEW t \in Task, NEW r, Goes(t, r),
         UNCHANGED <<disk, tmp, live, grants>>, mislaid => mislaid',
         scene'.revokes = scene.revokes, scene'.sources = scene.sources,
         task[t].enrols => r.enrols,
         Tame => Quiet(t)
  PROVE  Alive'
  <1>1. task'[t] = r /\ \A u \in Task : u # t => task'[u] = task[u]
    BY DEF Goes, IInv, Typed
  <1>2. Tame
    BY <1>1, TameBefore
  <1>3. \A u \in Task : Quiet(u)
    BY <1>1, <1>2 DEF Quiet
  <1>4. \A p \in Process : grants'[p] = None \/ Known(grants'[p].rt)
    BY DEF Known, KnownIn
  <1> QED
    BY <1>2, <1>3, <1>4, QuietSurvival

\* A step that assigns neither grant nor answer.
LEMMA KeepsSurvival ==
  ASSUME IInv, Tame', NEW t \in Task, NEW p, NEW f, NEW k, NEW r,
         \/ r = [task[t] EXCEPT !.pc = p]
         \/ r = [task[t] EXCEPT !.pc = p, !.fd = f]
         \/ r = [task[t] EXCEPT !.pc = p, !.token = k],
         Goes(t, r), UNCHANGED <<disk, tmp, live, grants, scene>>, mislaid => mislaid',
         \/ At(t, {"answered"}) /\ p = "received"
         \/ At(t, {"answered"}) /\ ~Rotates(t) /\ p = "saved"
         \/ At(t, {"saved"}) /\ p = "exchanging"
         \/ /\ p \in {"holding", "minting", "done", "failed"}
            /\ ~At(t, {"writing", "renamed"})
            /\ Tame => ~Carried(t) /\ (AtRisk(t) => ~scene.revokes)
  PROVE  Alive'
  <1> DEFINE c == task[t]
  <1>1. c \in Call /\ CallOK(c) /\ task'[t] = r
    BY CallIs DEF IInv, Calls, Goes, Typed
  <1>2. r.pc = p /\ r.grant = c.grant /\ r.answer = c.answer /\ r.enrols = c.enrols
    <2> HIDE DEF c
    <2>1. \/ r = [c EXCEPT !.pc = p]
          \/ r = [c EXCEPT !.pc = p, !.fd = f]
          \/ r = [c EXCEPT !.pc = p, !.token = k]
      BY DEF c
    <2> QED
      BY <1>1, <2>1 DEF Call
  <1>3. c.grant = None \/ Known(c.grant.rt)
    BY DEF Known, KnownIn
  <1>4. ASSUME Tame PROVE Quiet(t)
    <2>1. CASE At(t, {"answered"}) /\ p = "received"
      BY <1>1, <1>2, <2>1 DEF Quiet
    <2>2. CASE At(t, {"answered"}) /\ ~Rotates(t) /\ p = "saved"
      <3>1. ~Carried(t) /\ ~AtRisk(t) /\ ~At(t, {"writing", "renamed"}) /\ At(t, Answering)
        BY <2>2 DEF Carried, AtRisk, At, Answering
      <3> QED
        BY <1>1, <1>2, <1>3, <2>2, <3>1 DEF Quiet, At
    <2>3. CASE At(t, {"saved"}) /\ p = "exchanging"
      <3>1. ~Carried(t) /\ ~AtRisk(t) /\ ~At(t, {"writing", "renamed"}) /\ At(t, Answering)
        BY <2>3 DEF Carried, AtRisk, At, Answering
      <3> QED
        BY <1>1, <1>2, <1>3, <2>3, <3>1 DEF Quiet, At
    <2>4. CASE /\ p \in {"holding", "minting", "done", "failed"}
               /\ ~At(t, {"writing", "renamed"})
               /\ ~Carried(t) /\ (AtRisk(t) => ~scene.revokes)
      <3>1. p \notin Answering /\ p \notin {"read", "asking"}
        BY <2>4 DEF Answering
      <3> QED
        BY <1>1, <1>2, <1>3, <2>4, <3>1 DEF Quiet, At
    <2> QED
      BY <1>4, <2>1, <2>2, <2>3, <2>4
  <1> QED
    BY <1>2, <1>4, CallSurvival

LEMMA FailsSurvival ==
  ASSUME IInv, Tame', NEW t \in Task,
         \/ NotEnrolled(t) \/ ProviderRefuses(t) \/ ProviderFails(t) \/ TimesOut(t)
         \/ RenameFindsNothing(t) \/ PutGrantFails(t) \/ ExchangeFails(t) \/ Cancelled(t)
  PROVE  Alive'
  <1> DEFINE r == [task[t] EXCEPT !.pc = "failed", !.fd = None]
  <1>0. /\ Goes(t, r) /\ UNCHANGED <<disk, tmp, grants, scene>>
        /\ \/ At(t, {"minting", "asking", "exchanging"}) /\ mislaid' = mislaid
           \/ At(t, {"queued", "asking", "answered", "exchanging"}) /\ mislaid' = (mislaid \/ AtRisk(t))
           \/ At(t, {"received", "writing", "written"}) /\ mislaid' = (mislaid \/ AtRisk(t))
           \/ At(t, {"written"}) /\ tmp = None /\ mislaid' = mislaid
    <2>1. CASE NotEnrolled(t) \/ ProviderRefuses(t) \/ ProviderFails(t) \/ ExchangeFails(t)
      BY <2>1 DEF NotEnrolled, ProviderRefuses, ProviderFails, ExchangeFails, Fails, Store, History, At
    <2>2. CASE RenameFindsNothing(t)
      BY <2>2 DEF RenameFindsNothing, Fails, Store, History
    <2>3. CASE TimesOut(t)
      BY <2>3 DEF TimesOut, Fails, Store, At
    <2>4. CASE PutGrantFails(t)
      BY <2>4 DEF PutGrantFails, Fails, Store
    <2>5. CASE Cancelled(t)
      BY <2>5 DEF Cancelled, Fails, Store
    <2> QED
      BY <2>1, <2>2, <2>3, <2>4, <2>5
  <1>1. /\ Goes(t, r) /\ UNCHANGED <<disk, tmp, grants, scene>> /\ (mislaid => mislaid')
        /\ \/ At(t, {"minting", "asking", "exchanging"})
           \/ At(t, {"queued", "asking", "answered", "exchanging"}) /\ mislaid' = (mislaid \/ AtRisk(t))
           \/ At(t, {"received", "writing", "written"}) /\ mislaid' = (mislaid \/ AtRisk(t))
           \/ At(t, {"written"}) /\ tmp = None
    <2> HIDE DEF r
    <2>1. mislaid => mislaid'
      BY <1>0, Zenon
    <2> QED
      BY <1>0, <2>1
  <1>2. r = [task[t] EXCEPT !.pc = "failed", !.fd = None] /\ r.enrols = task[t].enrols
    BY CallIs DEF IInv, Call
  <1>3. Tame
    <2>1. \A u \in Task : task[u].enrols => task'[u].enrols
      BY <1>1, <1>2 DEF Goes, IInv, Typed
    <2> QED
      BY <1>1, <2>1, TameBefore
  <1>4. live' = live
    \* A provider that revokes on reuse does not see a dead token.
    <2>1. ProviderRefuses(t) => At(t, {"read", "asking"}) /\ task[t].grant.rt \notin live
      BY DEF ProviderRefuses, At
    <2>2. ProviderRefuses(t) => ~scene.revokes
      BY <1>3, <2>1 DEF IInv, Survival, Unrevoked
    <2> QED
      BY <2>2 DEF NotEnrolled, ProviderRefuses, ProviderFails, TimesOut, RenameFindsNothing,
                  PutGrantFails, ExchangeFails, Cancelled, Provider
  <1>5. At(t, {"received", "writing", "written"}) => AtRisk(t)
    BY DEF IInv, Calls, CallOK, At, AtRisk, Rotates, Answering
  <1>6. ~mislaid'
    BY DEF Tame
  <1>7. /\ ~At(t, {"writing", "renamed"})
        /\ ~Carried(t) /\ (AtRisk(t) => ~scene.revokes)
    <2>1. CASE At(t, {"minting", "asking", "exchanging"})
      BY <2>1 DEF At, Carried, AtRisk
    <2>2. CASE At(t, {"queued", "asking", "answered", "exchanging"}) /\ mislaid' = (mislaid \/ AtRisk(t))
      BY <1>6, <2>2 DEF At, Carried
    <2>3. CASE At(t, {"received", "writing", "written"}) /\ mislaid' = (mislaid \/ AtRisk(t))
      BY <1>5, <1>6, <2>3
    <2>4. CASE At(t, {"written"}) /\ tmp = None
      <3>1. scene.revokes => ~At(t, {"writing", "written"})
        BY <1>3, <2>4 DEF IInv, Survival, Unrevoked
      <3> QED
        BY <2>4, <3>1 DEF At, Carried
    <2> QED
      BY <1>1, <2>1, <2>2, <2>3, <2>4
  <1> HIDE DEF r
  <1> QED
    BY <1>1, <1>2, <1>4, <1>7, KeepsSurvival

LEMMA GoesOnSurvival ==
  ASSUME IInv, Tame', NEW t \in Task,
         \/ Acquire(t) \/ Recheck(t) \/ Receive(t) \/ StartExchange(t)
         \/ Exchanged(t) \/ ReturnGrantsOwn(t)
  PROVE  Alive'
  <1>1. UNCHANGED <<disk, tmp, live, grants, scene, mislaid>>
    BY DEF Acquire, Recheck, Receive, StartExchange, Exchanged, ReturnGrantsOwn, Return,
           Store, Provider, History
  <1>2. PICK p, k, r :
          /\ Goes(t, r)
          /\ \/ r = [task[t] EXCEPT !.pc = p]
             \/ r = [task[t] EXCEPT !.pc = p, !.token = k]
          /\ \/ At(t, {"answered"}) /\ p = "received"
             \/ At(t, {"answered"}) /\ ~Rotates(t) /\ p = "saved"
             \/ At(t, {"saved"}) /\ p = "exchanging"
             \/ p \in {"holding", "minting", "done", "failed"} /\ At(t, {"queued", "holding", "saved", "exchanging"})
    <2>1. CASE Acquire(t)
      BY <2>1 DEF Acquire, At
    <2>2. CASE Recheck(t)
      BY <2>2 DEF Recheck, At
    <2>3. CASE Receive(t)
      BY <2>3 DEF Receive, At
    <2>4. CASE StartExchange(t)
      BY <2>4 DEF StartExchange, At
    <2>5. CASE Exchanged(t)
      BY <2>5 DEF Exchanged, Return, At
    <2>6. CASE ReturnGrantsOwn(t)
      BY <2>6 DEF ReturnGrantsOwn, Return, At
    <2> QED
      BY <2>1, <2>2, <2>3, <2>4, <2>5, <2>6
  <1>3. At(t, {"queued", "holding", "saved", "exchanging"}) =>
          ~At(t, {"writing", "renamed"}) /\ ~Carried(t) /\ ~AtRisk(t)
    BY DEF At, Carried, AtRisk
  <1> QED
    BY <1>1, <1>2, <1>3, KeepsSurvival

LEMMA BeginsSurvival ==
  ASSUME IInv, Tame', NEW t \in Task, NEW s \in Source, Hit(t, s) \/ Miss(t, s) \/ Enrol(t, s)
  PROVE  Alive'
  <1>1. PICK p, k, r :
          /\ Goes(t, r) /\ At(t, {"idle"})
          /\ \/ r = [Idle EXCEPT !.pc = p, !.src = s] /\ p = "queued"
             \/ r = [Idle EXCEPT !.pc = p, !.src = s, !.token = k] /\ p = "done"
             \/ r = [Idle EXCEPT !.pc = p, !.src = s, !.enrols = TRUE] /\ p = "asking"
    BY DEF Hit, Miss, Enrol
  <1>2. /\ r.grant = None /\ r.pc = p /\ (p = "asking" => r.enrols)
    BY <1>1 DEF Idle
  <1>3. /\ UNCHANGED <<disk, tmp, live, grants, mislaid>>
        /\ scene'.revokes = scene.revokes /\ scene'.sources = scene.sources
    BY DEF Hit, Miss, Enrol, Store, Provider, History, IInv, Typed, Scene
  <1>4. ~task[t].enrols
    BY <1>1 DEF IInv, Calls, CallOK, At
  <1>5. task'[t] = r
    BY <1>1 DEF Goes, IInv, Typed
  <1>6. scene.revokes => p # "asking"
    BY <1>2, <1>3, <1>5 DEF Tame
  <1>7. Quiet(t)
    <2>1. ~Carried(t) /\ ~AtRisk(t) /\ ~At(t, {"writing", "renamed"})
      BY <1>1 DEF At, Carried, AtRisk
    <2>2. p \notin Answering /\ p # "read"
      BY <1>1 DEF Answering
    <2> QED
      BY <1>2, <1>5, <1>6, <2>1, <2>2 DEF Quiet, At
  <1>8. mislaid => mislaid'
    BY <1>3
  <1> QED
    BY <1>1, <1>3, <1>4, <1>7, <1>8, CallSurvival

\* What a mint finds in the cache or in the file is what the provider accepts,
\* if it is one that revokes: nobody is carrying a successor.
LEMMA GrantSurvival ==
  ASSUME IInv, Tame', NEW t \in Task, GrantCached(t) \/ GrantRead(t)
  PROVE  Alive'
  <1> DEFINE c == task[t]
             g == IF GrantCached(t) THEN grants[Home(t)] ELSE disk
             p == IF GrantCached(t) THEN "asking" ELSE "read"
             r == [c EXCEPT !.pc = p, !.grant = g]
  <1>1. /\ Goes(t, r) /\ At(t, {"minting"}) /\ c \in Call
        /\ UNCHANGED <<disk, tmp, live, grants, mislaid, scene>>
    BY CallIs DEF IInv, GrantCached, GrantRead, At, Asks, Store, Provider, History
  <1>2. /\ Home(t) \in Process /\ c.src \in scene.sources
        /\ GrantCached(t) => g = grants[Home(t)] /\ g # None
        /\ ~GrantCached(t) => g = disk /\ g # None /\ g # Torn
    BY <1>1, HomeIs DEF GrantCached, GrantRead, At
  <1>0. r = [c EXCEPT !.pc = p, !.grant = g] /\ p \in {"asking", "read"}
    OBVIOUS
  <1>3. Known(g.rt)
    BY <1>2 DEF Known, KnownIn
  <1> HIDE DEF c, g, p, r
  <1>4. r.pc = p /\ r.grant = g /\ r.enrols = c.enrols
    BY <1>0, <1>1 DEF Call
  <1>5. task'[t] = r
    BY <1>1 DEF Goes, IInv, Typed
  <1>6. ASSUME Tame, scene.revokes PROVE g.rt \in live
    <2>1. ASSUME NEW u \in Task, AtRisk(u) \/ At(u, {"renamed"}) PROVE FALSE
      <3>1. At(u, Minting) /\ At(t, Minting)
        BY <1>1, <2>1 DEF AtRisk, At, Minting
      <3>2. u = t
        BY <1>6, <3>1, OneMinter
      <3> QED
        BY <1>1, <2>1, <3>2 DEF AtRisk, At
    <2>2. Survives /\ Unrevoked
      BY <1>6 DEF IInv, Survival
    <2>3. CASE GrantCached(t)
      BY <1>2, <1>6, <2>1, <2>2, <2>3 DEF Unrevoked, Home, c
    <2>4. CASE ~GrantCached(t)
      BY <1>2, <2>1, <2>2, <2>4 DEF Survives, Carried
    <2> QED
      BY <2>3, <2>4
  <1>7. ASSUME Tame PROVE Quiet(t)
    <2>1. ~Carried(t) /\ ~AtRisk(t) /\ ~At(t, {"writing", "renamed"})
      BY <1>1 DEF At, Carried, AtRisk
    <2>2. p \notin Answering
      BY <1>0 DEF Answering
    <2> QED
      BY <1>3, <1>4, <1>5, <1>6, <1>7, <2>1, <2>2 DEF Quiet, At
  <1>8. mislaid => mislaid'
    BY <1>1
  <1> QED
    BY <1>1, <1>4, <1>7, <1>8, CallSurvival DEF c

LEMMA GrantFilledSurvival ==
  ASSUME IInv, Tame', NEW t \in Task, GrantFilled(t)
  PROVE  Alive'
  <1> DEFINE c == task[t]
             r == [c EXCEPT !.pc = "asking", !.grant = c.grant]
  <1>1. /\ Goes(t, r) /\ c.pc = "read" /\ c \in Call /\ CallOK(c)
        /\ grants' = [grants EXCEPT ![Home(t)] = c.grant]
        /\ UNCHANGED <<disk, tmp, live, mislaid, scene>>
    BY CallIs DEF IInv, Calls, GrantFilled, At, Asks, Provider, History
  <1>0. r = [c EXCEPT !.pc = "asking", !.grant = c.grant]
    OBVIOUS
  <1>2. c.grant # None /\ Known(c.grant.rt) /\ At(t, {"read"})
    <2>1. c.grant # None
      <3> HIDE DEF c
      <3> QED
        BY <1>1 DEF CallOK
    <2> QED
      BY <1>1, <2>1 DEF Known, KnownIn, At
  <1> HIDE DEF c, r
  <1>3. r.pc = "asking" /\ r.grant = c.grant /\ r.enrols = c.enrols
    BY <1>0, <1>1 DEF Call
  <1>4. task'[t] = r /\ \A u \in Task : u # t => task'[u] = task[u]
    BY <1>1 DEF Goes, IInv, Typed
  <1>5. Tame
    BY <1>1, <1>3, <1>4, TameBefore DEF c
  <1>6. scene.revokes => c.grant.rt \in live
    BY <1>2, <1>5 DEF IInv, Survival, Unrevoked, At, c
  <1>7. \A u \in Task : Quiet(u)
    <2>1. ~Carried(t) /\ ~AtRisk(t) /\ ~At(t, {"writing", "renamed"}) /\ "asking" \notin Answering
      BY <1>2 DEF At, Carried, AtRisk, Answering
    <2>2. Quiet(t)
      BY <1>2, <1>3, <1>4, <1>6, <2>1 DEF Quiet, At
    <2> QED
      BY <1>4, <2>2 DEF Quiet
  <1>8. \A p \in Process : grants'[p] = grants[p] \/ grants'[p] = c.grant
    BY <1>1 DEF IInv, Typed
  <1>9. \A p \in Process : grants'[p] = None \/ Known(grants'[p].rt)
    BY <1>2, <1>8 DEF Known, KnownIn
  <1>10. scene.revokes => \A s \in scene.sources :
           grants'[ProcessOf[s]] \in {None, grants[ProcessOf[s]]} \/ grants'[ProcessOf[s]].rt \in live
    BY <1>6, <1>8, OauthConfig DEF IInv, Typed, Scene
  <1> QED
    BY <1>1, <1>5, <1>7, <1>9, <1>10, QuietSurvival

LEMMA ExpireSurvival ==
  ASSUME IInv, Tame', NEW p \in Process, Expire(p)
  PROVE  Alive'
  <1>1. UNCHANGED <<disk, tmp, grants, task, live, mislaid, scene>>
    BY DEF Expire, Provider, History
  <1>2. Tame
    BY <1>1, TameBefore
  <1>3. \A q \in Process : grants'[q] = None \/ Known(grants'[q].rt)
    BY <1>1 DEF Known, KnownIn
  <1> QED
    BY <1>1, <1>2, <1>3, QuietSurvival DEF Quiet

LEMMA CrashSurvival ==
  ASSUME IInv, Tame', NEW p \in Process, Crash(p)
  PROVE  Alive'
  <1>1. /\ UNCHANGED <<disk, tmp, live>> /\ grants' = [grants EXCEPT ![p] = None]
        /\ mislaid' = (mislaid \/ \E t \in Ended(p) : AtRisk(t))
        /\ scene'.sources = scene.sources /\ scene'.revokes = scene.revokes
    BY CrashIs
  <1>2. ~mislaid' /\ \A t \in Ended(p) : ~AtRisk(t)
    BY <1>1 DEF Tame
  <1>3. \A t \in Task : t \notin Ended(p) => task'[t] = task[t]
    BY CrashIs
  <1>4. ASSUME NEW t \in Ended(p)
        PROVE  /\ t \in Task /\ task'[t].pc = "failed" /\ task'[t].grant = task[t].grant
               /\ task'[t].enrols = task[t].enrols /\ CallOK(task[t])
    <2>1. t \in Task /\ task'[t] = [task[t] EXCEPT !.pc = "failed", !.fd = None]
      BY CrashIs DEF Ended
    <2> QED
      BY <2>1, CallIs DEF IInv, Calls, Call
  <1>5. Tame
    <2>1. \A t \in Task : task[t].enrols => task'[t].enrols
      BY <1>3, <1>4
    <2>2. mislaid => mislaid'
      BY <1>1, Zenon
    <2> QED
      BY <1>1, <2>1, <2>2, TameBefore
  <1>6. \A q \in Process : grants'[q] = None \/ (q # p /\ grants'[q] = grants[q])
    BY <1>1 DEF IInv, Typed
  <1>7. \A q \in Process : grants'[q] = None \/ Known(grants'[q].rt)
    BY <1>6 DEF Known, KnownIn
  <1>8. ASSUME NEW t \in Task PROVE Quiet(t)
    <2>1. CASE t \notin Ended(p)
      BY <1>3, <2>1 DEF Quiet
    <2>2. CASE t \in Ended(p)
      <3>1. ~AtRisk(t) /\ ~Carried(t) /\ ~At(t, {"writing"})
        BY <1>2, <1>4, <2>2 DEF Carried, AtRisk, At, CallOK, Rotates, Answering
      <3>2. task'[t].pc = "failed" /\ "failed" \notin Answering
        BY <1>4, <2>2 DEF Answering
      <3>3. task'[t].grant = None \/ Known(task'[t].grant.rt)
        BY <1>4, <2>2 DEF Known, KnownIn
      <3>4. ASSUME scene.revokes, At(t, {"renamed"}), NEW s \in scene.sources
            PROVE  grants'[ProcessOf[s]] = None
        <4>1. task[t].src \in scene.sources /\ Home(t) = p
          BY <2>2, <3>4, HomeIs DEF At, Ended
        <4>2. s = task[t].src
          BY <1>5, <3>4, <4>1 DEF Tame
        <4> QED
          BY <1>6, <4>1, <4>2 DEF Home
      <3> QED
        BY <3>1, <3>2, <3>3, <3>4 DEF Quiet
    <2> QED
      BY <2>1, <2>2
  <1>9. scene.revokes => \A s \in scene.sources :
          grants'[ProcessOf[s]] \in {None, grants[ProcessOf[s]]} \/ grants'[ProcessOf[s]].rt \in live
    BY <1>6, OauthConfig DEF IInv, Typed, Scene
  <1> QED
    BY <1>1, <1>5, <1>7, <1>8, <1>9, QuietSurvival

LEMMA OpenTmpSurvival ==
  ASSUME IInv, Tame', NEW t \in Task, OpenTmp(t)
  PROVE  Alive'
  <1> DEFINE c == task[t]
             r == [c EXCEPT !.pc = "writing", !.fd = "tmp"]
  <1>1. /\ Goes(t, r) /\ c.pc = "received" /\ c \in Call /\ CallOK(c) /\ tmp' = Torn
        /\ UNCHANGED <<disk, grants, live, mislaid, scene>>
    BY CallIs DEF IInv, Calls, OpenTmp, At, Provider
  <1>0. r = [c EXCEPT !.pc = "writing", !.fd = "tmp"] /\ "tmp" \in {"tmp", "disk", "gone"} \union {None}
    OBVIOUS
  <1>a. c.answer # None /\ c.answer.rt # 0
    <2> HIDE DEF c
    <2> QED
      BY <1>1 DEF CallOK, Answering
  <1> HIDE DEF r
  <1>2. /\ r.pc = "writing" /\ r.fd = "tmp" /\ r.grant = c.grant /\ r.answer = c.answer
        /\ r.enrols = c.enrols
    <2> HIDE DEF c
    <2> QED
      BY <1>0, <1>1 DEF Call
  <1>3. task'[t] = r /\ \A u \in Task : u # t => task'[u] = task[u]
    BY <1>1 DEF Goes, IInv, Typed
  <1>4. Tame
    BY <1>1, <1>2, <1>3, TameBefore
  <1>5. Secret /\ Whole /\ Survives /\ Unrevoked
    BY <1>4 DEF IInv, Survival
  <1>6. \A x : KnownNext(x) => Known(x)
    BY <1>1, <1>2, <1>3 DEF Known, KnownNext, KnownIn
  <1>7. \A u \in Task : /\ task'[u].answer = task[u].answer
                        /\ At(u, Answering)' <=> At(u, Answering)
                        /\ Fresh0(u)' <=> Fresh0(u)
                        /\ AtRisk(u)' <=> AtRisk(u)
                        /\ At(u, {"renamed"})' <=> At(u, {"renamed"})
                        /\ At(u, {"read", "asking"})' => task'[u] = task[u]
    BY <1>1, <1>2, <1>3 DEF At, Answering, Fresh0, AtRisk, Rotates
  <1>8. tmp' # None /\ tmp'.rt = 0
    BY <1>1, NoneIsNothing DEF Torn, Grant
  <1>9. Secret'
    BY <1>1, <1>5, <1>6, <1>7, <1>8, SecretNext DEF Secret, Rotates
  <1>10. Whole'
    <2>1. \A u \in Task : At(u, {"writing"}) => task'[u] = task[u]
      BY <1>1, <1>3 DEF At
    <2>2. At(t, {"writing"})' /\ task'[t].fd = "tmp"
      BY <1>2, <1>3 DEF At
    <2> QED
      BY <1>1, <1>5, <2>1, <2>2 DEF Whole, At, Torn
  <1>11. Survives'
    <2>1. Carried(t)'
      BY <1>2, <1>3, <1>8, <1>a DEF Carried, AtRisk, At, Rotates
    <2> QED
      BY <2>1 DEF Survives
  <1>12. Unrevoked'
    BY <1>1, <1>5, <1>7, <1>8 DEF Unrevoked, At
  <1> QED
    BY <1>9, <1>10, <1>11, <1>12 DEF Alive

LEMMA CacheGrantSurvival ==
  ASSUME IInv, Tame', NEW t \in Task, CacheGrant(t)
  PROVE  Alive'
  <1> DEFINE c == task[t]
             r == [c EXCEPT !.pc = "saved"]
  <1>1. /\ Goes(t, r) /\ c.pc = "renamed" /\ c \in Call /\ CallOK(c)
        /\ grants' = [grants EXCEPT ![Home(t)] = Rotated(t)]
        /\ UNCHANGED <<disk, tmp, live, mislaid, scene>>
    BY CallIs DEF IInv, Calls, CacheGrant, At, Provider, History
  <1>2. /\ Rotated(t).rt = c.answer.rt /\ c.answer.rt # 0 /\ c.answer # None
        /\ Home(t) \in Process /\ c.src \in scene.sources
    <2>1. Rotated(t).rt = c.answer.rt /\ Home(t) \in Process /\ c.src \in scene.sources
      BY <1>1, RotatedIs, HomeIs DEF At
    <2>2. c.answer.rt # 0 /\ c.answer # None
      <3> HIDE DEF c
      <3> QED
        BY <1>1 DEF CallOK, Answering
    <2> QED
      BY <2>1, <2>2
  <1>3. /\ r.pc = "saved" /\ r.grant = c.grant /\ r.answer = c.answer /\ r.enrols = c.enrols
    <2>0. r = [c EXCEPT !.pc = "saved"]
      OBVIOUS
    <2> HIDE DEF r, c
    <2> QED
      BY <1>1, <2>0 DEF Call
  <1> HIDE DEF r
  <1>4. task'[t] = r /\ \A u \in Task : u # t => task'[u] = task[u]
    BY <1>1 DEF Goes, IInv, Typed
  <1>5. Tame
    BY <1>1, <1>3, <1>4, TameBefore
  <1>6. Secret /\ Whole /\ Survives /\ Unrevoked
    BY <1>5 DEF IInv, Survival
  <1>7. \A p \in Process : grants'[p] = grants[p] \/ (p = Home(t) /\ grants'[p] = Rotated(t))
    BY <1>1 DEF IInv, Typed
  <1>8. ASSUME NEW x, KnownNext(x) PROVE Known(x) \/ x = c.answer.rt
    <2>1. CASE disk' # None /\ disk'.rt = x
      BY <1>1, <2>1 DEF Known, KnownIn
    <2>2. ASSUME NEW p \in Process, grants'[p] # None, grants'[p].rt = x
          PROVE  Known(x) \/ x = c.answer.rt
      BY <1>2, <1>7, <2>2 DEF Known, KnownIn
    <2>3. ASSUME NEW u \in Task, task'[u].grant # None, task'[u].grant.rt = x
          PROVE  Known(x)
      BY <1>3, <1>4, <2>3 DEF Known, KnownIn
    <2> QED
      BY <1>8, <2>1, <2>2, <2>3 DEF KnownNext, KnownIn
  <1>9. \A u \in Task : /\ task'[u].answer = task[u].answer
                        /\ At(u, Answering)' <=> At(u, Answering)
                        /\ Fresh0(u)' => Fresh0(u) /\ u # t
                        /\ AtRisk(u) <=> AtRisk(u)'
                        /\ At(u, {"renamed"})' => At(u, {"renamed"})
                        /\ At(u, {"read", "asking"})' => task'[u] = task[u]
                        /\ At(u, {"writing", "written"}) \/ At(u, {"writing", "written"})' =>
                             task'[u] = task[u]
    BY <1>1, <1>3, <1>4 DEF At, Answering, Fresh0, AtRisk, Rotates
  <1>10. ASSUME NEW u \in Task, Fresh0(u), u # t
         PROVE  task[u].answer.rt # c.answer.rt
    <2>1. At(u, Answering) /\ At(t, Answering) /\ Rotates(t)
      BY <1>1, <1>2, <1>10 DEF Fresh0, At, Answering, Rotates
    <2> QED
      BY <1>6, <1>10, <2>1 DEF Secret
  <1>11. Secret'
    <2>1. \A u \in Task : Fresh0(u)' => task'[u].answer.rt \in live' /\ ~KnownNext(task'[u].answer.rt)
      BY <1>1, <1>6, <1>8, <1>9, <1>10 DEF Secret
    <2>2. \A v, u \in Task :
             v # u /\ At(v, Answering)' /\ At(u, Answering)' /\ Rotates(v)' =>
               task'[v].answer.rt # task'[u].answer.rt
      BY <1>6, <1>9 DEF Secret, Rotates
    <2>3. tmp' # None /\ tmp'.rt # 0 =>
            /\ tmp'.rt \in live' /\ ~KnownNext(tmp'.rt)
            /\ \A u \in Task : Fresh0(u)' \/ At(u, {"renamed"})' => task'[u].answer.rt # tmp'.rt
      <3>1. At(t, {"renamed"})
        BY <1>1 DEF At
      <3> QED
        BY <1>1, <1>6, <1>8, <1>9, <3>1 DEF Secret
    <2> QED
      BY <2>1, <2>2, <2>3, SecretNext
  <1>12. Whole'
    <2>1. \A u \in Task : At(u, {"writing"}) => task'[u] = task[u]
      BY <1>9 DEF At
    <2> QED
      BY <1>1, <1>6, <2>1 DEF Whole, At, Torn
  <1>13. Survives'
    <2>1. \A u \in Task : Carried(u) => Carried(u)'
      BY <1>1, <1>9 DEF Carried, At
    <2> QED
      BY <1>1, <1>6, <2>1 DEF Survives, Torn
  <1>14. Unrevoked'
    <2> SUFFICES ASSUME scene'.revokes PROVE Unrevoked'
      BY DEF Unrevoked
    <2>1. scene.revokes
      BY <1>1
    <2>2. ASSUME NEW s \in scene'.sources PROVE grants'[ProcessOf[s]].rt \in live'
      <3>1. s = c.src
        BY <1>1, <1>2, <1>5, <2>1, <2>2 DEF Tame
      <3>2. grants'[ProcessOf[s]] = Rotated(t)
        BY <1>1, <1>2, <3>1 DEF Home, IInv, Typed
      <3>3. At(t, {"renamed"})
        BY <1>1 DEF At
      <3> QED
        BY <1>1, <1>2, <1>6, <2>1, <3>2, <3>3 DEF Unrevoked
    <2>3. \A u \in Task : At(u, {"read", "asking"})' => task'[u].grant.rt \in live'
      BY <1>1, <1>6, <1>9, <2>1 DEF Unrevoked, At
    <2>4. \A u \in Task : AtRisk(u)' \/ At(u, {"renamed"})' => task'[u].answer.rt \in live'
      BY <1>1, <1>6, <1>9, <2>1 DEF Unrevoked
    <2>5. \A u \in Task : At(u, {"writing", "written"})' => tmp' # None
      BY <1>1, <1>6, <1>9, <2>1 DEF Unrevoked, At
    <2> QED
      BY <2>2, <2>3, <2>4, <2>5 DEF Unrevoked
  <1> QED
    BY <1>11, <1>12, <1>13, <1>14 DEF Alive

\* A new refresh token has a new number, and only the one presented is retired.
LEMMA AnswersSurvival ==
  ASSUME IInv, Tame', NEW t \in Task,
         \/ \E rotates \in BOOLEAN : ProviderAnswers(t, rotates)
         \/ ProviderRedeems(t)
  PROVE  Alive'
  <1> DEFINE c == task[t]
             n == issued'
  <1>1. PICK rt \in {0, n} :
          /\ Goes(t, [c EXCEPT !.pc = "answered", !.answer = [at |-> n, rt |-> rt]])
          /\ rt = 0 => live' = live
          /\ rt # 0 => \/ ~c.enrols /\ live' = (live \ {c.grant.rt}) \union {n}
                       \/ c.enrols /\ live' = live \union {n}
    <2>0. issued' = issued + 1
      BY DEF ProviderAnswers, ProviderRedeems
    <2>1. n # 0
      BY <2>0 DEF IInv, Typed, Scene
    <2>2. CASE ProviderRedeems(t)
      BY <2>1, <2>2 DEF ProviderRedeems
    <2>3. CASE ProviderAnswers(t, TRUE)
      <3>1. /\ ~c.enrols /\ live' = (live \ {c.grant.rt}) \union {n}
            /\ Goes(t, [c EXCEPT !.pc = "answered", !.answer = [at |-> n, rt |-> n]])
        BY <2>3 DEF ProviderAnswers
      <3> HIDE DEF n
      <3> QED
        BY <2>1, <3>1
    <2>4. CASE ProviderAnswers(t, FALSE)
      BY <2>1, <2>4 DEF ProviderAnswers
    <2> QED
      BY <2>2, <2>3, <2>4
  <1>2. /\ c \in Call /\ CallOK(c) /\ c.pc = "asking" /\ At(t, {"asking"})
        /\ UNCHANGED <<disk, tmp, grants, scene, mislaid>> /\ n = issued + 1 /\ issued \in Nat
    <2>1. c \in Call /\ CallOK(c)
      BY CallIs DEF IInv, Calls
    <2>2. issued \in Nat
      BY DEF IInv, Typed, Scene
    <2> QED
      BY <2>1, <2>2 DEF ProviderAnswers, ProviderRedeems, Store, History, At
  <1> DEFINE a == [at |-> n, rt |-> rt]
             r == [c EXCEPT !.pc = "answered", !.answer = a]
  <1>3. r = [c EXCEPT !.pc = "answered", !.answer = a] /\ Goes(t, r)
    BY <1>1
  <1>4. a.rt = rt /\ a \in Answer /\ a # None
    <2>1. a \in Answer
      BY <1>2 DEF Answer
    <2> QED
      BY <2>1, NoneIsNothing
  <1> HIDE DEF a, r, c
  <1>5. r.pc = "answered" /\ r.answer = a /\ r.grant = c.grant /\ r.enrols = c.enrols
    BY <1>2, <1>3 DEF Call
  <1>6. task'[t] = r /\ \A u \in Task : u # t => task'[u] = task[u]
    BY <1>3 DEF Goes, IInv, Typed
  <1>7. Tame
    BY <1>2, <1>5, <1>6, TameBefore DEF c
  <1>8. Secret /\ Whole /\ Survives /\ Unrevoked
    BY <1>7 DEF IInv, Survival
  <1>9. \A x : KnownNext(x) => Known(x)
    BY <1>2, <1>5, <1>6 DEF Known, KnownNext, KnownIn, c
  <1>10. ~Known(n) /\ n \notin live
    <2>1. disk # None => disk.rt # n
      <3>1. disk # None => disk.rt \in Nat /\ disk.rt <= issued
        BY DEF IInv, Typed, Grant
      <3> QED
        BY <1>2, <3>1
    <2>2. ASSUME NEW p \in Process, grants[p] # None PROVE grants[p].rt # n
      <3>1. grants[p].rt \in Nat /\ grants[p].rt <= issued
        BY <2>2 DEF IInv, Typed, Grant
      <3> QED
        BY <1>2, <3>1
    <2>3. ASSUME NEW u \in Task, task[u].grant # None PROVE task[u].grant.rt # n
      <3>1. task[u].grant.rt \in Nat
        BY <2>3, CallIs DEF IInv, Grant
      <3>2. task[u].grant.rt <= issued
        BY <2>3 DEF IInv, Calls, CallOK
      <3> QED
        BY <1>2, <3>1, <3>2
    <2>4. n \notin live
      BY <1>2 DEF IInv, Typed
    <2> QED
      BY <2>1, <2>2, <2>3, <2>4 DEF Known, KnownIn
  <1>11. ASSUME NEW u \in Task, At(u, Answering) PROVE task[u].answer.rt # n
    <2>1. task[u].answer \in Answer \union {None} /\ task[u].answer # None /\ task[u].answer.rt <= issued
      BY <1>11, CallIs DEF IInv, Calls, CallOK, At
    <2>2. task[u].answer.rt \in Nat
      BY <2>1 DEF Answer
    <2> QED
      BY <1>2, <2>1, <2>2
  <1>12. \A u \in Task : /\ At(u, Answering)' => u = t \/ (At(u, Answering) /\ task'[u] = task[u])
                         /\ At(u, {"writing", "written", "renamed"}) \/ AtRisk(u) => u # t
    BY <1>2, <1>5, <1>6 DEF At, AtRisk, Answering
  \* Whoever holds an old refresh token keeps it, but for the one presented.
  <1>13. ASSUME NEW x \in live, ~Known(x) PROVE x \in live'
    <2>1. ~c.enrols => c.grant # None
      BY <1>2 DEF CallOK
    <2>2. ~c.enrols => x # c.grant.rt
      BY <1>13, <2>1 DEF Known, KnownIn, c
    <2> QED
      BY <1>1, <2>2
  <1>14. rt # 0 => n \in live' /\ rt = n
    BY <1>1
  <1>15. Secret'
    <2>1. ASSUME NEW u \in Task, Fresh0(u)'
          PROVE  task'[u].answer.rt \in live' /\ ~KnownNext(task'[u].answer.rt)
      <3>1. CASE u = t
        BY <1>4, <1>5, <1>6, <1>9, <1>10, <1>14, <2>1, <3>1 DEF Fresh0, Rotates
      <3>2. CASE u # t
        <4>1. Fresh0(u) /\ task'[u] = task[u]
          BY <1>6, <2>1, <3>2 DEF Fresh0, At, Rotates
        <4> QED
          BY <1>8, <1>9, <1>13, <4>1 DEF Secret
      <3> QED
        BY <3>1, <3>2
    <2>2. ASSUME NEW v \in Task, NEW u \in Task,
                 v # u, At(v, Answering)', At(u, Answering)', Rotates(v)'
          PROVE  task'[v].answer.rt # task'[u].answer.rt
      <3>1. CASE v = t
        <4>1. u # t /\ At(u, Answering) /\ task'[u] = task[u]
          BY <1>12, <2>2, <3>1
        <4>2. task'[v].answer.rt = n
          BY <1>4, <1>5, <1>6, <1>14, <2>2, <3>1 DEF Rotates
        <4> QED
          BY <1>11, <4>1, <4>2
      <3>2. CASE v # t
        <4>1. At(v, Answering) /\ task'[v] = task[v] /\ Rotates(v) /\ task[v].answer.rt # 0
          BY <1>6, <2>2, <3>2 DEF At, Rotates
        <4>2. CASE u = t
          BY <1>4, <1>5, <1>6, <1>11, <1>14, <4>1, <4>2
        <4>3. CASE u # t
          BY <1>6, <1>8, <2>2, <4>1, <4>3 DEF Secret, At
        <4> QED
          BY <4>2, <4>3
      <3> QED
        BY <3>1, <3>2
    <2>3. ASSUME tmp' # None, tmp'.rt # 0
          PROVE  /\ tmp'.rt \in live' /\ ~KnownNext(tmp'.rt)
                 /\ \A u \in Task : Fresh0(u)' \/ At(u, {"renamed"})' => task'[u].answer.rt # tmp'.rt
      <3>1. tmp \in Grant /\ tmp.rt \in Nat /\ tmp.rt <= issued /\ tmp' = tmp
        BY <1>2, <2>3 DEF IInv, Typed, Grant
      <3>2. tmp.rt # n
        BY <1>2, <3>1
      <3>3. tmp.rt \in live /\ ~Known(tmp.rt)
        BY <1>8, <2>3, <3>1 DEF Secret
      <3>4. ASSUME NEW u \in Task, Fresh0(u)' \/ At(u, {"renamed"})'
            PROVE  task'[u].answer.rt # tmp.rt
        <4>1. CASE u = t
          BY <1>4, <1>5, <1>6, <2>3, <3>1, <3>2, <4>1
        <4>2. CASE u # t
          BY <1>6, <1>8, <2>3, <3>1, <3>4, <4>2 DEF Secret, Fresh0, At, Rotates
        <4> QED
          BY <4>1, <4>2
      <3> QED
        BY <1>9, <1>13, <3>1, <3>3, <3>4
    <2> QED
      BY <2>1, <2>2, <2>3, SecretNext
  <1>16. Whole'
    <2>1. \A u \in Task : At(u, {"writing"}) => task'[u] = task[u]
      BY <1>6, <1>12 DEF At
    <2> QED
      BY <1>2, <1>8, <2>1 DEF Whole, At, Torn
  <1>17. Survives'
    <2>1. CASE rt = 0
      <3>1. \A u \in Task : Carried(u) => Carried(u)'
        BY <1>2, <1>6, <1>12 DEF Carried, AtRisk, At, Rotates
      <3> QED
        BY <1>1, <1>2, <1>8, <2>1, <3>1 DEF Survives, Torn
    <2>2. CASE rt # 0
      <3>1. Carried(t)'
        BY <1>4, <1>5, <1>6, <2>2 DEF Carried, AtRisk, At, Rotates
      <3> QED
        BY <3>1 DEF Survives
    <2> QED
      BY <2>1, <2>2
  <1>18. Unrevoked'
    <2> SUFFICES ASSUME scene'.revokes PROVE Unrevoked'
      BY DEF Unrevoked
    <2>1. scene.revokes /\ ~c.enrols
      BY <1>2, <1>7 DEF Tame, c
    <2>2. ASSUME NEW u \in Task, u # t PROVE ~At(u, Minting) /\ ~At(u, Minting)'
      <3>1. At(t, Minting)
        BY <1>2 DEF At, Minting
      <3>2. ~At(u, Minting)
        BY <1>7, <2>1, <2>2, <3>1, OneMinter
      <3> QED
        BY <1>6, <2>2, <3>2 DEF At
    <2>3. \A u \in Task : ~At(u, {"read", "asking"})'
      BY <1>5, <1>6, <2>2 DEF At, Minting
    <2>4. \A u \in Task : u # t => ~AtRisk(u) /\ ~At(u, {"renamed"})
                                   /\ ~AtRisk(u)' /\ ~At(u, {"renamed"})'
                                   /\ ~At(u, {"writing", "written"})'
      BY <2>2 DEF At, AtRisk, Minting
    <2>5. ~At(t, {"renamed"})' /\ ~At(t, {"writing", "written"})'
      BY <1>5, <1>6 DEF At
    <2>6. AtRisk(t)' => task'[t].answer.rt \in live' /\ rt # 0
      BY <1>4, <1>5, <1>6, <1>14 DEF AtRisk, Rotates
    <2>7. rt # 0 => AtRisk(t)'
      BY <1>4, <1>5, <1>6 DEF AtRisk, At, Rotates
    <2>8. ASSUME NEW s \in scene'.sources
          PROVE  \/ grants'[ProcessOf[s]] = None \/ grants'[ProcessOf[s]].rt \in live'
                 \/ \E u \in Task : AtRisk(u)' \/ At(u, {"renamed"})'
      <3>1. CASE rt = 0
        <4>1. \A u \in Task : ~AtRisk(u) /\ ~At(u, {"renamed"})
          BY <1>2, <2>4 DEF At, AtRisk
        <4> QED
          BY <1>1, <1>2, <1>8, <2>1, <3>1, <4>1 DEF Unrevoked
      <3>2. CASE rt # 0
        BY <2>7, <3>2
      <3> QED
        BY <3>1, <3>2
    <2> QED
      BY <2>3, <2>4, <2>5, <2>6, <2>8 DEF Unrevoked
  <1> QED
    BY <1>15, <1>16, <1>17, <1>18 DEF Alive

LEMMA FillTmpSurvival ==
  ASSUME IInv, Tame', NEW t \in Task, FillTmp(t)
  PROVE  Alive'
  <1> DEFINE c == task[t]
             r == [c EXCEPT !.pc = "written", !.fd = None]
             g == Rotated(t)
  <1>1. /\ Goes(t, r) /\ c.pc = "writing" /\ c \in Call /\ CallOK(c)
        /\ tmp' = (IF c.fd = "tmp" THEN g ELSE tmp)
        /\ disk' = (IF c.fd = "disk" THEN g ELSE disk)
        /\ UNCHANGED <<grants, live, mislaid, scene>>
    BY CallIs DEF IInv, Calls, FillTmp, Fills, At, Provider
  <1>2. /\ g \in Grant /\ g.rt = c.answer.rt /\ g # Torn /\ g # None /\ g.rt # 0
        /\ c.answer # None /\ At(t, {"writing"})
    <2>1. g \in Grant /\ g.rt = c.answer.rt /\ g # Torn /\ g # None /\ At(t, {"writing"})
      BY <1>1, RotatedIs DEF At
    <2>2. c.answer.rt # 0 /\ c.answer # None
      <3> HIDE DEF c, g
      <3> QED
        BY <1>1 DEF CallOK, Answering
    <2> QED
      BY <2>1, <2>2
  <1>3. r.pc = "written" /\ r.grant = c.grant /\ r.answer = c.answer /\ r.enrols = c.enrols
    <2>0. r = [c EXCEPT !.pc = "written", !.fd = None] /\ None \in {"tmp", "disk", "gone"} \union {None}
      OBVIOUS
    <2> HIDE DEF r, c
    <2> QED
      BY <1>1, <2>0 DEF Call
  <1> HIDE DEF r, g
  <1>4. task'[t] = r /\ \A u \in Task : u # t => task'[u] = task[u]
    BY <1>1 DEF Goes, IInv, Typed
  <1>5. Tame
    BY <1>1, <1>3, <1>4, TameBefore
  <1>6. Secret /\ Whole /\ Survives /\ Unrevoked
    BY <1>5 DEF IInv, Survival
  <1>7. \A u \in Task : /\ task'[u].answer = task[u].answer
                        /\ At(u, Answering)' <=> At(u, Answering)
                        /\ Fresh0(u)' <=> Fresh0(u) /\ u # t
                        /\ AtRisk(u)' <=> AtRisk(u)
                        /\ At(u, {"renamed"})' <=> At(u, {"renamed"})
                        /\ At(u, {"read", "asking"})' => task'[u] = task[u]
                        /\ At(u, {"writing", "written"})' <=> At(u, {"writing", "written"})
                        /\ At(u, {"writing"}) /\ u # t => task'[u] = task[u]
    BY <1>1, <1>3, <1>4 DEF At, Answering, Fresh0, AtRisk, Rotates
  \* Its own refresh token is secret, and no other call's.
  <1>8. /\ g.rt \in live /\ ~Known(g.rt)
        /\ \A u \in Task : At(u, Answering) /\ u # t => task[u].answer.rt # g.rt
        /\ tmp # None /\ tmp.rt # 0 => tmp.rt # g.rt
    <2>1. Fresh0(t) /\ At(t, Answering) /\ Rotates(t)
      BY <1>1, <1>2 DEF Fresh0, At, Rotates, Answering
    <2> QED
      BY <1>2, <1>6, <2>1 DEF Secret
  <1>9. ASSUME NEW x, KnownNext(x) PROVE Known(x) \/ (x = g.rt /\ disk' = g)
    <2>1. CASE disk' # None /\ disk'.rt = x
      BY <1>1, <2>1 DEF Known, KnownIn
    <2>2. ASSUME NEW p \in Process, grants'[p] # None, grants'[p].rt = x
          PROVE  Known(x)
      BY <1>1, <2>2 DEF Known, KnownIn
    <2>3. ASSUME NEW u \in Task, task'[u].grant # None, task'[u].grant.rt = x
          PROVE  Known(x)
      BY <1>3, <1>4, <2>3 DEF Known, KnownIn
    <2> QED
      BY <1>9, <2>1, <2>2, <2>3 DEF KnownNext, KnownIn
  <1>10. \A u \in Task : Fresh0(u) \/ At(u, {"renamed"}) => At(u, Answering)
    BY DEF Fresh0, At, Answering
  <1>11. Secret'
    <2>1. \A u \in Task : Fresh0(u)' => task'[u].answer.rt \in live' /\ ~KnownNext(task'[u].answer.rt)
      BY <1>1, <1>6, <1>7, <1>8, <1>9, <1>10 DEF Secret
    <2>2. \A v, u \in Task :
             v # u /\ At(v, Answering)' /\ At(u, Answering)' /\ Rotates(v)' =>
               task'[v].answer.rt # task'[u].answer.rt
      BY <1>6, <1>7 DEF Secret, Rotates
    <2>3. ASSUME tmp' # None, tmp'.rt # 0
          PROVE  /\ tmp'.rt \in live' /\ ~KnownNext(tmp'.rt)
                 /\ \A u \in Task : Fresh0(u)' \/ At(u, {"renamed"})' => task'[u].answer.rt # tmp'.rt
      <3>1. CASE c.fd = "tmp"
        <4>1. tmp' = g /\ disk' = disk
          BY <1>1, <3>1
        <4>2. ~KnownNext(g.rt)
          \* If the file on disk were this one, the provider's token would be known.
          BY <1>2, <1>8, <1>9, <4>1 DEF Known, KnownIn
        <4>3. \A u \in Task : Fresh0(u)' \/ At(u, {"renamed"})' => u # t /\ At(u, Answering)
          BY <1>1, <1>7, <1>10 DEF At
        <4> QED
          BY <1>1, <1>7, <1>8, <4>1, <4>2, <4>3
      <3>2. CASE c.fd # "tmp"
        <4>1. tmp' = tmp
          BY <1>1, <3>2
        <4> QED
          BY <1>1, <1>6, <1>7, <1>8, <1>9, <2>3, <4>1 DEF Secret
      <3> QED
        BY <3>1, <3>2
    <2> QED
      BY <2>1, <2>2, <2>3, SecretNext
  <1>12. Whole'
    <2>1. ASSUME disk' = Torn PROVE \E u \in Task : At(u, {"writing"})' /\ task'[u].fd = "disk"
      <3>1. c.fd # "disk" /\ disk = Torn
        BY <1>1, <1>2, <2>1
      <3>2. PICK u \in Task : At(u, {"writing"}) /\ task[u].fd = "disk"
        BY <1>6, <3>1 DEF Whole
      <3> QED
        BY <1>7, <3>1, <3>2 DEF At
    <2>2. ASSUME tmp' = Torn PROVE \E u \in Task : At(u, {"writing"})' /\ task'[u].fd = "tmp"
      <3>1. c.fd # "tmp" /\ tmp = Torn
        BY <1>1, <1>2, <2>2
      <3>2. PICK u \in Task : At(u, {"writing"}) /\ task[u].fd = "tmp"
        BY <1>6, <3>1 DEF Whole
      <3> QED
        BY <1>7, <3>1, <3>2 DEF At
    <2> QED
      BY <2>1, <2>2 DEF Whole, Torn
  <1>13. Survives'
    <2>1. \A u \in Task : Carried(u) => Carried(u)'
      BY <1>1, <1>2, <1>7 DEF Carried
    <2>2. disk' = disk \/ disk'.rt \in live'
      BY <1>1, <1>8
    <2> QED
      BY <1>1, <1>6, <2>1, <2>2 DEF Survives, Torn
  <1>14. Unrevoked'
    <2>1. tmp # None => tmp' # None
      BY <1>1, <1>2
    <2> QED
      BY <1>1, <1>6, <1>7, <2>1 DEF Unrevoked, At
  <1> QED
    BY <1>11, <1>12, <1>13, <1>14 DEF Alive

LEMMA RenameSurvival ==
  ASSUME IInv, Tame', NEW t \in Task, Rename(t)
  PROVE  Alive'
  <1> DEFINE c == task[t]
  <1>1. /\ c.pc = "written" /\ CallOK(c) /\ tmp # None /\ disk' = tmp /\ tmp' = None
        /\ UNCHANGED <<grants, live, mislaid, scene>>
    BY DEF IInv, Calls, Rename, At, Provider
  <1>2. ASSUME NEW u \in Task
        PROVE  /\ task'[u].enrols = task[u].enrols /\ task'[u].answer = task[u].answer
               /\ task'[u].grant = task[u].grant
               /\ task'[u].pc = IF u = t THEN "renamed" ELSE task[u].pc
               /\ u # t /\ task[u].fd = "tmp" => task'[u].fd = "disk"
    <2> DEFINE d == task[u]
               f == CASE d.fd = "tmp" -> "disk" [] d.fd = "disk" -> "gone" [] OTHER -> d.fd
    <2>1. task'[u] = IF u = t THEN [d EXCEPT !.pc = "renamed"] ELSE [d EXCEPT !.fd = f]
      BY DEF Rename
    <2>2. d \in Call /\ (d.fd = "tmp" => f = "disk")
      BY CallIs DEF IInv
    <2> HIDE DEF d, f
    <2>3. CASE u = t
      BY <2>1, <2>2, <2>3 DEF Call, d
    <2>4. CASE u # t
      <3>1. task'[u] = [d EXCEPT !.fd = f]
        BY <2>1, <2>4
      <3>2. /\ task'[u].enrols = d.enrols /\ task'[u].answer = d.answer
            /\ task'[u].grant = d.grant /\ task'[u].pc = d.pc /\ task'[u].fd = f
        BY <2>2, <3>1 DEF Call
      <3> QED
        BY <2>2, <2>4, <3>2 DEF d
    <2> QED
      BY <2>3, <2>4
  <1>3. c.answer # None /\ c.answer.rt # 0
    <2> HIDE DEF c
    <2> QED
      BY <1>1 DEF CallOK, Answering
  <1>4. Tame
    BY <1>1, <1>2, TameBefore
  <1>5. Secret /\ Whole /\ Survives /\ Unrevoked
    BY <1>4 DEF IInv, Survival
  <1>6. \A u \in Task : /\ At(u, Answering)' <=> At(u, Answering)
                        /\ Fresh0(u)' <=> Fresh0(u)
                        /\ AtRisk(u) => AtRisk(u)' \/ At(u, {"renamed"})'
                        /\ At(u, {"renamed"}) => At(u, {"renamed"})'
                        /\ AtRisk(u)' => AtRisk(u)
                        /\ At(u, {"renamed"})' => At(u, {"renamed"}) \/ AtRisk(u)
                        /\ At(u, {"read", "asking"})' <=> At(u, {"read", "asking"})
                        /\ At(u, {"writing"})' <=> At(u, {"writing"})
                        /\ At(u, {"writing"}) => u # t
    BY <1>1, <1>2, <1>3 DEF At, Answering, Fresh0, AtRisk, Rotates
  <1>7. ASSUME NEW x, KnownNext(x) PROVE Known(x) \/ x = tmp.rt
    BY <1>1, <1>2, <1>7 DEF KnownNext, Known, KnownIn
  <1>8. Secret'
    <2>1. ASSUME NEW u \in Task, Fresh0(u)'
          PROVE  task'[u].answer.rt \in live' /\ ~KnownNext(task'[u].answer.rt)
      <3>1. Fresh0(u) /\ task[u].answer.rt # 0 /\ task'[u].answer = task[u].answer
        BY <1>2, <1>6, <2>1 DEF Fresh0, Rotates
      <3>2. task[u].answer.rt # tmp.rt
        BY <1>1, <1>5, <3>1 DEF Secret
      <3> QED
        BY <1>1, <1>5, <1>7, <3>1, <3>2 DEF Secret
    <2>2. \A v, u \in Task :
             v # u /\ At(v, Answering)' /\ At(u, Answering)' /\ Rotates(v)' =>
               task'[v].answer.rt # task'[u].answer.rt
      BY <1>2, <1>5, <1>6 DEF Secret, Rotates
    <2> QED
      BY <1>1, <2>1, <2>2, SecretNext
  <1>9. Whole'
    <2>1. ASSUME disk' = Torn PROVE \E u \in Task : At(u, {"writing"})' /\ task'[u].fd = "disk"
      <3>1. PICK u \in Task : At(u, {"writing"}) /\ task[u].fd = "tmp"
        BY <1>1, <1>5, <2>1 DEF Whole
      <3> QED
        BY <1>2, <1>6, <3>1
    <2>2. tmp' # Torn
      BY <1>1, NoneIsNothing DEF Torn, Grant
    <2> QED
      BY <2>1, <2>2 DEF Whole, Torn
  <1>10. Survives'
    <2>1. tmp = Torn \/ tmp.rt # 0
      BY <1>1 DEF IInv, Typed, Grant, Torn
    <2>2. tmp = Torn \/ tmp.rt \in live
      BY <1>1, <1>5, <2>1 DEF Secret
    <2> QED
      BY <1>1, <2>2 DEF Survives, Torn
  <1>11. Unrevoked'
    <2> SUFFICES ASSUME scene'.revokes PROVE Unrevoked'
      BY DEF Unrevoked
    <2>1. scene.revokes
      BY <1>1
    <2>2. \A u \in Task : At(u, {"read", "asking"})' => task'[u].grant.rt \in live'
      BY <1>1, <1>2, <1>5, <1>6, <2>1 DEF Unrevoked
    <2>3. \A u \in Task : AtRisk(u)' \/ At(u, {"renamed"})' => task'[u].answer.rt \in live'
      BY <1>1, <1>2, <1>5, <1>6, <2>1 DEF Unrevoked
    <2>4. \A s \in scene'.sources :
            \/ grants'[ProcessOf[s]] = None \/ grants'[ProcessOf[s]].rt \in live'
            \/ \E u \in Task : AtRisk(u)' \/ At(u, {"renamed"})'
      BY <1>1, <1>5, <1>6, <2>1 DEF Unrevoked
    <2>5. ASSUME NEW u \in Task, At(u, {"writing", "written"})' PROVE FALSE
      <3>1. u # t /\ At(u, Minting) /\ At(t, Minting)
        BY <1>1, <1>2, <2>5 DEF At, Minting
      <3> QED
        BY <1>4, <2>1, <3>1, OneMinter
    <2> QED
      BY <2>2, <2>3, <2>4, <2>5 DEF Unrevoked
  <1> QED
    BY <1>8, <1>9, <1>10, <1>11 DEF Alive

LEMMA LogoutSurvival ==
  ASSUME IInv, Tame', Logout
  PROVE  Alive'
  <1>1. disk' = None /\ UNCHANGED <<tmp, grants, live, mislaid>>
        /\ scene'.revokes = scene.revokes /\ scene'.sources = scene.sources
    BY DEF Logout, Provider, History, IInv, Typed, Scene
  <1>2. ASSUME NEW u \in Task
        PROVE  /\ task'[u].enrols = task[u].enrols /\ task'[u].answer = task[u].answer
               /\ task'[u].grant = task[u].grant /\ task'[u].pc = task[u].pc
               /\ task[u].fd = "tmp" => task'[u].fd = "tmp"
    <2> DEFINE d == task[u]
               f == IF d.fd = "disk" THEN "gone" ELSE d.fd
    <2>1. task'[u] = [d EXCEPT !.fd = f]
      BY DEF Logout
    <2>2. d \in Call /\ (d.fd = "tmp" => f = "tmp")
      BY CallIs DEF IInv
    <2> HIDE DEF d, f
    <2>3. /\ task'[u].enrols = d.enrols /\ task'[u].answer = d.answer
          /\ task'[u].grant = d.grant /\ task'[u].pc = d.pc /\ task'[u].fd = f
      BY <2>1, <2>2 DEF Call
    <2> QED
      BY <2>2, <2>3 DEF d
  <1>3. Tame
    BY <1>1, <1>2, TameBefore
  <1>4. Secret /\ Whole /\ Survives /\ Unrevoked
    BY <1>3 DEF IInv, Survival
  <1>5. \A x : KnownNext(x) => Known(x)
    BY <1>1, <1>2 DEF Known, KnownNext, KnownIn
  <1>6. \A u \in Task : /\ At(u, Answering)' <=> At(u, Answering)
                        /\ Fresh0(u)' <=> Fresh0(u)
                        /\ AtRisk(u)' <=> AtRisk(u)
                        /\ At(u, {"renamed"})' <=> At(u, {"renamed"})
                        /\ At(u, {"read", "asking"})' <=> At(u, {"read", "asking"})
                        /\ At(u, {"writing", "written"})' <=> At(u, {"writing", "written"})
                        /\ At(u, {"writing"})' <=> At(u, {"writing"})
    BY <1>2 DEF At, Answering, Fresh0, AtRisk, Rotates
  <1>7. Secret'
    BY <1>1, <1>2, <1>4, <1>5, <1>6, SecretNext DEF Secret, Rotates
  <1>8. Whole'
    <2>1. disk' # Torn
      BY <1>1, NoneIsNothing DEF Torn, Grant
    <2> QED
      BY <1>1, <1>2, <1>4, <1>6, <2>1 DEF Whole, Torn
  <1>9. Survives'
    BY <1>1 DEF Survives
  <1>10. Unrevoked'
    BY <1>1, <1>2, <1>4, <1>6 DEF Unrevoked
  <1> QED
    BY <1>7, <1>8, <1>9, <1>10 DEF Alive

-----------------------------------------------------------------------------
(* Together. *)

LEMMA NextSurvival ==
  ASSUME IInv, [Next]_vars, Tame'
  PROVE  Alive'
  <1>1. CASE UNCHANGED vars
    <2>1. UNCHANGED <<disk, tmp, grants, task, live, mislaid, scene>>
      BY <1>1 DEF vars
    <2>2. Tame
      BY <2>1, TameBefore
    <2>3. \A q \in Process : grants'[q] = None \/ Known(grants'[q].rt)
      BY <2>1 DEF Known, KnownIn
    <2> QED
      BY <2>1, <2>2, <2>3, QuietSurvival DEF Quiet
  <1>2. ASSUME NEW t \in Task, NEW s \in Source, Hit(t, s) \/ Miss(t, s) \/ Enrol(t, s)
        PROVE  Alive'
    BY <1>2, BeginsSurvival
  <1>3. ASSUME NEW t \in Task, Proceeds(t)
        PROVE  Alive'
    BY <1>3, GoesOnSurvival, GrantSurvival, GrantFilledSurvival, FailsSurvival,
       OpenTmpSurvival, FillTmpSurvival, RenameSurvival, CacheGrantSurvival DEF Proceeds
  <1>4. ASSUME NEW t \in Task, ProviderStep(t) \/ Cancelled(t)
        PROVE  Alive'
    BY <1>4, AnswersSurvival, FailsSurvival, GoesOnSurvival DEF ProviderStep
  <1>5. ASSUME NEW p \in Process, Expire(p) \/ Crash(p)
        PROVE  Alive'
    BY <1>5, ExpireSurvival, CrashSurvival
  <1> QED
    BY <1>1, <1>2, <1>3, <1>4, <1>5, LogoutSurvival DEF Next

LEMMA NextIInv ==
  ASSUME IInv, [Next]_vars
  PROVE  IInv'
  <1>1. Base'
    BY NextBase
  <1>2. Survival'
    BY NextSurvival DEF Survival, Alive
  <1> QED
    BY <1>1, <1>2 DEF Base, IInv

LEMMA InitIInv ==
  ASSUME Init
  PROVE  IInv
  <1>1. /\ disk \in Grant /\ disk.rt = 1 /\ disk # Torn /\ disk # None
        /\ scene \in Scene
    BY OauthConfig, NoneIsNothing DEF Init, Grant, Torn
  <1>2. \A t \in Task : /\ task[t] = Idle /\ Idle \in Call /\ Idle.pc = "idle"
                        /\ Idle.src = None /\ Idle.enrols = FALSE /\ Idle.grant = None
                        /\ Idle.token = None /\ Idle.answer = None
    BY DEF Init, Idle, Call
  <1>3. Typed
    <2>1. task \in [Task -> Call]
      BY <1>2 DEF Init
    <2>2. /\ grants \in [Process -> Grant \union {None}] /\ \A p \in Process : grants[p] = None
          /\ access \in [Process -> Token \union {None}]
          /\ lock \in [Source -> Task \union {None}]
      BY DEF Init
    <2>3. /\ issued = 1 /\ live = {1} /\ durable = {1} /\ tmp = None
          /\ mislaid = FALSE /\ crossed = FALSE
      BY DEF Init
    <2>4. scene.responses \in Nat
      BY <1>1 DEF Scene
    <2>5. /\ issued \in 1 .. scene.responses + 1
          /\ live \subseteq 1 .. issued /\ durable \subseteq 1 .. issued
      BY <2>3, <2>4
    <2>6. disk.rt <= issued
      BY <1>1, <2>3
    <2>7. mislaid \in BOOLEAN /\ crossed \in BOOLEAN
      BY <2>3
    <2> QED
      BY <1>1, <2>1, <2>2, <2>3, <2>5, <2>6, <2>7 DEF Typed
  <1>4. Calls
    BY <1>2 DEF Calls, CallOK, Answering
  <1>5. Cached /\ Locks /\ Needed
    BY <1>2 DEF Init, Cached, Locks, Needed, At, Minting
  <1>6. OneWriter
    BY <1>1, <1>2 DEF OneWriter, At
  <1>7. \A t \in Task : ~At(t, Minting)
    BY <1>2 DEF At, Minting
  <1>8. Secret
    <2>1. \A t \in Task : ~At(t, Answering) /\ ~Fresh0(t)
      BY <1>2 DEF At, Answering, Fresh0
    <2> QED
      BY <2>1 DEF Secret, Init
  <1>9. Whole
    BY <1>1, NoneIsNothing DEF Whole, Init, Torn, Grant
  <1>10. Survives
    BY <1>1 DEF Survives, Init
  <1>11. Unrevoked
    <2>1. \A t \in Task : /\ ~AtRisk(t) /\ ~At(t, {"renamed"}) /\ ~At(t, {"read", "asking"})
                          /\ ~At(t, {"writing", "written"})
      BY <1>2 DEF At, AtRisk
    <2>2. \A s \in scene.sources : grants[ProcessOf[s]] = None
      BY <1>1, OauthConfig DEF Init, Scene
    <2> QED
      BY <2>1, <2>2 DEF Unrevoked
  <1> QED
    BY <1>3, <1>4, <1>5, <1>6, <1>8, <1>9, <1>10, <1>11 DEF IInv, Survival

\* The invariant holds for any number of callers, sources and processes.
LEMMA AlwaysIInv == Spec => []IInv
  <1>1. Init => IInv
    BY InitIInv
  <1>2. IInv /\ [Next]_vars => IInv'
    BY NextIInv
  <1> QED
    BY <1>1, <1>2, PTL DEF Spec

LEMMA Handed ==
  ASSUME IInv
  PROVE  HandedOutIsSound
  <1>1. TypeOK
    <2>1. {disk, tmp} \union {grants[p] : p \in Process} \subseteq Grant \union {None}
      BY DEF IInv, Typed
    <2>2. \A p \in Process : access[p] \in Token \union {None}
      BY DEF IInv, Typed
    <2>3. \A s \in Source : lock[s] # None =>
            task[lock[s]].src = s /\ ~At(lock[s], {"idle", "queued", "done", "failed"})
      BY DEF IInv, Locks, At, Minting
    <2>4. /\ live \subseteq 1 .. issued /\ issued \in 1 .. scene.responses + 1
          /\ durable \subseteq 1 .. issued /\ {mislaid, crossed} \subseteq BOOLEAN
      BY DEF IInv, Typed
    <2> QED
      BY <2>1, <2>2, <2>3, <2>4 DEF TypeOK
  <1>2. \A k \in HandedOut \ {None} : Sound(k)
    BY DEF HandedOut, IInv, Cached, Calls, CallOK
  <1>3. PersistedBeforeUse
    BY <1>2 DEF PersistedBeforeUse, Sound, Saved
  <1>4. OnlyExchanged
    BY <1>2 DEF OnlyExchanged, Sound
  <1> QED
    BY <1>1, <1>3, <1>4 DEF HandedOutIsSound

\* What TokenStore caches and resolve returns is of the kind that was
\* configured, and its successor is on disk: "it goes there before the access
\* token it arrived with is handed to anyone".
THEOREM OauthHandedOutIsSound == Spec => []HandedOutIsSound
  <1>1. IInv => HandedOutIsSound
    BY Handed
  <1> QED
    BY <1>1, AlwaysIInv, PTL

LEMMA Lives ==
  ASSUME IInv
  PROVE  CredentialSurvives
  <1>1. crossed \/ disk # Torn
    BY DEF IInv, OneWriter
  <1>2. ASSUME ~mislaid, disk # None,
               ~(/\ scene.revokes
                 /\ (\E r, s \in scene.sources : r # s) \/ \E t \in Task : task[t].enrols)
        PROVE  disk.rt \in live \/ \E t \in Task : AtRisk(t)
    <2>1. Whole /\ Survives
      BY <1>2 DEF IInv, Survival, Tame
    <2>2. CASE disk = Torn
      <3>1. PICK t \in Task : At(t, {"writing"})
        BY <2>1, <2>2 DEF Whole
      <3>2. AtRisk(t)
        BY <3>1 DEF IInv, Calls, CallOK, At, AtRisk, Rotates, Answering
      <3> QED
        BY <3>2
    <2>3. CASE disk # Torn
      BY <1>2, <2>1, <2>3 DEF Survives, Carried
    <2> QED
      BY <2>2, <2>3
  <1> QED
    BY <1>1, <1>2 DEF CredentialSurvives

\* persist_rotation and put_grant keep the credential: with no fault that takes
\* an answer away, the refresh token on disk is one the provider accepts, or a
\* call is on its way to the disk with its successor.
THEOREM OauthCredentialSurvives == Spec => []CredentialSurvives
  <1>1. IInv => CredentialSurvives
    BY Lives
  <1> QED
    BY <1>1, AlwaysIInv, PTL

\* Only the end of a mint or of an enrolment puts a token into the cache.
LEMMA WhoCaches ==
  ASSUME IInv, [Next]_vars, NEW p \in Process, access'[p] # None, access'[p] # access[p]
  PROVE  \E t \in Task, x \in BOOLEAN :
           /\ At(t, {"saved", "exchanging"}) /\ p = Home(t)
           /\ access'[p] = Fresh(t, x)
  <1>0. access \in [Process -> Token \union {None}]
    BY DEF IInv, Typed
  <1>1. CASE UNCHANGED vars
    BY <1>1 DEF vars
  <1>2. ASSUME NEW t \in Task, NEW s \in Source, Hit(t, s) \/ Miss(t, s) \/ Enrol(t, s)
        PROVE  FALSE
    BY <1>2 DEF Hit, Miss, Enrol, Store
  <1>3. ASSUME NEW t \in Task, NEW x \in BOOLEAN, Return(t, x), At(t, {"saved", "exchanging"})
        PROVE  p = Home(t) /\ access'[p] = Fresh(t, x)
    BY <1>0, <1>3, HomeIs DEF Return, At
  <1>4. ASSUME NEW t \in Task, Proceeds(t) \/ ProviderStep(t) \/ Cancelled(t), access' # access
        PROVE  \E x \in BOOLEAN : Return(t, x) /\ At(t, {"saved", "exchanging"})
    BY <1>4 DEF Proceeds, ProviderStep, Acquire, Recheck, GrantCached, GrantRead, GrantFilled,
                NotEnrolled, TimesOut, Receive, OpenTmp, FillTmp, Fills, Rename, RenameFindsNothing,
                PutGrantFails, CacheGrant, StartExchange, ReturnGrantsOwn, ProviderAnswers,
                ProviderRedeems, ProviderRefuses, ProviderFails, Exchanged, ExchangeFails,
                Cancelled, Store, At
  <1>5. ASSUME NEW q \in Process, Expire(q) \/ Crash(q)
        PROVE  FALSE
    BY <1>0, <1>5 DEF Expire, Crash
  <1>6. CASE Logout
    BY <1>6 DEF Logout
  <1> QED
    BY <1>1, <1>2, <1>3, <1>4, <1>5, <1>6 DEF Next

\* Oauth2Source::mint looks into the cache again once it has the lock: no
\* source replaces a live token of its own.
THEOREM OauthNoWastedMint == Spec => NoWastedMint
  <1>1. ASSUME IInv, [Next]_vars, NEW p \in Process,
               access[p] # None, access'[p] # None, access'[p] # access[p]
        PROVE  access'[p].by # access[p].by \/ access'[p].enrolled \/ access[p].enrolled
    <2>1. PICK t \in Task, x \in BOOLEAN :
            /\ At(t, {"saved", "exchanging"}) /\ p = Home(t)
            /\ access'[p] = Fresh(t, x)
      BY <1>1, WhoCaches
    <2>2. access'[p].by = task[t].src /\ access'[p].enrolled = task[t].enrols
      BY <2>1 DEF Fresh
    <2>3. At(t, Minting \ {"holding"})
      BY <2>1 DEF At, Minting
    <2>4. ~task[t].enrols => access[p].by # task[t].src \/ access[p].enrolled
      BY <1>1, <2>1, <2>3 DEF IInv, Needed
    <2> QED
      BY <2>2, <2>4
  <1>2. IInv /\ [Next]_vars =>
          [\A p \in Process :
             access[p] # None /\ access'[p] # None /\ access'[p] # access[p]
               => access'[p].by # access[p].by \/ access'[p].enrolled \/ access[p].enrolled]_vars
    BY <1>1
  <1> QED
    BY <1>2, AlwaysIInv, PTL DEF Spec, NoWastedMint
=============================================================================
