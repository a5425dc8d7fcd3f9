------------------------------- MODULE Oauth --------------------------------
(***************************************************************************)
(* One OAuth2 credential of marshal-secrets: Oauth2Source::resolve and mint *)
(* (oauth/source.rs), the enrolment that in-band capture and `marshal       *)
(* secrets oauth login` perform, and the TokenStore they share              *)
(* (oauth/store.rs), with its file on disk and its two in-memory tiers.     *)
(*                                                                          *)
(* A source is one Oauth2Source value: every profile that lists the swap    *)
(* and every reload builds its own, each with its own minting lock, over    *)
(* the one store of its process.  The command line is a process of its own  *)
(* on the same directory.  The token endpoint is external: it numbers what  *)
(* it issues, and a rotated refresh token is dead from then on.             *)
(***************************************************************************)
EXTENDS Naturals

CONSTANTS
  Task,            \* callers: requests that need the credential, captures
  Source,          \* the Oauth2Source values of the swap
  Process,         \* the processes that open the state directory
  ProcessOf,       \* Source -> Process
  Command,         \* the sources of command-line invocations: one call each
  Scenes,          \* [tasks, sources: who is there; exchange: token_exchange is
                   \*  configured; revokes: the provider revokes everything on seeing
                   \*  a dead token; bounds: responses, enrolments, crashes, logouts]
  None             \* no value

Scene == [tasks : SUBSET Task, sources : SUBSET Source, exchange : BOOLEAN, revokes : BOOLEAN,
          responses : Nat, enrolments : Nat, crashes : Nat, logouts : Nat]

Grant == [rt : Nat]

\* The provider's answer: an access token, and the refresh token that replaces
\* the one presented (0: none does).
Answer == [at : Nat, rt : Nat]

ASSUME OauthConfig ==
  /\ ProcessOf \in [Source -> Process] /\ Command \subseteq Source
  /\ Scenes \subseteq Scene
  /\ None \notin Task \union Source \union Grant \union Answer

VARIABLES
  disk,      \* the grant file: what TokenStore::put_grant renamed last
  tmp,       \* its temporary sibling, one path for all writers
  grants,    \* Process -> TokenStore.grants
  access,    \* Process -> TokenStore.access while live
  lock,      \* Source -> the task that holds `minting`
  task,      \* Task -> the state of its call
  live,      \* provider: the refresh tokens it would accept
  issued,    \* provider: how many responses it has given
  durable,   \* history: refresh tokens that have been on disk
  mislaid,   \* history: a rotation's answer was lost to a fault
  crossed,   \* history: a grant was written while another writer had the file open
  scene      \* the scene, with what may still happen in it

vars == <<disk, tmp, grants, access, lock, task, live, issued, durable, mislaid, crossed, scene>>

\* An access token: its number, the refresh token it arrived with (0: none),
\* whether it is the exchanged one, and the source that cached it.
Token == [at : Nat, rt : Nat, exchanged : BOOLEAN, by : Source, enrolled : BOOLEAN]

Idle == [pc |-> "idle", src |-> None, enrols |-> FALSE, grant |-> None,
         answer |-> None, token |-> None,
         fd |-> None]  \* the path of the file it is writing, by now

\* A file opened for writing and not written yet: no refresh token to be read.
Torn == [rt |-> 0]

Home(t)     == ProcessOf[task[t].src]
At(t, pcs)  == task[t].pc \in pcs
Goes(t, r)  == task' = [task EXCEPT ![t] = r]
Unlocked(t) == [s \in Source |-> IF lock[s] = t THEN None ELSE lock[s]]

\* The grant this task is about to put on disk.
Rotated(t) == [rt |-> task[t].answer.rt]

Rotates(t) == task[t].answer # None /\ task[t].answer.rt # 0

\* Between the provider's answer and the rename, the new refresh token exists
\* in this task and nowhere else.
AtRisk(t) == At(t, {"answered", "received", "writing", "written"}) /\ Rotates(t)

Store    == <<disk, tmp, grants, access>>
Provider == <<live, issued>>
History  == <<durable, mislaid, crossed>>

-----------------------------------------------------------------------------
Init ==
  /\ disk = [rt |-> 1] /\ tmp = None
  /\ grants = [p \in Process |-> None] /\ access = [p \in Process |-> None]
  /\ lock = [s \in Source |-> None] /\ task = [t \in Task |-> Idle]
  /\ live = {1} /\ issued = 1
  /\ durable = {1} /\ mislaid = FALSE /\ crossed = FALSE
  /\ scene \in Scenes

\* A command makes one call and exits; the daemon's sources serve everyone.
Usable(s) == s \in scene.sources /\ (s \in Command => \A t \in Task : task[t].src # s)

\* --------------------------------------------------------------- resolve
Hit(t, s) ==
  /\ At(t, {"idle"}) /\ t \in scene.tasks /\ Usable(s)
  /\ access[ProcessOf[s]] # None
  /\ Goes(t, [Idle EXCEPT !.pc = "done", !.src = s, !.token = access[ProcessOf[s]]])
  /\ UNCHANGED <<Store, lock, Provider, History, scene>>

Miss(t, s) ==
  /\ At(t, {"idle"}) /\ t \in scene.tasks /\ Usable(s)
  /\ access[ProcessOf[s]] = None
  /\ Goes(t, [Idle EXCEPT !.pc = "queued", !.src = s])
  /\ UNCHANGED <<Store, lock, Provider, History, scene>>

Acquire(t) ==
  /\ At(t, {"queued"})
  /\ lock[task[t].src] = None
  /\ lock' = [lock EXCEPT ![task[t].src] = t]
  /\ Goes(t, [task[t] EXCEPT !.pc = "holding"])
  /\ UNCHANGED <<Store, Provider, History, scene>>

\* Mutant: whoever waited for the lock mints as well.
RecheckNot(t) ==
  /\ At(t, {"holding"})
  /\ Goes(t, [task[t] EXCEPT !.pc = "minting"])
  /\ UNCHANGED <<Store, lock, Provider, History, scene>>

\* "Whoever held the lock may have just minted the token this request needs."
Recheck(t) ==
  /\ At(t, {"holding"})
  /\ IF access[Home(t)] # None
       THEN /\ Goes(t, [task[t] EXCEPT !.pc = "done", !.token = access[Home(t)]])
            /\ lock' = Unlocked(t)
       ELSE Goes(t, [task[t] EXCEPT !.pc = "minting"]) /\ UNCHANGED lock
  /\ UNCHANGED <<Store, Provider, History, scene>>

\* Mutant: an error leaves the lock taken.
FailsLocked(t) ==
  /\ Goes(t, [task[t] EXCEPT !.pc = "failed", !.fd = None])
  /\ UNCHANGED lock

\* Every way out of mint with an error: the lock guard is dropped.
Fails(t) ==
  /\ Goes(t, [task[t] EXCEPT !.pc = "failed", !.fd = None])
  /\ lock' = Unlocked(t)

\* ------------------------------------------------------ TokenStore::grant
Asks(t, g) == [task[t] EXCEPT !.pc = "asking", !.grant = g]

GrantCached(t) ==
  /\ At(t, {"minting"})
  /\ grants[Home(t)] # None
  /\ Goes(t, Asks(t, grants[Home(t)]))
  /\ UNCHANGED <<Store, lock, Provider, History, scene>>

GrantRead(t) ==
  /\ At(t, {"minting"})
  /\ grants[Home(t)] = None /\ disk \notin {None, Torn}
  /\ Goes(t, [task[t] EXCEPT !.pc = "read", !.grant = disk])
  /\ UNCHANGED <<Store, lock, Provider, History, scene>>

GrantFilled(t) ==
  /\ At(t, {"read"})
  /\ grants' = [grants EXCEPT ![Home(t)] = task[t].grant]
  /\ Goes(t, Asks(t, task[t].grant))
  /\ UNCHANGED <<disk, tmp, access, lock, Provider, History, scene>>

\* No file, or one that does not parse.
NotEnrolled(t) ==
  /\ At(t, {"minting"})
  /\ grants[Home(t)] = None /\ disk \in {None, Torn}
  /\ Fails(t)
  /\ UNCHANGED <<Store, Provider, History, scene>>

\* ------------------------------------- post_token; the endpoint is external
\* A refresh token it knows: answered, rotated or not.
ProviderAnswers(t, rotates) ==
  /\ At(t, {"asking"})
  /\ ~task[t].enrols /\ task[t].grant.rt \in live
  /\ issued <= scene.responses
  /\ issued' = issued + 1
  /\ live' = IF rotates THEN (live \ {task[t].grant.rt}) \union {issued'} ELSE live
  /\ Goes(t, [task[t] EXCEPT !.pc = "answered",
                !.answer = [at |-> issued', rt |-> IF rotates THEN issued' ELSE 0]])
  /\ UNCHANGED <<Store, lock, History, scene>>

\* A refresh token it has retired: invalid_grant.
ProviderRefuses(t) ==
  /\ At(t, {"asking"})
  /\ ~task[t].enrols /\ task[t].grant.rt \notin live
  /\ live' = IF scene.revokes THEN {} ELSE live
  /\ Fails(t)
  /\ UNCHANGED <<Store, issued, History, scene>>

\* An authorization code: always a fresh refresh token, or none at all.
ProviderRedeems(t) ==
  /\ At(t, {"asking"})
  /\ task[t].enrols
  /\ issued <= scene.responses
  /\ issued' = issued + 1 /\ live' = live \union {issued'}
  /\ Goes(t, [task[t] EXCEPT !.pc = "answered",
                !.answer = [at |-> issued', rt |-> issued']])
  /\ UNCHANGED <<Store, lock, History, scene>>

\* An error status, no usable answer, or (store_enrolment) no refresh token.
ProviderFails(t) ==
  /\ At(t, {"asking"})
  /\ Fails(t)
  /\ UNCHANGED <<Store, Provider, History, scene>>

\* Mutant: a call to the provider waits for as long as it takes.
TimesOutNever(t) ==
  /\ At(t, {"nowhere"})
  /\ Fails(t)
  /\ mislaid' = (mislaid \/ AtRisk(t))
  /\ UNCHANGED <<Store, Provider, durable, crossed, scene>>

\* Oauth2Source::bounded, also when the provider has answered by then.
TimesOut(t) ==
  /\ At(t, {"asking", "answered", "exchanging"})
  /\ Fails(t)
  /\ mislaid' = (mislaid \/ AtRisk(t))
  /\ UNCHANGED <<Store, Provider, durable, crossed, scene>>

\* Mutant: the token is used first, its refresh token stored some other day.
ReceiveUnsaved(t) ==
  /\ At(t, {"answered"})
  /\ Goes(t, [task[t] EXCEPT !.pc = "saved"])
  /\ UNCHANGED <<Store, lock, Provider, History, scene>>

Receive(t) ==
  /\ At(t, {"answered"})
  /\ Goes(t, [task[t] EXCEPT !.pc = IF Rotates(t) THEN "received" ELSE "saved"])
  /\ UNCHANGED <<Store, lock, Provider, History, scene>>

\* -------------------------------------------------- TokenStore::put_grant
\* Mutant: the grant file is opened in place.
OpenInPlace(t) ==
  /\ At(t, {"received"})
  /\ disk' = Torn
  /\ Goes(t, [task[t] EXCEPT !.pc = "writing", !.fd = "disk"])
  /\ UNCHANGED <<tmp, grants, access, lock, Provider, History, scene>>

\* write_private creates the temporary file, or truncates the one it finds.
OpenTmp(t) ==
  /\ At(t, {"received"})
  /\ tmp' = Torn
  /\ crossed' = (crossed \/ \E u \in Task : At(u, {"writing", "written"}))
  /\ Goes(t, [task[t] EXCEPT !.pc = "writing", !.fd = "tmp"])
  /\ UNCHANGED <<disk, grants, access, lock, Provider, durable, mislaid, scene>>

Fills(t, g) ==
  /\ At(t, {"writing"})
  /\ tmp'  = IF task[t].fd = "tmp"  THEN g ELSE tmp
  /\ disk' = IF task[t].fd = "disk" THEN g ELSE disk
  /\ durable' = IF task[t].fd = "disk" THEN durable \union {g.rt} ELSE durable
  /\ Goes(t, [task[t] EXCEPT !.pc = "written", !.fd = None])
  /\ UNCHANGED <<grants, access, lock, Provider, mislaid, crossed, scene>>

\* Mutant: the refresh token that was presented is stored again.
FillTmpPresented(t) == Fills(t, task[t].grant)

\* The contents go to the file that was opened, wherever it is by now.
FillTmp(t) == Fills(t, Rotated(t))

\* The rename takes whatever is at the temporary path; a writer that still
\* has that file open goes on writing what is now the grant file.
Rename(t) ==
  /\ At(t, {"written"})
  /\ tmp # None
  /\ disk' = tmp /\ tmp' = None /\ durable' = durable \union ({tmp.rt} \ {0})
  /\ task' = [u \in Task |->
                IF u = t THEN [task[t] EXCEPT !.pc = "renamed"]
                ELSE [task[u] EXCEPT !.fd = CASE @ = "tmp" -> "disk" [] @ = "disk" -> "gone"
                                              [] OTHER -> @]]
  /\ UNCHANGED <<grants, access, lock, Provider, mislaid, crossed, scene>>

CacheGrant(t) ==
  /\ At(t, {"renamed"})
  /\ grants' = [grants EXCEPT ![Home(t)] = Rotated(t)]
  /\ Goes(t, [task[t] EXCEPT !.pc = "saved"])
  /\ UNCHANGED <<disk, tmp, access, lock, Provider, History, scene>>

\* Another writer has already renamed the temporary file away.
RenameFindsNothing(t) ==
  /\ At(t, {"written"})
  /\ tmp = None
  /\ Fails(t)
  /\ UNCHANGED <<Store, Provider, History, scene>>

\* A directory others can read, a full disk.
PutGrantFails(t) ==
  /\ At(t, {"received", "writing", "written"})
  /\ Fails(t)
  /\ mislaid' = (mislaid \/ AtRisk(t))
  /\ UNCHANGED <<Store, Provider, durable, crossed, scene>>

\* ------------------------------------------------- exchange, cache, return
StartExchange(t) ==
  /\ At(t, {"saved"})
  /\ scene.exchange /\ ~task[t].enrols
  /\ Goes(t, [task[t] EXCEPT !.pc = "exchanging"])
  /\ UNCHANGED <<Store, lock, Provider, History, scene>>

Fresh(t, exchanged) ==
  [at |-> task[t].answer.at, rt |-> task[t].answer.rt, exchanged |-> exchanged,
   by |-> task[t].src, enrolled |-> task[t].enrols]

\* put_access keeps a token only if it states a lifetime beyond the skew.
Return(t, exchanged) ==
  /\ Goes(t, [task[t] EXCEPT !.pc = "done",
                !.token = IF task[t].enrols THEN None ELSE Fresh(t, exchanged)])
  /\ lock' = Unlocked(t)
  /\ access' \in {access, [access EXCEPT ![Home(t)] = Fresh(t, exchanged)]}
  /\ UNCHANGED <<disk, tmp, grants, Provider, History, scene>>

Exchanged(t) ==
  /\ At(t, {"exchanging"})
  /\ Return(t, TRUE)

ExchangeFails(t) ==
  /\ At(t, {"exchanging"})
  /\ Fails(t)
  /\ UNCHANGED <<Store, Provider, History, scene>>

\* Mutant: the grant's own token is cached and returned all the same.
ReturnGrantsOwnAlways(t) ==
  /\ At(t, {"saved"})
  /\ Return(t, FALSE)

\* No exchange; store_enrolment caches the grant's own token in any case.
ReturnGrantsOwn(t) ==
  /\ At(t, {"saved"})
  /\ ~scene.exchange \/ task[t].enrols
  /\ Return(t, FALSE)

-----------------------------------------------------------------------------
\* complete_authorization_code and poll_device_token: no lock is taken.
Enrol(t, s) ==
  /\ At(t, {"idle"}) /\ t \in scene.tasks /\ Usable(s)
  /\ scene.enrolments > 0
  /\ scene' = [scene EXCEPT !.enrolments = @ - 1]
  /\ Goes(t, [Idle EXCEPT !.pc = "asking", !.src = s, !.enrols = TRUE])
  /\ UNCHANGED <<Store, lock, Provider, History>>

\* is_live turns false; forget_access drops the token early.
Expire(p) ==
  /\ access[p] # None
  /\ access' = [access EXCEPT ![p] = None]
  /\ UNCHANGED <<disk, tmp, grants, lock, task, Provider, History, scene>>

\* The client hung up: the request's future is dropped where it awaits.
Cancelled(t) ==
  /\ At(t, {"queued", "asking", "answered", "exchanging"})
  /\ Fails(t)
  /\ mislaid' = (mislaid \/ AtRisk(t))
  /\ UNCHANGED <<Store, Provider, durable, crossed, scene>>

\* remove_grant: `oauth logout` runs in a process of its own, so what goes is
\* the file; the memory it also clears ends with that process.
Logout ==
  /\ scene.logouts > 0
  /\ scene' = [scene EXCEPT !.logouts = @ - 1]
  /\ disk' = None
  /\ task' = [t \in Task |-> [task[t] EXCEPT !.fd = IF @ = "disk" THEN "gone" ELSE @]]
  /\ UNCHANGED <<tmp, grants, access, lock, Provider, History>>

\* A process ends: its memory, its locks and its calls are gone.
Crash(p) ==
  /\ scene.crashes > 0 /\ \E s \in scene.sources : ProcessOf[s] = p
  /\ scene' = [scene EXCEPT !.crashes = @ - 1]
  /\ grants' = [grants EXCEPT ![p] = None] /\ access' = [access EXCEPT ![p] = None]
  /\ LET hit == {t \in Task : task[t].src # None /\ Home(t) = p /\ ~At(t, {"done", "failed"})}
     IN  /\ task' = [t \in Task |-> IF t \in hit THEN [task[t] EXCEPT !.pc = "failed", !.fd = None]
                                  ELSE task[t]]
         /\ lock' = [s \in Source |-> IF lock[s] \in hit THEN None ELSE lock[s]]
         /\ mislaid' = (mislaid \/ \E t \in hit : AtRisk(t))
  /\ UNCHANGED <<disk, tmp, Provider, durable, crossed>>

-----------------------------------------------------------------------------
Proceeds(t) ==
  \/ Acquire(t) \/ Recheck(t) \/ GrantCached(t) \/ GrantRead(t) \/ GrantFilled(t)
  \/ NotEnrolled(t) \/ TimesOut(t) \/ Receive(t) \/ OpenTmp(t) \/ FillTmp(t) \/ Rename(t)
  \/ RenameFindsNothing(t) \/ PutGrantFails(t) \/ CacheGrant(t) \/ StartExchange(t) \/ ReturnGrantsOwn(t)

ProviderStep(t) ==
  \/ \E rotates \in BOOLEAN : ProviderAnswers(t, rotates)
  \/ ProviderRedeems(t) \/ ProviderRefuses(t) \/ ProviderFails(t) \/ Exchanged(t) \/ ExchangeFails(t)

Next ==
  \/ \E t \in Task :
       \/ \E s \in Source : Hit(t, s) \/ Miss(t, s) \/ Enrol(t, s)
       \/ Proceeds(t) \/ ProviderStep(t) \/ Cancelled(t)
  \/ \E p \in Process : Expire(p) \/ Crash(p)
  \/ Logout

Spec == Init /\ [][Next]_vars

\* Calls of marshal go on; the provider may keep silent for ever.
FairSpec == Spec /\ \A t \in Task : WF_vars(Proceeds(t))

-----------------------------------------------------------------------------
\* Type invariant; a lock is held by a task of that source, inside mint.
TypeOK ==
  /\ {disk, tmp} \union {grants[p] : p \in Process} \subseteq Grant \union {None}
  /\ \A p \in Process : access[p] \in Token \union {None}
  /\ \A s \in Source : lock[s] # None =>
       task[lock[s]].src = s
         /\ ~At(lock[s], {"idle", "queued", "done", "failed"})
  /\ live \subseteq 1 .. issued /\ issued \in 1 .. scene.responses + 1
  /\ durable \subseteq 1 .. issued /\ {mislaid, crossed} \subseteq BOOLEAN

HandedOut == {access[p] : p \in Process} \union {task[t].token : t \in Task}

\* store.rs, "it goes there before the access token it arrived with is handed
\* to anyone": no access token is cached or returned whose refresh token has
\* not been on disk; unless two writers had the temporary file at once, which
\* only an enrolment beside a mint can bring about.
PersistedBeforeUse ==
  crossed \/ \A k \in HandedOut \ {None} : k.rt # 0 => k.rt \in durable

\* persist_rotation and put_grant: unless a fault took the provider's answer
\* away, the refresh token on disk is whole and one the provider accepts,
\* except while a task carries its successor to the disk.  With a provider
\* that revokes on reuse this needs a single source and no enrolment beside
\* it: put_grant fills the cache after the rename, so that a slow writer can
\* leave a retired token there.
CredentialSurvives ==
  /\ crossed \/ disk # Torn
  /\ \/ mislaid \/ disk = None
     \/ /\ scene.revokes
        /\ (\E r, s \in scene.sources : r # s) \/ \E t \in Task : task[t].enrols
     \/ disk.rt \in live
     \/ \E t \in Task : AtRisk(t)

\* Minting under the lock: a source never replaces a live token of its own;
\* a burst of requests on an expired one mints once.
NoWastedMint ==
  [][\A p \in Process :
       access[p] # None /\ access'[p] # None /\ access'[p] # access[p]
         => access'[p].by # access[p].by \/ access'[p].enrolled \/ access[p].enrolled]_vars

\* source.rs, Oauth2Config.token_exchange: "the exchanged token - not the
\* grant's own access token - is what gets cached and injected"; but for the
\* token an enrolment has put into the cache.
OnlyExchanged ==
  scene.exchange => \A k \in HandedOut \ {None} : k.exchanged \/ k.enrolled

\* What is handed out can be used: its successor is on disk, and it is the kind
\* of token that was configured.
HandedOutIsSound == TypeOK /\ PersistedBeforeUse /\ OnlyExchanged

\* bounded() and the lock guard: whoever queues for the credential gets an
\* answer, whatever the provider does.
EveryResolveEnds ==
  \A t \in Task : At(t, {"queued", "asking"}) ~> At(t, {"done", "failed"})
=============================================================================
